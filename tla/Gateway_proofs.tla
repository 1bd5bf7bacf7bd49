--------------------------- MODULE Gateway_proofs ---------------------------
(***************************************************************************)
(* Invariance proofs about the gateway.  LineFailover: for any adapters,   *)
(* timings and number of events.  Gateway: for any number of ports, any    *)
(* party lines, interfaces and settings, and any number of events.         *)
(***************************************************************************)
EXTENDS LineFailover, Gateway, WellFoundedInduction, TLAPS

-----------------------------------------------------------------------------
(* The watcher of the two lines.                                           *)

NetSet == [pref : Adapters \cup {Automatic}, changed : BOOLEAN, touched : BOOLEAN,
           loose : BOOLEAN, exited : BOOLEAN]

\* A call that no other has run into: what it asks for is what the watcher's state is
\* about to say, and what Windows prefers once the script is through.
CallFits(c) ==
  /\ c.to = "start"  => On /\ c.want = line.cfg.main /\ line.state \in {"main", "error"}
  /\ c.to = "main"   => On /\ c.want = line.cfg.main
  /\ c.to = "backup" => On /\ c.want = line.cfg.backup
  /\ c.to = "off"    => ~On /\ c.want = Automatic /\ line.state = "off"
  /\ c.at = "ok"     => net.pref = c.want

AloneInv ==
  \A s \in Slots : calls[s] # NoCall /\ calls[s].alone /\ ~quit =>
    CallFits(calls[s]) /\ \A r \in Slots \ {s} : calls[r] = NoCall

\* Any other call blurs the picture.
OthersBlur == ~quit => \A s \in Slots : calls[s] # NoCall /\ ~calls[s].alone => blurred

\* Metrics the gateway set are never taken for those it found, unless the last answer about
\* them was untrue: whatever Windows is made to prefer is noted, or about to be.
NotedInv ==
  ~quit /\ ~net.loose /\ net.touched /\ ~net.changed =>
    net.pref = Automatic \/ \E s \in Slots : calls[s] # NoCall /\ calls[s].at = "ok"

\* The watcher that is off says so; a switch is a matter of one that is on, or blurs.
OffInv == ~quit /\ ~blurred /\ Quiet(calls) /\ ~On => line.state = "off"

IInv == TypeOK /\ AloneInv /\ OthersBlur /\ NotedInv /\ OffInv /\ LineAgrees /\ LeftAsFound

-----------------------------------------------------------------------------
(* Calls *)

CallSet == [at : {"sent", "ok", "failed"}, want : Adapters \cup {Automatic},
            to : {"start", "off", "main", "backup"}, short : BOOLEAN, alone : BOOLEAN]

\* A call under way is a record of its own kind.
LEMMA CallType == ASSUME TypeOK, NEW s \in Slots PROVE calls[s] # NoCall => calls[s] \in CallSet
BY DEF TypeOK, Calls, CallSet

\* Another script disturbs those that are under way.
LEMMA DisturbedFacts ==
  ASSUME TypeOK
  PROVE  /\ Disturbed \in [Slots -> Calls]
         /\ \A s \in Slots : /\ Disturbed[s] = NoCall <=> calls[s] = NoCall
                             /\ Disturbed[s] # NoCall =>
                                  ~Disturbed[s].alone /\ Disturbed[s].at = calls[s].at
<1>1. \A s \in Slots : calls[s] # NoCall =>
        [calls[s] EXCEPT !.alone = FALSE] \in CallSet
  BY CallType DEF CallSet
<1>2. \A c \in CallSet : c \in Calls /\ c # NoCall BY DEF CallSet, Calls, NoCall
<1>3. NoCall \in Calls BY DEF Calls
<1>4. \A s \in Slots : calls[s] # NoCall =>
        /\ ~[calls[s] EXCEPT !.alone = FALSE].alone
        /\ [calls[s] EXCEPT !.alone = FALSE].at = calls[s].at
  BY CallType DEF CallSet
<1> QED BY <1>1, <1>2, <1>3, <1>4 DEF Disturbed

\* The new call is under way, alone if nothing was.
LEMMA AskedFacts ==
  ASSUME TypeOK, NEW slot \in Slots, NEW alias \in Adapters \cup {Automatic},
         NEW to \in {"start", "off", "main", "backup"}, NEW short \in BOOLEAN
  PROVE  LET cs == Asked(slot, alias, to, short)
         IN /\ cs \in [Slots -> Calls]
            /\ cs[slot] = [at |-> "sent", want |-> alias, to |-> to, short |-> short, alone |-> Quiet(calls)]
            /\ cs[slot] # NoCall
            /\ \A s \in Slots \ {slot} : /\ cs[s] = NoCall <=> calls[s] = NoCall
                                         /\ cs[s] # NoCall => ~cs[s].alone /\ cs[s].at = calls[s].at
<1> DEFINE c == [at |-> "sent", want |-> alias, to |-> to, short |-> short, alone |-> Quiet(calls)]
<1>1. Quiet(calls) \in BOOLEAN BY DEF Quiet
<1>2. c \in CallSet /\ c # NoCall BY <1>1 DEF CallSet, NoCall
<1>3. c \in Calls BY <1>2 DEF CallSet, Calls
<1> HIDE DEF c
<1>4. Asked(slot, alias, to, short) = [Disturbed EXCEPT ![slot] = c] BY DEF Asked, c
<1>5. [Disturbed EXCEPT ![slot] = c] \in [Slots -> Calls] BY <1>3, DisturbedFacts
<1>6. [Disturbed EXCEPT ![slot] = c][slot] = c BY DisturbedFacts
<1>7. \A s \in Slots \ {slot} : [Disturbed EXCEPT ![slot] = c][s] = Disturbed[s] BY DisturbedFacts
<1> QED BY <1>2, <1>4, <1>5, <1>6, <1>7, DisturbedFacts DEF c

-----------------------------------------------------------------------------
(* Steps *)

\* A call begins.
LEMMA AskKeeps ==
  ASSUME IInv, TypeOK', ~quit, UNCHANGED <<net, quit>>, NEW slot \in Slots, calls[slot] = NoCall,
         NEW alias \in Adapters \cup {Automatic}, NEW to \in {"start", "off", "main", "backup"},
         NEW short \in BOOLEAN,
         calls' = Asked(slot, alias, to, short), blurred' = (blurred \/ ~Quiet(calls)),
         /\ to = "start"  => On' /\ alias = line'.cfg.main /\ line'.state \in {"main", "error"}
         /\ to = "main"   => On' /\ alias = line'.cfg.main
         /\ to = "backup" => On' /\ alias = line'.cfg.backup
         /\ to = "off"    => ~On' /\ alias = Automatic /\ line'.state = "off"
  PROVE  IInv'
<1> USE DEF IInv
<1>1. /\ calls'[slot] = [at |-> "sent", want |-> alias, to |-> to, short |-> short, alone |-> Quiet(calls)]
      /\ calls'[slot] # NoCall
      /\ \A s \in Slots \ {slot} : /\ calls'[s] = NoCall <=> calls[s] = NoCall
                                   /\ calls'[s] # NoCall =>
                                        ~calls'[s].alone /\ calls'[s].at = calls[s].at
  BY AskedFacts
<1>2. ~Quiet(calls)' BY <1>1 DEF Quiet
<1>3. AloneInv'
  <2> SUFFICES ASSUME NEW s \in Slots, calls'[s] # NoCall, calls'[s].alone
               PROVE  CallFits(calls[s])' /\ \A r \in Slots \ {s} : calls'[r] = NoCall
    BY DEF AloneInv
  <2>1. s = slot /\ Quiet(calls) BY <1>1
  <2>2. CallFits(calls[s])' BY <1>1, <2>1 DEF CallFits
  <2> QED BY <1>1, <2>1, <2>2 DEF Quiet
<1>4. OthersBlur'
  <2> SUFFICES ASSUME NEW s \in Slots, calls'[s] # NoCall, ~calls'[s].alone PROVE blurred'
    BY DEF OthersBlur
  <2>1. ~Quiet(calls) BY <1>1 DEF Quiet
  <2> QED BY <2>1
<1>5. NotedInv'
  <2> SUFFICES ASSUME ~net.loose, net.touched, ~net.changed, net.pref # Automatic
               PROVE  \E s \in Slots : calls'[s] # NoCall /\ calls'[s].at = "ok"
    BY DEF NotedInv
  <2>1. PICK s \in Slots : calls[s] # NoCall /\ calls[s].at = "ok" BY DEF NotedInv
  <2> QED BY <1>1, <2>1
<1>6. OffInv' BY <1>2 DEF OffInv
<1>7. LineAgrees' BY <1>2 DEF LineAgrees
<1>8. LeftAsFound' BY DEF LeftAsFound
<1> QED BY <1>3, <1>4, <1>5, <1>6, <1>7, <1>8

\* Nothing begins or ends, and the watcher's state and settings stay.
LEMMA StayKeeps ==
  ASSUME IInv, TypeOK', UNCHANGED <<net, quit, calls, blurred>>,
         line'.state = line.state, line'.cfg = line.cfg
  PROVE  IInv'
<1> USE DEF IInv
<1>1. AloneInv' BY DEF AloneInv, CallFits, On
<1>2. OthersBlur' BY DEF OthersBlur
<1>3. NotedInv' BY DEF NotedInv
<1>4. OffInv' BY DEF OffInv, On
<1>5. LineAgrees' BY DEF LineAgrees
<1>6. LeftAsFound' BY DEF LeftAsFound
<1> QED BY <1>1, <1>2, <1>3, <1>4, <1>5, <1>6

\* A script ends, well or not.
LEMMA AppliesKeeps == ASSUME IInv, NEW s \in Slots, Applies(s) PROVE IInv'
<1> USE DEF IInv
<1> DEFINE c == calls[s]
           ok == c.want = Automatic \/ quality[c.want] # "out"
           at == IF ok THEN "ok" ELSE "failed"
<1>1. c.at = "sent" /\ c \in CallSet
  <2>1. c # NoCall BY DEF Applies, NoCall
  <2> QED BY <2>1, CallType DEF Applies
<1>2. /\ calls' = [calls EXCEPT ![s].at = at]
      /\ net' = IF ok THEN [net EXCEPT !.pref = c.want, !.touched = TRUE] ELSE net
      /\ UNCHANGED <<line, quality, conn, seen, quit, blurred, n>>
  BY DEF Applies
<1> HIDE DEF ok
<1>3. calls \in [Slots -> Calls] /\ net \in NetSet
  BY DEF TypeOK, NetSet
<1>4. /\ calls'[s] = [c EXCEPT !.at = at] /\ calls'[s] \in CallSet /\ calls'[s] # NoCall
      /\ \A r \in Slots \ {s} : calls'[r] = calls[r]
      /\ calls[s] # NoCall
  BY <1>1, <1>2, <1>3 DEF CallSet, NoCall
<1>5. /\ calls'[s].at = at /\ calls'[s].want = c.want /\ calls'[s].to = c.to
      /\ calls'[s].alone = c.alone
  BY <1>1, <1>4 DEF CallSet
<1>6. /\ net' \in NetSet
      /\ net'.changed = net.changed /\ net'.loose = net.loose /\ net'.exited = net.exited
      /\ ok => net'.pref = c.want
      /\ ~ok => net' = net
  BY <1>1, <1>2, <1>3 DEF CallSet, NetSet
<1>7. TypeOK'
  <2>1. calls' \in [Slots -> Calls] BY <1>2, <1>3, <1>4 DEF Calls, CallSet
  <2> QED BY <1>2, <1>6, <2>1 DEF TypeOK, NetSet
<1>8. ~Quiet(calls)' BY <1>4 DEF Quiet
<1>9. AloneInv'
  <2> SUFFICES ASSUME NEW r \in Slots, calls'[r] # NoCall, calls'[r].alone, ~quit
               PROVE  CallFits(calls[r])' /\ \A q \in Slots \ {r} : calls'[q] = NoCall
    BY <1>2 DEF AloneInv
  <2>1. CASE r = s
    <3>1. CallFits(c) /\ \A q \in Slots \ {s} : calls[q] = NoCall
      BY <1>4, <1>5, <2>1 DEF AloneInv
    <3>2. CallFits(calls[s])' BY <1>2, <1>5, <1>6, <3>1 DEF CallFits, On
    <3> QED BY <1>4, <2>1, <3>1, <3>2
  <2>2. CASE r # s BY <1>4, <2>2 DEF AloneInv
  <2> QED BY <2>1, <2>2
<1>10. OthersBlur' BY <1>2, <1>4, <1>5 DEF OthersBlur
<1>11. NotedInv'
  <2>1. CASE ok BY <1>4, <1>5, <2>1 DEF NotedInv
  <2>2. CASE ~ok
    <3> SUFFICES ASSUME ~quit, ~net.loose, net.touched, ~net.changed
                 PROVE  net.pref = Automatic \/ \E r \in Slots : calls'[r] # NoCall /\ calls'[r].at = "ok"
      BY <1>2, <1>6, <2>2 DEF NotedInv
    <3> QED BY <1>1, <1>4 DEF NotedInv
  <2> QED BY <2>1, <2>2
<1> QED BY <1>7, <1>8, <1>9, <1>10, <1>11 DEF OffInv, LineAgrees, LeftAsFound

\* One that fails leaves the picture blurred.
LEMMA FailKeeps == ASSUME IInv, NEW s \in Slots, ScriptFails(s) PROVE IInv'
<1> USE DEF IInv
<1> DEFINE c == calls[s]
<1>1. c.at = "sent" /\ c # NoCall /\ c \in CallSet
  <2>1. c # NoCall BY DEF ScriptFails, NoCall
  <2> QED BY <2>1, CallType DEF ScriptFails
<1>2. /\ calls' = [calls EXCEPT ![s].at = "failed"] /\ blurred'
      /\ net' \in {net, [net EXCEPT !.pref = c.want, !.touched = TRUE, !.loose = TRUE]}
      /\ ~quit /\ n' \in 0..MaxEvents /\ UNCHANGED <<line, quality, conn, seen, quit>>
  BY LineAssumption DEF ScriptFails, Event, TypeOK
<1>3. calls \in [Slots -> Calls] /\ net \in NetSet
  BY DEF TypeOK, NetSet
<1>4. /\ calls'[s] = [c EXCEPT !.at = "failed"] /\ calls'[s] \in CallSet /\ calls'[s] # NoCall
      /\ \A r \in Slots \ {s} : calls'[r] = calls[r]
  BY <1>1, <1>2, <1>3 DEF CallSet, NoCall
<1>5. /\ calls'[s].at = "failed" /\ calls'[s].want = c.want /\ calls'[s].to = c.to
      /\ calls'[s].alone = c.alone
  BY <1>1, <1>4 DEF CallSet
<1>6. TypeOK'
  <2>1. calls' \in [Slots -> Calls] BY <1>2, <1>3, <1>4 DEF Calls, CallSet
  <2>2. net' \in NetSet BY <1>1, <1>2, <1>3 DEF CallSet, NetSet
  <2> QED BY <1>2, <2>1, <2>2 DEF TypeOK, NetSet
<1>7. AloneInv'
  <2> SUFFICES ASSUME NEW r \in Slots, calls'[r] # NoCall, calls'[r].alone
               PROVE  CallFits(calls[r])' /\ \A q \in Slots \ {r} : calls'[q] = NoCall
    BY DEF AloneInv
  <2>1. CASE r = s
    <3>1. CallFits(c) /\ \A q \in Slots \ {s} : calls[q] = NoCall
      BY <1>1, <1>2, <1>5, <2>1 DEF AloneInv
    <3>2. CallFits(calls[s])' BY <1>2, <1>5, <3>1 DEF CallFits, On
    <3> QED BY <1>4, <2>1, <3>1, <3>2
  <2>2. CASE r # s BY <1>1, <1>2, <1>4, <2>2 DEF AloneInv
  <2> QED BY <2>1, <2>2
<1>8. NotedInv'
  <2>1. CASE net' = net
    <3> SUFFICES ASSUME ~net.loose, net.touched, ~net.changed, net.pref # Automatic
                 PROVE  \E r \in Slots : calls'[r] # NoCall /\ calls'[r].at = "ok"
      BY <2>1 DEF NotedInv
    <3>1. PICK r \in Slots : calls[r] # NoCall /\ calls[r].at = "ok" BY <1>2 DEF NotedInv
    <3> QED BY <1>1, <1>4, <3>1
  <2>2. CASE net' # net
    <3>1. net'.loose BY <1>2, <1>3, <2>2 DEF NetSet
    <3> QED BY <3>1 DEF NotedInv
  <2> QED BY <2>1, <2>2
<1> QED BY <1>2, <1>6, <1>7, <1>8 DEF OthersBlur, OffInv, LineAgrees, LeftAsFound

\* The answer: what an undisturbed call has made of Windows is what the state then says.
LEMMA ReturnsKeeps == ASSUME IInv, NEW s \in Slots, Returns(s) PROVE IInv'
<1> USE DEF IInv
<1> DEFINE c == calls[s]
           ok == c.at = "ok"
           switching == c.to \in {"main", "backup"}
<1>1. c # NoCall /\ c \in CallSet /\ ~quit /\ quit' = quit
  <2>1. c # NoCall BY DEF Returns, NoCall
  <2> QED BY <2>1, CallType DEF Returns
<1>2. calls' = [calls EXCEPT ![s] = NoCall] BY DEF Returns
<1>3. net' = [net EXCEPT !.changed = Noted(c), !.loose = IF ok THEN net.pref # c.want ELSE @]
  BY DEF Returns
<1>4. blurred' = (blurred /\ ~(ok /\ c.alone)) BY DEF Returns
<1>5. /\ ok /\ switching => line' = Switched(line, c)
      /\ ~ok /\ c.to # "off" => line' = Failed(line)
      /\ ~(ok /\ switching) /\ ~(~ok /\ c.to # "off") => line' = line
  BY DEF Returns
<1>6. conn' \in {conn, Automatic} /\ UNCHANGED <<quality, seen, n>> BY DEF Returns
<1>7. calls \in [Slots -> Calls] /\ net \in NetSet
  BY DEF TypeOK, NetSet
<1>8. calls'[s] = NoCall /\ \A r \in Slots \ {s} : calls'[r] = calls[r] BY <1>2, <1>7
<1>9. Noted(c) \in BOOLEAN BY <1>7 DEF Noted, NetSet
<1>10. /\ net' \in NetSet /\ net'.pref = net.pref
       /\ net'.changed = Noted(c) /\ net'.touched = net.touched
       /\ ok => (net'.loose <=> net.pref # c.want)
       /\ ~ok => (net'.loose <=> net.loose)
  BY <1>3, <1>7, <1>9 DEF NetSet
<1>11. /\ line'.cfg = line.cfg
       /\ line'.state = IF ok /\ switching THEN c.to
                        ELSE IF ~ok /\ c.to # "off" THEN "error" ELSE line.state
  BY <1>5 DEF Switched, Failed, TypeOK
<1>12. TypeOK'
  <2>1. line' \in [state : {"off", "main", "backup", "error"}, cfg : Settings \cup {NoSettings},
                   bad : 0..BadTicks, gone : 0..OfflineTicks, since : 0..(MaxHold + 1),
                   hold : Hold..MaxHold, back : 0..Short]
    <3>1. {BadTicks, OfflineTicks, Short, Hold, MaxHold} \subseteq Nat /\ Hold <= MaxHold
      BY LineAssumption
    <3>2. 0 \in 0..BadTicks /\ 0 \in 0..OfflineTicks /\ 0 \in 0..(MaxHold + 1) /\ 0 \in 0..Short
          /\ Hold \in Hold..MaxHold /\ MaxHold \in Hold..MaxHold
      BY <3>1
    <3>3. \A h \in Hold..MaxHold : (IF 2 * h > MaxHold THEN MaxHold ELSE 2 * h) \in Hold..MaxHold
      BY <3>1
    <3>4. line \in [state : {"off", "main", "backup", "error"}, cfg : Settings \cup {NoSettings},
                    bad : 0..BadTicks, gone : 0..OfflineTicks, since : 0..(MaxHold + 1),
                    hold : Hold..MaxHold, back : 0..Short]
      BY DEF TypeOK
    <3>5. CASE ok /\ switching
      <4>1. line' = Switched(line, c) /\ c.to \in {"main", "backup"} BY <1>5, <3>5
      <4>2. line'.state \in {"main", "backup"} /\ line'.cfg = line.cfg
            /\ line'.since = 0 /\ line'.bad = 0 /\ line'.gone = 0
        BY <3>4, <4>1 DEF Switched
      <4>3. line'.hold = IF c.to # "backup" THEN line.hold
                         ELSE IF ~c.short THEN Hold
                         ELSE IF 2 * line.hold > MaxHold THEN MaxHold ELSE 2 * line.hold
        BY <3>4, <4>1 DEF Switched
      <4>4. line.hold \in Hold..MaxHold /\ line.back \in 0..Short BY <3>4
      <4>5. line'.hold \in Hold..MaxHold BY <3>2, <3>3, <4>3, <4>4
      <4>6. line'.back \in {0, line.back} BY <3>4, <4>1 DEF Switched
      <4>7. line' = [state |-> line'.state, cfg |-> line'.cfg, bad |-> line'.bad, gone |-> line'.gone,
                     since |-> line'.since, hold |-> line'.hold, back |-> line'.back]
        BY <3>4, <4>1 DEF Switched
      <4>8. line.cfg \in Settings \cup {NoSettings} BY <3>4
      <4> QED BY <3>2, <4>2, <4>4, <4>5, <4>6, <4>7, <4>8
    <3>6. CASE ~ok /\ c.to # "off" BY <1>5, <3>4, <3>6 DEF Failed
    <3> QED BY <1>5, <3>4, <3>5, <3>6
  <2>2. calls' \in [Slots -> Calls] BY <1>2, <1>7 DEF Calls
  <2>3. conn' \in Adapters \cup {Automatic} BY <1>6 DEF TypeOK
  <2>4. blurred' \in BOOLEAN BY <1>4 DEF TypeOK
  <2>5. quality' \in [Adapters -> {"good", "lossy", "dead", "out"}] /\ {seen', quit'} \subseteq BOOLEAN
        /\ n' \in 0..MaxEvents
    BY <1>1, <1>6 DEF TypeOK
  <2>6. net' \in NetSet BY <1>10
  <2> QED BY <2>1, <2>2, <2>3, <2>4, <2>5, <2>6 DEF TypeOK, NetSet
<1>13. AloneInv'
  <2> SUFFICES ASSUME NEW r \in Slots, calls'[r] # NoCall, calls'[r].alone PROVE FALSE
    BY DEF AloneInv
  <2>1. r # s /\ calls[r] # NoCall /\ calls[r].alone BY <1>8
  <2> QED BY <1>1, <2>1 DEF AloneInv
<1>14. OthersBlur'
  <2> SUFFICES ASSUME NEW r \in Slots, calls'[r] # NoCall, ~calls'[r].alone PROVE blurred'
    BY DEF OthersBlur
  <2>1. r # s /\ calls[r] # NoCall /\ blurred BY <1>1, <1>8 DEF OthersBlur
  <2>2. ~c.alone BY <1>1, <2>1 DEF AloneInv
  <2> QED BY <1>4, <2>1, <2>2
<1>15. ASSUME ~blurred' PROVE c.alone /\ CallFits(c) /\ (blurred => ok)
  <2>1. c.alone BY <1>1, <1>4, <1>15 DEF OthersBlur
  <2> QED BY <1>1, <1>4, <1>15, <2>1 DEF AloneInv
<1>16. NotedInv'
  <2> SUFFICES ASSUME ~net'.loose, net.touched, ~Noted(c), net.pref # Automatic
               PROVE  \E r \in Slots : calls'[r] # NoCall /\ calls'[r].at = "ok"
    BY <1>10 DEF NotedInv
  <2>1. CASE ok BY <1>10, <2>1 DEF Noted
  <2>2. CASE ~ok
    <3>1. ~net.loose /\ ~net.changed BY <1>10, <2>2 DEF Noted
    <3>2. PICK r \in Slots : calls[r] # NoCall /\ calls[r].at = "ok" BY <1>1, <3>1 DEF NotedInv
    <3> QED BY <1>8, <2>2, <3>2
  <2> QED BY <2>1, <2>2
<1>17. OffInv'
  <2> SUFFICES ASSUME ~blurred', ~On PROVE line'.state = "off"
    BY <1>11 DEF OffInv, On
  <2>1. c.to = "off" /\ line.state = "off" BY <1>1, <1>15 DEF CallFits, CallSet
  <2> QED BY <1>11, <2>1
<1>18. LineAgrees'
  <2> SUFFICES ASSUME ~blurred'
               PROVE  /\ line'.state = "main" => net.pref = line.cfg.main
                      /\ line'.state = "backup" => net.pref = line.cfg.backup
    BY <1>10, <1>11 DEF LineAgrees
  <2>1. CallFits(c) BY <1>15
  <2>2. c.to \in {"start", "off", "main", "backup"} BY <1>1 DEF CallSet
  <2> QED BY <1>11, <2>1, <2>2 DEF CallFits
<1> QED BY <1>1, <1>12, <1>13, <1>14, <1>16, <1>17, <1>18 DEF LeftAsFound

-----------------------------------------------------------------------------
(* The watcher *)

LineSet == [state : {"off", "main", "backup", "error"}, cfg : Settings \cup {NoSettings},
            bad : 0..BadTicks, gone : 0..OfflineTicks, since : 0..(MaxHold + 1),
            hold : Hold..MaxHold, back : 0..Short]

\* Of the type only the line, the calls and what has happened so far change.
LEMMA TypeKept ==
  ASSUME TypeOK, line' \in LineSet, calls' \in [Slots -> Calls], blurred' \in BOOLEAN,
         n' \in 0..MaxEvents, UNCHANGED world
  PROVE  TypeOK'
BY DEF TypeOK, LineSet, world

\* The settings that are not there are no settings.
LEMMA SettingsFacts ==
  /\ \A c \in Settings : c # NoSettings /\ c.main \in Adapters /\ c.backup \in Adapters
BY LineAssumption DEF Settings, NoSettings

LEMMA EventCounts == ASSUME TypeOK, Event PROVE n' \in 0..MaxEvents /\ ~quit
BY LineAssumption DEF TypeOK, Event

LEMMA ConfigureKeeps == ASSUME IInv, NEW c \in Settings, Configure(c) PROVE IInv'
<1> USE DEF IInv
<1>1. n' \in 0..MaxEvents /\ ~quit /\ UNCHANGED world
      /\ blurred' = (blurred \/ ~Quiet(calls))
  BY EventCounts DEF Configure
<1>2. PICK s \in {"edit1", "edit2"} : calls[s] = NoCall /\ calls' = Asked(s, c.main, "start", FALSE)
  BY DEF Configure
<1>3. s \in Slots BY DEF Slots
<1>4. c.main \in Adapters \cup {Automatic} /\ c # NoSettings BY SettingsFacts
<1>5. /\ line' \in LineSet /\ line'.cfg = c /\ line'.state = "main"
  <2>1. {BadTicks, OfflineTicks, MaxHold} \subseteq Nat BY LineAssumption
  <2>2. 0 \in 0..BadTicks /\ 0 \in 0..OfflineTicks /\ 0 \in 0..(MaxHold + 1) BY <2>1
  <2>3. line \in LineSet BY DEF TypeOK, LineSet
  <2> QED BY <2>2, <2>3 DEF Configure, LineSet
<1>6. calls' \in [Slots -> Calls] BY <1>2, <1>3, <1>4, AskedFacts
<1>7. TypeOK' BY <1>1, <1>5, <1>6, TypeKept DEF TypeOK, Quiet
<1>8. On' /\ c.main = line'.cfg.main BY <1>4, <1>5 DEF On
<1> QED BY <1>1, <1>2, <1>3, <1>4, <1>5, <1>7, <1>8, AskKeeps DEF world

LEMMA SwitchOffKeeps == ASSUME IInv, SwitchOff PROVE IInv'
<1> USE DEF IInv
<1>1. n' \in 0..MaxEvents /\ ~quit /\ UNCHANGED world
      /\ blurred' = (blurred \/ ~Quiet(calls))
  BY EventCounts DEF SwitchOff
<1>2. line' \in LineSet /\ line'.cfg = NoSettings /\ line'.state = "off" /\ ~On'
  <2>1. line \in LineSet BY DEF TypeOK, LineSet
  <2> QED BY <2>1 DEF SwitchOff, LineSet, On
<1>3. CASE line.state = "backup"
  <2>1. PICK s \in {"edit1", "edit2"} : calls[s] = NoCall /\ calls' = Asked(s, Automatic, "off", FALSE)
    BY <1>3 DEF SwitchOff
  <2>2. s \in Slots BY DEF Slots
  <2>3. calls' \in [Slots -> Calls] BY <2>1, <2>2, AskedFacts
  <2>4. TypeOK' BY <1>1, <1>2, <2>3, TypeKept DEF TypeOK, Quiet
  <2> QED BY <1>1, <1>2, <2>1, <2>2, <2>4, AskKeeps DEF world
<1>4. CASE line.state # "backup"
  <2>1. calls' = Disturbed BY <1>4 DEF SwitchOff
  <2>2. TypeOK' BY <1>1, <1>2, <2>1, DisturbedFacts, TypeKept DEF TypeOK, Quiet
  <2>3. AloneInv' BY <2>1, DisturbedFacts DEF AloneInv
  <2>4. Quiet(calls)' <=> Quiet(calls) BY <2>1, DisturbedFacts DEF Quiet
  <2>5. OthersBlur' BY <1>1, <2>1, DisturbedFacts DEF OthersBlur, Quiet
  <2>6. NotedInv'
    <3> SUFFICES ASSUME ~net.loose, net.touched, ~net.changed, net.pref # Automatic
                 PROVE  \E s \in Slots : calls'[s] # NoCall /\ calls'[s].at = "ok"
      BY <1>1 DEF NotedInv, world
    <3>1. PICK s \in Slots : calls[s] # NoCall /\ calls[s].at = "ok" BY <1>1 DEF NotedInv
    <3> QED BY <2>1, <3>1, DisturbedFacts
  <2>7. OffInv' /\ LineAgrees' BY <1>2 DEF OffInv, LineAgrees
  <2>8. LeftAsFound' BY <1>1 DEF LeftAsFound, world
  <2> QED BY <2>2, <2>3, <2>5, <2>6, <2>7, <2>8
<1> QED BY <1>3, <1>4

\* A switch with the settings there are.
LEMMA SwitchToKeeps ==
  ASSUME IInv, NEW l \in LineSet, NEW which \in {"main", "backup"}, SwitchTo(l, which),
         l.cfg = line.cfg, On, Idle, ~quit, n' \in 0..MaxEvents, UNCHANGED world
  PROVE  IInv'
<1> USE DEF IInv
<1> DEFINE alias == IF which = "main" THEN l.cfg.main ELSE l.cfg.backup
           short == which = "backup" /\ l.back < Short
<1>1. line.cfg \in Settings BY DEF On, TypeOK
<1>2. alias \in Adapters \cup {Automatic} BY <1>1, SettingsFacts
<1>3. line' = l /\ calls' = Asked("switch", alias, which, short)
      /\ blurred' = (blurred \/ ~Quiet(calls))
  BY DEF SwitchTo
<1>4. "switch" \in Slots /\ calls["switch"] = NoCall /\ short \in BOOLEAN
      /\ which \in {"start", "off", "main", "backup"}
  BY DEF Slots, Idle
<1>5. /\ which = "main" => On' /\ alias = line'.cfg.main
      /\ which = "backup" => On' /\ alias = line'.cfg.backup
      /\ which \notin {"start", "off"}
  BY <1>3 DEF On
<1> HIDE DEF alias, short
<1>6. calls' \in [Slots -> Calls] BY <1>2, <1>3, <1>4, AskedFacts
<1>7. TypeOK' BY <1>3, <1>6, TypeKept DEF TypeOK, Quiet
<1> QED BY <1>2, <1>3, <1>4, <1>5, <1>7, AskKeeps DEF world

\* What a tick counts is counted within its limits.
LEMMA CountedFacts ==
  ASSUME TypeOK
  PROVE  LET l == IF Idle THEN Measured(Aged(line)) ELSE Aged(line)
         IN l \in LineSet /\ l.cfg = line.cfg /\ l.state = line.state
<1>1. {BadTicks, OfflineTicks, Short, MaxHold} \subseteq Nat BY LineAssumption
<1>2. \A top \in Nat : \A k \in 0..top : Capped(k, top) \in 0..top BY DEF Capped
<1>3. MaxHold + 1 \in Nat BY <1>1
<1>4. line \in LineSet BY DEF TypeOK, LineSet
<1>5. Aged(line) \in LineSet /\ Aged(line).cfg = line.cfg /\ Aged(line).state = line.state
  <2>1. Capped(line.since, MaxHold + 1) \in 0..(MaxHold + 1) /\ Capped(line.back, Short) \in 0..Short
    BY <1>1, <1>2, <1>3, <1>4 DEF LineSet
  <2> QED BY <1>4, <2>1 DEF Aged, LineSet
<1>6. /\ Measured(Aged(line)) \in LineSet
      /\ Measured(Aged(line)).cfg = line.cfg /\ Measured(Aged(line)).state = line.state
  <2> DEFINE a == Aged(line)
  <2> HIDE DEF a
  <2>1. a \in LineSet /\ a.cfg = line.cfg /\ a.state = line.state BY <1>5 DEF a
  <2>2. Capped(a.gone, OfflineTicks) \in 0..OfflineTicks /\ Capped(a.bad, BadTicks) \in 0..BadTicks
        /\ 0 \in 0..OfflineTicks /\ 0 \in 0..BadTicks
    BY <1>1, <1>2, <2>1 DEF LineSet
  <2>3. Measured(a) \in LineSet /\ Measured(a).cfg = line.cfg /\ Measured(a).state = line.state
    BY <2>1, <2>2 DEF Measured, LineSet
  <2> QED BY <2>3 DEF a
<1> QED BY <1>5, <1>6

LEMMA TickKeeps == ASSUME IInv, Tick PROVE IInv'
<1> USE DEF IInv
<1> DEFINE l == IF Idle THEN Measured(Aged(line)) ELSE Aged(line)
<1>1. l \in LineSet /\ l.cfg = line.cfg /\ l.state = line.state BY CountedFacts
<1>2. ~quit /\ On /\ UNCHANGED <<world, n>> /\ n' \in 0..MaxEvents BY DEF Tick, TypeOK
<1>3. \/ line' = l /\ UNCHANGED <<calls, blurred>>
      \/ Idle /\ SwitchTo(l, "backup")
      \/ Idle /\ SwitchTo(l, "main")
      \/ l.state = "error" /\ line' = [l EXCEPT !.state = "main", !.since = 0]
         /\ blurred' = TRUE /\ UNCHANGED calls
  BY DEF Tick
<1> HIDE DEF l
<1>4. CASE line' = l /\ UNCHANGED <<calls, blurred>>
  <2>1. TypeOK' BY <1>1, <1>2, <1>4, TypeKept DEF TypeOK
  <2> QED BY <1>1, <1>2, <1>4, <2>1, StayKeeps DEF world
<1>5. CASE Idle /\ (SwitchTo(l, "backup") \/ SwitchTo(l, "main"))
  BY <1>1, <1>2, <1>5, SwitchToKeeps
<1>6. CASE l.state = "error" /\ line' = [l EXCEPT !.state = "main", !.since = 0]
           /\ blurred' = TRUE /\ UNCHANGED calls
  <2>1. line' \in LineSet /\ line'.cfg = line.cfg /\ line'.state = "main"
    <3>1. 0 \in 0..(MaxHold + 1) BY LineAssumption
    <3> QED BY <1>1, <1>6, <3>1 DEF LineSet
  <2>2. TypeOK' BY <1>2, <1>6, <2>1, TypeKept DEF TypeOK
  <2>3. AloneInv' BY <1>2, <1>6, <2>1 DEF AloneInv, CallFits, On, world
  <2> QED BY <1>2, <1>6, <2>2, <2>3 DEF OthersBlur, NotedInv, OffInv, LineAgrees, LeftAsFound, world
<1> QED BY <1>3, <1>4, <1>5, <1>6

LEMMA TestKeeps == ASSUME IInv, TestSwitch PROVE IInv'
<1>1. line \in LineSet BY DEF IInv, TypeOK, LineSet
<1>2. n' \in 0..MaxEvents /\ ~quit BY EventCounts DEF IInv, TestSwitch
<1> QED BY <1>1, <1>2, SwitchToKeeps DEF TestSwitch

-----------------------------------------------------------------------------
(* The engine, the lines and the end *)

LEMMA EngineKeeps == ASSUME IInv, Drops \/ Joins \/ Measures PROVE IInv'
<1>1. conn' \in Adapters \cup {Automatic} /\ seen' \in BOOLEAN
      /\ UNCHANGED <<line, calls, net, quality, quit, blurred, n>>
  <2>1. CASE Drops BY <2>1 DEF Drops, IInv, TypeOK
  <2>2. CASE Joins
    <3>1. Carries(conn') /\ conn' = Route(net.pref) /\ UNCHANGED <<line, calls, net, quality, seen, quit, blurred, n>>
      BY <2>2 DEF Joins, Carries
    <3>2. Natural \in Adapters BY LineAssumption
    <3>3. Route(net.pref) \in Adapters \cup {Automatic} BY <3>2 DEF Route
    <3> QED BY <3>1, <3>3 DEF IInv, TypeOK
  <2>3. CASE Measures BY <2>3 DEF Measures, IInv, TypeOK
  <2> QED BY <2>1, <2>2, <2>3
<1>2. TypeOK' BY <1>1 DEF IInv, TypeOK
<1> QED BY <1>1, <1>2, StayKeeps

LEMMA LineTurnsKeeps ==
  ASSUME IInv, NEW x \in Adapters, NEW q \in {"good", "lossy", "dead", "out"}, LineTurns(x, q)
  PROVE  IInv'
<1>1. n' \in 0..MaxEvents BY EventCounts DEF IInv, LineTurns
<1>2. TypeOK' BY <1>1 DEF LineTurns, IInv, TypeOK
<1> QED BY <1>2, StayKeeps DEF LineTurns

\* What was noted is taken back; one that starts itself again is not heard of.
LEMMA QuitKeeps == ASSUME IInv, Quit \/ Relaunch PROVE IInv'
<1> USE DEF IInv
<1>1. n' \in 0..MaxEvents /\ ~quit /\ quit' /\ UNCHANGED <<line, calls, quality, conn, seen, blurred>>
  BY EventCounts DEF Quit, Relaunch
<1>2. net' \in {IF net.changed THEN [net EXCEPT !.pref = Automatic] ELSE net, [net EXCEPT !.exited = TRUE]}
      /\ quit' \in BOOLEAN
  BY DEF Quit, Relaunch
<1>3. net \in NetSet BY DEF TypeOK, NetSet
<1>4. net' \in NetSet BY <1>2, <1>3 DEF NetSet
<1>5. TypeOK' BY <1>1, <1>2, <1>4 DEF TypeOK, NetSet
<1>6. LeftAsFound'
  <2> SUFFICES ASSUME Quiet(calls), ~net'.exited, ~net'.loose, net'.touched PROVE net'.pref = Automatic
    BY <1>1 DEF LeftAsFound
  <2>1. net' = IF net.changed THEN [net EXCEPT !.pref = Automatic] ELSE net
    BY <1>2, <1>3 DEF NetSet
  <2>2. CASE net.changed BY <1>3, <2>1, <2>2 DEF NetSet
  <2>3. CASE ~net.changed BY <1>1, <2>1, <2>3 DEF NotedInv, Quiet
  <2> QED BY <2>2, <2>3
<1> QED BY <1>1, <1>5, <1>6 DEF AloneInv, OthersBlur, NotedInv, OffInv, LineAgrees

-----------------------------------------------------------------------------
(* The theorems *)

LEMMA InitInv == Init => IInv
<1> SUFFICES ASSUME Init PROVE IInv OBVIOUS
<1>1. {BadTicks, OfflineTicks, Short, Hold, MaxHold, MaxEvents} \subseteq Nat /\ Hold <= MaxHold
      /\ Natural \in Adapters
  BY LineAssumption
<1>2. 0 \in 0..BadTicks /\ 0 \in 0..OfflineTicks /\ 0 \in 0..(MaxHold + 1) /\ Hold \in Hold..MaxHold
      /\ Short \in 0..Short /\ 0 \in 0..MaxEvents
  BY <1>1
<1>3. line \in LineSet BY <1>2 DEF Init, LineSet
<1>4. calls \in [Slots -> Calls] /\ \A s \in Slots : calls[s] = NoCall BY DEF Init, Calls
<1>5. PICK x \in Adapters \cup {Automatic} :
        /\ net = [pref |-> x, changed |-> FALSE, touched |-> FALSE, loose |-> FALSE, exited |-> FALSE]
        /\ conn = IF x = Automatic THEN Natural ELSE x
  BY DEF Init
<1>6. TypeOK BY <1>1, <1>2, <1>3, <1>4, <1>5 DEF Init, TypeOK, LineSet
<1>7. ~net.touched /\ ~quit BY <1>5 DEF Init
<1> QED BY <1>4, <1>6, <1>7 DEF Init, IInv, AloneInv, OthersBlur, NotedInv, OffInv, LineAgrees, LeftAsFound

LEMMA StepInv == IInv /\ [Next]_vars => IInv'
<1> SUFFICES ASSUME IInv, [Next]_vars PROVE IInv' OBVIOUS
<1>1. CASE System
  <2>1. ASSUME NEW s \in Slots, Applies(s) \/ Returns(s) PROVE IInv'
    BY <2>1, AppliesKeeps, ReturnsKeeps
  <2> QED BY <1>1, <2>1, TickKeeps, EngineKeeps DEF System
<1>2. ASSUME NEW s \in Slots, ScriptFails(s) PROVE IInv' BY <1>2, FailKeeps
<1>3. CASE SwitchOff \/ TestSwitch \/ Quit \/ Relaunch BY <1>3, SwitchOffKeeps, TestKeeps, QuitKeeps
<1>4. ASSUME NEW c \in Settings, Configure(c) PROVE IInv' BY <1>4, ConfigureKeeps
<1>5. ASSUME NEW x \in Adapters, NEW q \in {"good", "lossy", "dead", "out"}, LineTurns(x, q) PROVE IInv'
  BY <1>5, LineTurnsKeeps
<1>6. CASE UNCHANGED vars
  <2>1. TypeOK' BY <1>6 DEF vars, IInv, TypeOK
  <2> QED BY <1>6, <2>1, StayKeeps DEF vars
<1> QED BY <1>1, <1>2, <1>3, <1>4, <1>5, <1>6 DEF Next

\* The watcher's and the main process's state stay well-formed.
THEOREM LineTypeCorrect == Spec => []TypeOK
<1>1. IInv => TypeOK BY DEF IInv
<1> QED BY InitInv, StepInv, <1>1, PTL DEF Spec

\* With no script under way, and since the last switch that ran by itself and worked no two
\* scripts overlapped, none failed and no error was taken for the main line, what the page
\* shows is what Windows prefers, whatever the lines and the settings did (failover.ts:50, 88).
THEOREM ShownLineIsPreferred == Spec => []LineAgrees
<1>1. IInv => LineAgrees BY DEF IInv
<1> QED BY InitInv, StepInv, <1>1, PTL DEF Spec

\* A gateway that ever set metrics, however its scripts overlapped, leaves automatic ones when
\* before-quit ends it with no script under way, unless the last answer about them was untrue
\* (netfail.ts:65, 78).
THEOREM NetworkIsLeftAsFound == Spec => []LeftAsFound
<1>1. IInv => LeftAsFound BY DEF IInv
<1> QED BY InitInv, StepInv, <1>1, PTL DEF Spec

-----------------------------------------------------------------------------
(* The gateway's graph: the invariant, a predicate of the record x that    *)
(* the methods of the runtime change.                                      *)
\* The port of number p: the one that a build keeps aside until its loop gets there, else
\* the one in the graph.
Current(x, p) == IF p > x.next /\ x.keep[p] # NoPort THEN x.keep[p] ELSE x.ports[p]

\* The build under way: ports are kept aside only while it awaits the worklet or a socket,
\* with the settings that it builds; those beyond the awaited one are not wired yet.
BuildInv(x) ==
  /\ x.at # "none" => x.cfg \in PageSettings
  /\ x.at \notin {"worklet", "rtp"} => x.keep = NoneWired /\ x.next = 0
  /\ x.at = "worklet" => x.next = 0
  /\ x.at = "rtp" => x.next \in Ports /\ x.rtp[x.next] = "opening"
  /\ x.at \in {"worklet", "rtp"} => \A p \in Ports : p > x.next => x.ports[p] = NoPort
  /\ \A p \in Ports : x.keep[p] # NoPort => x.keep[p].set = x.cfg.ports[p]

\* A key that is down, a stuck one apart, is that of a current port that is open.
KeysInv(x) ==
  \A c \in x.held \ x.stuck :
    \E p \in Ports : Current(x, p).open /\ Current(x, p).set.chan = c

\* A socket, a leaked one apart, is that of a current port of network audio.
SocketsInv(x) ==
  \A p \in Ports : x.rtp[p] # "closed" /\ p \notin x.leaked =>
    Current(x, p) # NoPort /\ Current(x, p).set.source = "rtp"

\* What is open is not stereo, and no key is down on a channel for music alone: the port
\* that holds a key is one that the voice tick still looks at.
VoiceInv(x) ==
  /\ \A p \in Ports : Current(x, p).open => ~Current(x, p).set.stereo
  /\ \A c \in x.held \ x.stuck : x.rights[c] # "music"

\* A helper runs only if asioInfo knows of it or is about to: teardown will close it.
DriverInv(x) == x.slot # None => x.asio # "none" \/ x.at = "open"

GraphInv(x) ==
  x \in Graphs /\ BuildInv(x) /\ KeysInv(x) /\ SocketsInv(x) /\ VoiceInv(x) /\ DriverInv(x)

\* Without a session nothing waits to be built, and a build under way was torn down.
NoSession(x) == x.status \in {"idle", "error"}
IdleInv(x) ==
  /\ NoSession(x) => x.pending = None
  /\ NoSession(x) /\ x.at # "none" => x.torn
  /\ NoSession(x) /\ x.at = "none" /\ ~x.torn =>
       ~x.timer /\ ~x.streams /\ ~x.sinks /\ x.slot = None /\ x.ports = NoneWired

-----------------------------------------------------------------------------
(* The gateway's graph: sets of ports, and records of them.                *)

\* The kinds of values: a port that is set is not "off", one that is wired is not NoPort.
LEMMA PortFacts ==
  /\ Ports \subseteq Nat /\ \A p \in Ports : p <= NPorts
  /\ NPorts \in Nat
  /\ Off \notin PortSettings /\ NoPort \notin WiredPorts /\ NoPort.open = FALSE
  /\ NoneWired \in AllPorts /\ \A p \in Ports : NoneWired[p] = NoPort
  /\ \A s \in PortSettings : /\ s.chan \in Chans /\ s.stereo \in BOOLEAN
                             /\ s.source \in {"device", "asio", "rtp"}
<1>1. \A s \in PortSettings : /\ s.chan \in Chans /\ s.stereo \in BOOLEAN
                              /\ s.source \in {"device", "asio", "rtp"}
  BY GatewayAssumption
<1>2. Off \notin PortSettings BY <1>1 DEF Off
<1>3. NoPort \notin WiredPorts
  <2>1. DOMAIN NoPort = {"open"} BY DEF NoPort
  <2>2. \A w \in WiredPorts : "set" \in DOMAIN w BY DEF WiredPorts
  <2> QED BY <2>1, <2>2
<1> QED BY <1>1, <1>2, <1>3, GatewayAssumption DEF Ports, NoPort, NoneWired, AllPorts

\* The smaller number comes first.
LEMMA BelowIsWellFounded == IsWellFoundedOn({ss \in Nat \X Nat : ss[1] < ss[2]}, Nat)
BY NatLessThanWellFounded DEF OpToRel

\* The least and the greatest of some ports are among them.
LEMMA MinIsIn == ASSUME NEW S \in SUBSET Ports, S # {} PROVE Min(S) \in S
<1> DEFINE R == {ss \in Nat \X Nat : ss[1] < ss[2]}
<1>1. S \subseteq Nat BY PortFacts
<1>2. \E x \in S : \A y \in S : ~(<<y, x>> \in R)
  <2> HIDE DEF R
  <2>1. IsWellFoundedOn(R, Nat) BY BelowIsWellFounded DEF R
  <2> QED BY <1>1, <2>1, WFMin
<1>3. PICK x \in S : \A y \in S : ~(<<y, x>> \in R) BY <1>2
<1>4. \A y \in S : x =< y
  <2> SUFFICES ASSUME NEW y \in S, ~(x =< y) PROVE FALSE OBVIOUS
  <2>1. <<y, x>> \in R BY <1>1
  <2> QED BY <1>3, <2>1
<1> QED BY <1>4 DEF Min

LEMMA MaxIsIn == ASSUME NEW S \in SUBSET Ports, S # {} PROVE Max(S) \in S
<1> DEFINE T == {NPorts - p : p \in S}
           R == {ss \in Nat \X Nat : ss[1] < ss[2]}
<1>1. S \subseteq Nat /\ \A p \in S : p <= NPorts /\ NPorts \in Nat BY PortFacts
<1>2. T \subseteq Nat /\ T # {}
  <2>1. \A p \in S : NPorts - p \in Nat BY <1>1
  <2> QED BY <2>1
<1>3. \E x \in T : \A y \in T : ~(<<y, x>> \in R)
  <2>1. IsWellFoundedOn(R, Nat) BY BelowIsWellFounded
  <2> HIDE DEF R, T
  <2> QED BY <1>2, <2>1, WFMin
<1>4. PICK x \in S : \A y \in S : ~(<<NPorts - y, NPorts - x>> \in R) BY <1>3
<1>5. \A y \in S : x >= y
  <2> SUFFICES ASSUME NEW y \in S, ~(x >= y) PROVE FALSE OBVIOUS
  <2>1. NPorts - y \in Nat /\ NPorts - x \in Nat /\ NPorts - y < NPorts - x BY <1>1
  <2>2. <<NPorts - y, NPorts - x>> \in R BY <2>1
  <2> QED BY <1>4, <2>2
<1> QED BY <1>5 DEF Max

\* A port of the graph is none, or has its settings.
LEMMA PortOf ==
  ASSUME NEW f \in AllPorts, NEW p \in Ports
  PROVE  /\ f[p] # NoPort => f[p] \in WiredPorts /\ f[p].set \in PortSettings /\ f[p].open \in BOOLEAN
         /\ f[p].open \in BOOLEAN /\ (f[p].open => f[p] # NoPort)
BY PortFacts DEF AllPorts, WiredPorts, NoPort

\* Whatever happens to the music, the engine has some state of it.
Rooms == {"none", "joining", "up", "stalled"}
LEMMA MixFacts ==
  /\ \A room \in Rooms : NoMix(room) \in Mixes
  /\ \A m \in Mixes : /\ Joined(m) \in Mixes /\ LeftRoom(m) \in Mixes
                      /\ \A room \in Rooms : [m EXCEPT !.room = room] \in Mixes
                      /\ \A C : StopMusic(m, C) \in Mixes
                      /\ \A C \in SUBSET Chans : StartMusic(m, C) \in Mixes
<1>1. \A m \in Mixes : /\ m.sending \in SUBSET Chans /\ m.published \in SUBSET Chans
                       /\ m.muted \in SUBSET Chans /\ m.room \in Rooms
  BY DEF Mixes, Rooms
<1>2. \A room \in Rooms : NoMix(room) \in Mixes BY DEF NoMix, Mixes, Rooms
<1>3. \A m \in Mixes : Joined(m) \in Mixes /\ LeftRoom(m) \in Mixes
  BY DEF Joined, LeftRoom, Mixes
<1>4. \A m \in Mixes : \A room \in Rooms : [m EXCEPT !.room = room] \in Mixes
  BY DEF Mixes, Rooms
<1>5. \A m \in Mixes : \A C : StopMusic(m, C) \in Mixes BY DEF StopMusic, Mixes
<1>6. \A m \in Mixes : \A C \in SUBSET Chans : StartMusic(m, C) \in Mixes
  BY DEF StartMusic, Mixes
<1> QED BY <1>2, <1>3, <1>4, <1>5, <1>6

LEMMA StopIsMix == ASSUME NEW m \in Mixes, NEW C PROVE StopMusic(m, C) \in Mixes
BY DEF StopMusic, Mixes
LEMMA StartIsMix == ASSUME NEW m \in Mixes, NEW C \in SUBSET Chans PROVE StartMusic(m, C) \in Mixes
BY DEF StartMusic, Mixes

-----------------------------------------------------------------------------
(* The gateway's graph: what is torn down.                                 *)

\* y is x with the ports of S torn down.
TornDown(x, S, y) ==
  /\ y \in Graphs
  /\ y.ports = [p \in Ports |-> IF p \in S THEN NoPort ELSE x.ports[p]]
  /\ \A c \in y.held \ y.stuck :
       /\ c \in x.held \ x.stuck
       /\ \A p \in S \cap Wired(x) : ~(x.ports[p].open /\ x.ports[p].set.chan = c)
  /\ \A p \in Ports : y.rtp[p] # "closed" /\ p \notin y.leaked =>
       /\ x.rtp[p] # "closed" /\ p \notin x.leaked
       /\ ~(p \in S \cap Wired(x) /\ x.ports[p].set.source = "rtp")
  /\ \A p \in Ports : x.rtp[p] = "opening" => y.rtp[p] = "opening"
  /\ y.status = x.status /\ y.rights = x.rights /\ y.at = x.at /\ y.cfg = x.cfg
  /\ y.keep = x.keep /\ y.next = x.next /\ y.pending = x.pending /\ y.torn = x.torn
  /\ y.slot = x.slot /\ y.asio = x.asio
  /\ y.timer = x.timer /\ y.streams = x.streams /\ y.sinks = x.sinks

\* teardownPort(), of each port of S.
LEMMA TeardownPortsFacts ==
  ASSUME NEW x \in Graphs, NEW S \in SUBSET Ports
  PROVE  TornDown(x, S, TeardownPorts(x, S))
<1> DEFINE y == TeardownPorts(x, S)
           live == S \cap Wired(x)
           keyed == Released(x, live)
           rtp == {p \in live : x.ports[p].set.source = "rtp"}
           music == {p \in live : IsStereo(x.ports[p].set, x)}
           ports == [p \in Ports |-> IF p \in S THEN NoPort ELSE x.ports[p]]
           sockets == [p \in Ports |-> IF p \in rtp /\ x.rtp[p] = "open" THEN "closed" ELSE x.rtp[p]]
           unsent == StopMusic(x.mix, {x.ports[p].set.chan : p \in music})
           lost == {p \in rtp : x.rtp[p] = "opening"}
<1>1. y = [x EXCEPT !.ports = ports, !.held = @ \ keyed, !.stuck = @ \ keyed,
                    !.mix = unsent, !.rtp = sockets, !.leaked = @ \cup lost]
  BY DEF TeardownPorts
<1>2. ports \in AllPorts BY PortFacts DEF Graphs, AllPorts
<1>3. sockets \in [Ports -> {"closed", "opening", "open"}] BY DEF Graphs
<1>4. lost \subseteq Ports /\ unsent \in Mixes
  <2>1. x.mix \in Mixes BY DEF Graphs
  <2> QED BY <2>1, StopIsMix
<1>5. \A c : c \in keyed <=> \E p \in live : x.ports[p].open /\ x.ports[p].set.chan = c
  BY DEF Released
<1>6. /\ y \in Graphs /\ y.ports = ports /\ y.held = x.held \ keyed /\ y.stuck = x.stuck \ keyed
      /\ y.rtp = sockets /\ y.leaked = x.leaked \cup lost
      /\ y.status = x.status /\ y.rights = x.rights /\ y.at = x.at /\ y.cfg = x.cfg
      /\ y.keep = x.keep /\ y.next = x.next /\ y.pending = x.pending /\ y.torn = x.torn
      /\ y.slot = x.slot /\ y.asio = x.asio
      /\ y.timer = x.timer /\ y.streams = x.streams /\ y.sinks = x.sinks
  <2> HIDE DEF y, ports, keyed, unsent, sockets, lost
  <2> QED BY <1>1, <1>2, <1>3, <1>4, ZenonT(60) DEF Graphs
<1>7. \A p \in Ports : y.rtp[p] # "closed" /\ p \notin y.leaked =>
        /\ x.rtp[p] # "closed" /\ p \notin x.leaked
        /\ ~(p \in live /\ x.ports[p].set.source = "rtp")
  <2>1. \A p \in Ports : x.rtp[p] \in {"closed", "opening", "open"} BY DEF Graphs
  <2>2. \A p \in Ports : sockets[p] = IF p \in rtp /\ x.rtp[p] = "open" THEN "closed" ELSE x.rtp[p]
    OBVIOUS
  <2> HIDE DEF y, sockets, live
  <2> QED BY <1>6, <2>1, <2>2
<1>8. \A p \in Ports : x.rtp[p] = "opening" => y.rtp[p] = "opening" BY <1>6
<1> HIDE DEF y, live, keyed, rtp, ports, sockets, lost
<1>9. \A c \in y.held \ y.stuck :
        c \in x.held \ x.stuck /\ \A p \in live : ~(x.ports[p].open /\ x.ports[p].set.chan = c)
  BY <1>5, <1>6
<1> QED BY <1>6, <1>7, <1>8, <1>9 DEF y, live, ports, TornDown

\* teardownDevices() forgets the interface; its helper goes if it was known.
LEMMA TeardownDevicesFacts ==
  ASSUME NEW x \in Graphs
  PROVE  LET y == TeardownDevices(x)
         IN /\ y \in Graphs
            /\ y.slot = IF x.asio # "none" THEN None ELSE x.slot
            /\ ~y.streams /\ ~y.sinks /\ y.asio = "none"
            /\ y.ports = x.ports /\ y.held = x.held /\ y.stuck = x.stuck /\ y.rtp = x.rtp
            /\ y.leaked = x.leaked /\ y.timer = x.timer
            /\ y.status = x.status /\ y.rights = x.rights /\ y.at = x.at /\ y.cfg = x.cfg
            /\ y.keep = x.keep /\ y.next = x.next /\ y.pending = x.pending /\ y.torn = x.torn
<1> DEFINE y == TeardownDevices(x)
           freed == IF x.asio # "none" THEN None ELSE x.slot
           ending == IF x.asio # "none" /\ x.slot # None THEN x.dying \cup {x.slot} ELSE x.dying
<1>1. freed \in Interfaces \cup {None} /\ ending \in SUBSET Interfaces BY DEF Graphs
<1>2. y = [x EXCEPT !.streams = FALSE, !.sinks = FALSE, !.asio = "none", !.dev = None,
                    !.slot = freed, !.dying = ending]
  BY DEF TeardownDevices
<1> HIDE DEF y, freed, ending
<1>3. y \in Graphs BY <1>1, <1>2, ZenonT(60) DEF Graphs
<1>4. /\ y.slot = freed /\ ~y.streams /\ ~y.sinks /\ y.asio = "none"
      /\ y.ports = x.ports /\ y.held = x.held /\ y.stuck = x.stuck /\ y.rtp = x.rtp
      /\ y.leaked = x.leaked /\ y.timer = x.timer
      /\ y.status = x.status /\ y.rights = x.rights /\ y.at = x.at /\ y.cfg = x.cfg
      /\ y.keep = x.keep /\ y.next = x.next /\ y.pending = x.pending /\ y.torn = x.torn
  BY <1>2 DEF Graphs
<1> QED BY <1>3, <1>4 DEF y, freed

\* What the invariant does not look at may change.
LEMMA SameGraph ==
  ASSUME NEW x, GraphInv(x), NEW y \in Graphs,
         y.ports = x.ports, y.keep = x.keep, y.next = x.next, y.rtp = x.rtp, y.leaked = x.leaked,
         y.rights = x.rights, y.held \ y.stuck \subseteq x.held \ x.stuck, DriverInv(y),
         \/ y.at = x.at /\ y.cfg = x.cfg
         \/ /\ x.at \notin {"worklet", "rtp"} /\ y.at \notin {"worklet", "rtp"}
            /\ y.at # "none" => y.cfg \in PageSettings
  PROVE  GraphInv(y)
<1>1. \A p \in Ports : Current(y, p) = Current(x, p) BY DEF Current
<1>2. BuildInv(y)
  <2>1. CASE y.at = x.at /\ y.cfg = x.cfg BY <2>1 DEF GraphInv, BuildInv
  <2>2. CASE /\ x.at \notin {"worklet", "rtp"} /\ y.at \notin {"worklet", "rtp"}
             /\ y.at # "none" => y.cfg \in PageSettings
    BY <2>2, PortFacts DEF GraphInv, BuildInv
  <2> QED BY <2>1, <2>2
<1>3. KeysInv(y) BY <1>1 DEF GraphInv, KeysInv
<1>4. SocketsInv(y) BY <1>1 DEF GraphInv, SocketsInv
<1>5. VoiceInv(y) BY <1>1 DEF GraphInv, VoiceInv
<1> QED BY <1>2, <1>3, <1>4, <1>5 DEF GraphInv

\* A key whose port is torn down is let go with it, or held by a port of its channel.
LEMMA TeardownPortsKeeps ==
  ASSUME NEW x, GraphInv(x), NEW S \in SUBSET Ports
  PROVE  GraphInv(TeardownPorts(x, S))
<1> DEFINE y == TeardownPorts(x, S)
           live == S \cap Wired(x)
<1> USE DEF GraphInv
<1>1. /\ y \in Graphs
      /\ y.ports = [p \in Ports |-> IF p \in S THEN NoPort ELSE x.ports[p]]
      /\ \A c \in y.held \ y.stuck :
           c \in x.held \ x.stuck /\ \A p \in live : ~(x.ports[p].open /\ x.ports[p].set.chan = c)
      /\ \A p \in Ports : y.rtp[p] # "closed" /\ p \notin y.leaked =>
           /\ x.rtp[p] # "closed" /\ p \notin x.leaked
           /\ ~(p \in live /\ x.ports[p].set.source = "rtp")
      /\ \A p \in Ports : x.rtp[p] = "opening" => y.rtp[p] = "opening"
      /\ y.rights = x.rights /\ y.at = x.at /\ y.cfg = x.cfg
      /\ y.keep = x.keep /\ y.next = x.next /\ y.slot = x.slot /\ y.asio = x.asio
  BY TeardownPortsFacts DEF TornDown
<1> HIDE DEF y
<1>2. x.ports \in AllPorts /\ x.keep \in AllPorts BY DEF Graphs
\* A port that is torn down is the current one of its number, unless it is put back later.
<1>3. \A p \in Ports : \/ Current(y, p) = Current(x, p)
                       \/ Current(y, p) = NoPort /\ p \in live /\ Current(x, p) = x.ports[p]
  <2> SUFFICES ASSUME NEW p \in Ports
               PROVE  \/ Current(y, p) = Current(x, p)
                      \/ Current(y, p) = NoPort /\ p \in live /\ Current(x, p) = x.ports[p]
    OBVIOUS
  <2>1. CASE p > x.next /\ x.keep[p] # NoPort BY <1>1, <2>1 DEF Current
  <2>2. CASE ~(p > x.next /\ x.keep[p] # NoPort) BY <1>1, <2>2 DEF Current, Wired
  <2> QED BY <2>1, <2>2
<1>4. BuildInv(y)
  <2>1. \A p \in Ports : x.ports[p] = NoPort => y.ports[p] = NoPort BY <1>1
  <2>2. y.at = "rtp" => y.next \in Ports /\ y.rtp[y.next] = "opening" BY <1>1 DEF BuildInv
  <2> QED BY <1>1, <2>1, <2>2 DEF BuildInv
<1>5. KeysInv(y)
  <2> SUFFICES ASSUME NEW c \in y.held \ y.stuck
               PROVE  \E p \in Ports : Current(y, p).open /\ Current(y, p).set.chan = c
    BY DEF KeysInv
  <2>1. PICK p \in Ports : Current(x, p).open /\ Current(x, p).set.chan = c BY <1>1 DEF KeysInv
  <2> QED BY <1>1, <1>3, <2>1
<1>6. SocketsInv(y) BY <1>1, <1>3 DEF SocketsInv
<1>7. VoiceInv(y) BY <1>1, <1>3, PortFacts DEF VoiceInv
<1>8. DriverInv(y) BY <1>1 DEF DriverInv
<1> QED BY <1>1, <1>4, <1>5, <1>6, <1>7, <1>8 DEF y

\* Devices are closed beside the ports.
LEMMA TeardownDevicesKeeps ==
  ASSUME NEW x, GraphInv(x)
  PROVE  GraphInv(TeardownDevices(x))
<1> DEFINE y == TeardownDevices(x)
<1>1. x \in Graphs BY DEF GraphInv
<1>2. /\ y \in Graphs /\ y.slot = IF x.asio # "none" THEN None ELSE x.slot
      /\ y.ports = x.ports /\ y.held = x.held /\ y.stuck = x.stuck /\ y.rtp = x.rtp
      /\ y.leaked = x.leaked /\ y.rights = x.rights /\ y.at = x.at /\ y.cfg = x.cfg
      /\ y.keep = x.keep /\ y.next = x.next
  BY <1>1, TeardownDevicesFacts
<1> HIDE DEF y
<1>3. DriverInv(y) BY <1>2 DEF GraphInv, DriverInv
<1>4. GraphInv(y) BY <1>2, <1>3, SameGraph
<1> QED BY <1>4 DEF y

\* teardown(): nothing is left, or a build under way was torn down.
LEMMA TeardownKeeps ==
  ASSUME NEW x, GraphInv(x)
  PROVE  GraphInv(Teardown(x)) /\ IdleInv(Teardown(x))
<1> DEFINE z == TeardownPorts(x, Ports)
           y == TeardownDevices(z)
<1>1. GraphInv(z) /\ GraphInv(y) BY TeardownPortsKeeps, TeardownDevicesKeeps
<1>2. x \in Graphs /\ z \in Graphs /\ y \in Graphs BY <1>1 DEF GraphInv
<1>3. z.at = x.at /\ z.slot = x.slot /\ z.asio = x.asio
      /\ z.ports = [p \in Ports |-> IF p \in Ports THEN NoPort ELSE x.ports[p]]
  BY <1>2, TeardownPortsFacts DEF TornDown
<1>4. y.at = z.at /\ y.slot = (IF z.asio # "none" THEN None ELSE z.slot) /\ y.ports = z.ports
      /\ ~y.streams /\ ~y.sinks
  BY <1>2, TeardownDevicesFacts
<1> DEFINE t == Teardown(x)
           half == x.at # "none"
<1>5. t = [y EXCEPT !.timer = FALSE, !.pending = None, !.built = None, !.torn = half]
      /\ half \in BOOLEAN
  BY DEF Teardown
<1> HIDE DEF y, z, t, half
<1>6. t \in Graphs
  <2>1. y \in Graphs BY <1>2
  <2> QED BY <1>5, <2>1, ZenonT(60) DEF Graphs
<1>7. /\ t.ports = y.ports /\ t.keep = y.keep /\ t.next = y.next /\ t.rtp = y.rtp /\ t.leaked = y.leaked
      /\ t.rights = y.rights /\ t.held = y.held /\ t.stuck = y.stuck /\ t.at = y.at /\ t.cfg = y.cfg
      /\ t.slot = y.slot /\ t.asio = y.asio /\ t.streams = y.streams /\ t.sinks = y.sinks
      /\ ~t.timer /\ t.pending = None /\ t.torn = (x.at # "none")
  BY <1>2, <1>5 DEF Graphs, half
<1>8. GraphInv(t)
  <2>1. DriverInv(t) BY <1>1, <1>7 DEF GraphInv, DriverInv
  <2> QED BY <1>1, <1>6, <1>7, <2>1, SameGraph
<1>9. IdleInv(t)
  <2>1. t.at = x.at BY <1>3, <1>4, <1>7
  <2>2. t.ports = NoneWired BY <1>3, <1>4, <1>7 DEF NoneWired
  <2>3. t.at = "none" => t.slot = None
    <3>1. x.at = "none" => x.slot = None \/ x.asio # "none" BY DEF GraphInv, DriverInv
    <3> QED BY <1>3, <1>4, <1>7, <2>1, <3>1
  <2> QED BY <1>4, <1>7, <2>1, <2>2, <2>3 DEF IdleInv
<1> QED BY <1>8, <1>9 DEF t

-----------------------------------------------------------------------------
(* The gateway's graph: what is wired.                                     *)

\* A new port has its settings and no key.
LEMMA NewPortFacts ==
  ASSUME NEW x, NEW s \in PortSettings
  PROVE  /\ NewPort(x, s) \in WiredPorts /\ NewPort(x, s) # NoPort
         /\ NewPort(x, s).set = s /\ ~NewPort(x, s).open
<1>1. s.stereo \in BOOLEAN BY PortFacts
<1>2. IsStereo(s, x) \in BOOLEAN /\ (IsStereo(s, x) /\ s.source = "asio" /\ x.asio = "open") \in BOOLEAN
  BY <1>1 DEF IsStereo
<1>3. NewPort(x, s) \in WiredPorts /\ NewPort(x, s).set = s /\ ~NewPort(x, s).open
  BY <1>2 DEF NewPort, WiredPorts
<1> QED BY <1>3, PortFacts

\* The end of build() keeps nothing aside.
LEMMA DoneFacts ==
  ASSUME NEW x \in Graphs
  PROVE  LET y == Done(x)
         IN /\ y \in Graphs
            /\ y.at = "none" /\ y.keep = NoneWired /\ y.next = 0
            /\ y.ports = x.ports /\ y.held = x.held /\ y.stuck = x.stuck /\ y.rtp = x.rtp
            /\ y.leaked = x.leaked /\ y.rights = x.rights /\ y.slot = x.slot /\ y.asio = x.asio
            /\ y.status = x.status /\ y.pending = x.pending /\ y.torn = x.torn
<1> DEFINE y == Done(x)
           new == Started(x, {p \in Wired(x) : x.keep[p] = NoPort})
           sent == StartMusic(x.mix, new)
<1>1. sent \in Mixes
  <2>1. new \in SUBSET Chans BY DEF Started
  <2>2. x.mix \in Mixes BY DEF Graphs
  <2> HIDE DEF new
  <2> QED BY <2>1, <2>2, StartIsMix
<1>2. y = [x EXCEPT !.at = "none", !.timer = TRUE, !.cfg = None, !.keep = NoneWired, !.next = 0,
                    !.mix = sent]
  BY DEF Done
<1>3. NoneWired \in AllPorts /\ 0 \in 0..NPorts BY PortFacts
<1> HIDE DEF y, sent
<1>4. y \in Graphs BY <1>1, <1>2, <1>3, ZenonT(60) DEF Graphs
<1>5. /\ y.at = "none" /\ y.keep = NoneWired /\ y.next = 0
      /\ y.ports = x.ports /\ y.held = x.held /\ y.stuck = x.stuck /\ y.rtp = x.rtp
      /\ y.leaked = x.leaked /\ y.rights = x.rights /\ y.slot = x.slot /\ y.asio = x.asio
      /\ y.status = x.status /\ y.pending = x.pending /\ y.torn = x.torn
  BY <1>2 DEF Graphs
<1> QED BY <1>4, <1>5 DEF y

\* A build at its loop: the ports up to x.next are wired, no other yet.
Ready(x) ==
  /\ x \in Graphs /\ x.cfg \in PageSettings /\ (x.slot # None => x.asio # "none")
  /\ NoSession(x) => x.torn /\ x.pending = None
  /\ \A p \in Ports : p > x.next => x.ports[p] = NoPort
  /\ \A p \in Ports : x.keep[p] # NoPort => x.keep[p].set = x.cfg.ports[p]
  /\ KeysInv(x) /\ SocketsInv(x) /\ VoiceInv(x)

\* What holds of the graph as it was holds of one with new ports beside it.
LEMMA MorePorts ==
  ASSUME NEW x, Ready(x), NEW z \in Graphs, BuildInv(z),
         z.held = x.held, z.stuck = x.stuck, z.rights = x.rights, z.slot = x.slot, z.asio = x.asio,
         z.status = x.status, z.pending = x.pending, z.torn = x.torn,
         \A p \in Ports : \/ Current(z, p) = Current(x, p)
                          \/ Current(x, p) = NoPort /\ ~Current(z, p).open,
         \A p \in Ports : z.rtp[p] # "closed" /\ p \notin z.leaked =>
           \/ x.rtp[p] # "closed" /\ p \notin x.leaked
           \/ Current(z, p) # NoPort /\ Current(z, p).set.source = "rtp"
  PROVE  GraphInv(z) /\ IdleInv(z)
<1>1. KeysInv(z)
  <2>1. \A p \in Ports : Current(x, p).open => Current(z, p) = Current(x, p) BY PortFacts
  <2> QED BY <2>1 DEF Ready, KeysInv
<1>2. SocketsInv(z) BY DEF Ready, SocketsInv
<1>3. VoiceInv(z) BY DEF Ready, VoiceInv
<1>4. DriverInv(z) BY DEF Ready, DriverInv
<1>5. IdleInv(z) BY DEF Ready, IdleInv, NoSession
<1> QED BY <1>1, <1>2, <1>3, <1>4, <1>5 DEF GraphInv

\* The loop puts each kept port where it was and wires new ones between them.
LEMMA WireKeeps ==
  ASSUME NEW x, Ready(x), NEW k, k = x.next + 1
  PROVE  GraphInv(Wire(x, k)) /\ IdleInv(Wire(x, k))
<1> DEFINE awaited == {p \in k..NPorts : /\ p \in Active(x.cfg) /\ x.keep[p] = NoPort
                                         /\ x.cfg.ports[p].source = "rtp"}
           last == IF awaited = {} THEN NPorts ELSE Min(awaited)
           wired == [p \in Ports |->
                       IF p \notin k..last THEN x.ports[p]
                       ELSE IF p \notin Active(x.cfg) THEN NoPort
                       ELSE IF x.keep[p] # NoPort THEN x.keep[p]
                       ELSE NewPort(x, x.cfg.ports[p])]
           y == [x EXCEPT !.ports = wired]
           z == Wire(x, k)
<1>1. /\ x \in Graphs /\ x.ports \in AllPorts /\ x.keep \in AllPorts /\ x.next \in 0..NPorts
      /\ x.cfg \in PageSettings /\ x.cfg.ports \in [Ports -> PortSettings \cup {Off}]
  BY DEF Ready, Graphs, PageSettings
<1>2. z = IF awaited = {} THEN Done(y)
          ELSE [y EXCEPT !.at = "rtp", !.next = last, !.rtp[last] = "opening", !.leaked = @ \ {last}]
  BY DEF Wire
<1>3. k \in Nat /\ k = x.next + 1 /\ x.next \in Nat /\ NPorts \in Nat /\ k <= NPorts + 1
      /\ Ports = 1..NPorts
  BY <1>1, PortFacts DEF Ports
<1>4. awaited # {} => last \in awaited
  <2>1. awaited \in SUBSET Ports BY <1>3
  <2> HIDE DEF awaited
  <2> QED BY <2>1, MinIsIn
<1>5. last \in Nat /\ last <= NPorts
  <2>1. CASE awaited = {} BY <1>3, <2>1
  <2>2. CASE awaited # {}
    <3>1. last \in Ports
      <4>1. awaited \subseteq Ports BY <1>3
      <4> HIDE DEF awaited, last
      <4> QED BY <1>4, <2>2, <4>1
    <3> HIDE DEF last
    <3> QED BY <3>1, PortFacts
  <2> QED BY <2>1, <2>2
<1>6. \A p \in Ports : p \in Active(x.cfg) => x.cfg.ports[p] \in PortSettings
  BY <1>1 DEF Active
<1>7. \A p \in Ports : p \in Active(x.cfg) =>
        /\ NewPort(x, x.cfg.ports[p]) \in WiredPorts /\ NewPort(x, x.cfg.ports[p]) # NoPort
        /\ NewPort(x, x.cfg.ports[p]).set = x.cfg.ports[p] /\ ~NewPort(x, x.cfg.ports[p]).open
  BY <1>6, NewPortFacts
<1>8. \A p \in Ports : x.keep[p] # NoPort => p \in Active(x.cfg)
  <2> SUFFICES ASSUME NEW p \in Ports, x.keep[p] # NoPort PROVE p \in Active(x.cfg) OBVIOUS
  <2>1. x.keep[p].set \in PortSettings BY <1>1, PortOf
  <2>2. x.keep[p].set = x.cfg.ports[p] BY DEF Ready
  <2> QED BY <2>1, <2>2, PortFacts DEF Active
<1>9. /\ \A p \in Ports : p < k \/ p > last => wired[p] = x.ports[p]
      /\ \A p \in Ports : k <= p /\ p <= last /\ x.keep[p] # NoPort => wired[p] = x.keep[p]
      /\ \A p \in Ports : k <= p /\ p <= last /\ x.keep[p] = NoPort =>
           \/ wired[p] = NoPort /\ p \notin Active(x.cfg)
           \/ wired[p] = NewPort(x, x.cfg.ports[p]) /\ p \in Active(x.cfg)
  <2> SUFFICES ASSUME NEW p \in Ports
               PROVE  /\ p < k \/ p > last => wired[p] = x.ports[p]
                      /\ k <= p /\ p <= last /\ x.keep[p] # NoPort => wired[p] = x.keep[p]
                      /\ k <= p /\ p <= last /\ x.keep[p] = NoPort =>
                           \/ wired[p] = NoPort /\ p \notin Active(x.cfg)
                           \/ wired[p] = NewPort(x, x.cfg.ports[p]) /\ p \in Active(x.cfg)
    OBVIOUS
  <2>1. p \in k..last <=> k <= p /\ p <= last
    <3> HIDE DEF last, awaited
    <3> QED BY <1>3, <1>5, PortFacts
  <2>2. wired[p] = IF p \notin k..last THEN x.ports[p]
                   ELSE IF p \notin Active(x.cfg) THEN NoPort
                   ELSE IF x.keep[p] # NoPort THEN x.keep[p]
                   ELSE NewPort(x, x.cfg.ports[p])
    OBVIOUS
  <2> HIDE DEF last, awaited, wired
  <2>3. p < k \/ p > last => ~(k <= p /\ p <= last) BY <1>3, <1>5, PortFacts
  <2> QED BY <1>8, <2>1, <2>2, <2>3
<1>10. wired \in AllPorts
  <2>1. \A p \in Ports : wired[p] \in WiredPorts \cup {NoPort}
    <3>1. \A p \in Ports : \/ wired[p] = x.ports[p] \/ wired[p] = x.keep[p] \/ wired[p] = NoPort
                           \/ wired[p] = NewPort(x, x.cfg.ports[p]) /\ p \in Active(x.cfg)
      OBVIOUS
    <3> HIDE DEF wired
    <3> QED BY <1>1, <1>7, <3>1 DEF AllPorts
  <2>2. wired = [p \in Ports |-> wired[p]] OBVIOUS
  <2> HIDE DEF wired
  <2> QED BY <2>1, <2>2 DEF AllPorts
<1> HIDE DEF wired, awaited, last, z
<1>11. y \in Graphs BY <1>1, <1>10 DEF Graphs
<1>12. /\ y.ports = wired /\ y.held = x.held /\ y.stuck = x.stuck /\ y.rtp = x.rtp
       /\ y.leaked = x.leaked /\ y.rights = x.rights /\ y.slot = x.slot /\ y.asio = x.asio
       /\ y.status = x.status /\ y.pending = x.pending /\ y.torn = x.torn
       /\ y.keep = x.keep /\ y.cfg = x.cfg /\ y.next = x.next
  BY <1>1 DEF Graphs
<1> HIDE DEF y
<1>13. CASE awaited = {}
  <2>1. z = Done(y) /\ last = NPorts BY <1>2, <1>13 DEF last
  <2>2. /\ z \in Graphs /\ z.at = "none" /\ z.keep = NoneWired /\ z.next = 0
        /\ z.ports = wired /\ z.held = x.held /\ z.stuck = x.stuck /\ z.rtp = x.rtp
        /\ z.leaked = x.leaked /\ z.rights = x.rights /\ z.slot = x.slot /\ z.asio = x.asio
        /\ z.status = x.status /\ z.pending = x.pending /\ z.torn = x.torn
    BY <1>11, <1>12, <2>1, DoneFacts
  <2>3. \A p \in Ports : Current(z, p) = wired[p] BY <2>2, PortFacts DEF Current
  <2>4. \A p \in Ports : \/ Current(z, p) = Current(x, p)
                         \/ Current(x, p) = NoPort /\ ~Current(z, p).open
    <3> SUFFICES ASSUME NEW p \in Ports
                 PROVE  wired[p] = Current(x, p) \/ (Current(x, p) = NoPort /\ ~wired[p].open)
      BY <2>3
    <3>1. CASE p < k BY <1>3, <1>9, <3>1 DEF Current
    <3>2. CASE p >= k
      <4>1. p > x.next /\ k <= p /\ p <= last BY <1>3, <2>1, <3>2
      <4>2. CASE x.keep[p] # NoPort BY <1>9, <4>1, <4>2 DEF Current
      <4>3. CASE x.keep[p] = NoPort
        <5>1. Current(x, p) = NoPort BY <4>1, <4>3 DEF Current, Ready
        <5>2. ~wired[p].open BY <1>7, <1>9, <4>1, <4>3, PortFacts
        <5> QED BY <5>1, <5>2
      <4> QED BY <4>2, <4>3
    <3> QED BY <1>3, <3>1, <3>2
  <2>5. BuildInv(z) BY <2>2, PortFacts DEF BuildInv
  <2>6. GraphInv(z) /\ IdleInv(z) BY <2>2, <2>4, <2>5, MorePorts
  <2> QED BY <2>6 DEF z
<1>14. CASE awaited # {}
  <2>1. /\ last \in Ports /\ k <= last /\ last \in Active(x.cfg) /\ x.keep[last] = NoPort
        /\ x.cfg.ports[last].source = "rtp"
    BY <1>3, <1>4, <1>14 DEF awaited
  <2> DEFINE sockets == [y.rtp EXCEPT ![last] = "opening"]
             unleaked == y.leaked \ {last}
  <2>2. z = [y EXCEPT !.at = "rtp", !.next = last, !.rtp = sockets, !.leaked = unleaked]
    BY <1>2, <1>14
  <2>3. sockets \in [Ports -> {"closed", "opening", "open"}] /\ unleaked \in SUBSET Ports
        /\ last \in 0..NPorts
    <3>1. y.rtp \in [Ports -> {"closed", "opening", "open"}] /\ y.leaked \in SUBSET Ports
      BY <1>11 DEF Graphs
    <3>2. last \in 0..NPorts BY <1>3, <1>5
    <3> QED BY <3>1, <3>2
  <2>4. sockets[last] = "opening" /\ \A p \in Ports \ {last} : sockets[p] = x.rtp[p]
    BY <1>11, <1>12, <2>1 DEF Graphs
  <2>5. unleaked = x.leaked \ {last} BY <1>12
  <2> HIDE DEF sockets, unleaked
  <2>6. z \in Graphs BY <1>11, <2>2, <2>3, ZenonT(60) DEF Graphs
  <2>7. /\ z.at = "rtp" /\ z.keep = x.keep /\ z.next = last /\ z.cfg = x.cfg
        /\ z.ports = wired /\ z.held = x.held /\ z.stuck = x.stuck /\ z.rtp = sockets
        /\ z.leaked = unleaked /\ z.rights = x.rights /\ z.slot = x.slot /\ z.asio = x.asio
        /\ z.status = x.status /\ z.pending = x.pending /\ z.torn = x.torn
    BY <1>11, <1>12, <2>2 DEF Graphs
  <2>8. \A p \in Ports : \/ Current(z, p) = Current(x, p)
                         \/ Current(x, p) = NoPort /\ ~Current(z, p).open
    <3> SUFFICES ASSUME NEW p \in Ports
                 PROVE  \/ Current(z, p) = Current(x, p)
                        \/ Current(x, p) = NoPort /\ ~Current(z, p).open
      OBVIOUS
    <3>1. CASE p < k
      <4>1. ~(p > x.next) /\ ~(p > last) BY <1>3, <2>1, <3>1
      <4> QED BY <1>9, <2>7, <3>1, <4>1 DEF Current
    <3>2. CASE p >= k /\ p <= last
      <4>1. p > x.next /\ k <= p /\ ~(p > last) BY <1>3, <2>1, <3>2
      <4>2. Current(z, p) = wired[p] BY <2>7, <4>1 DEF Current
      <4>3. CASE x.keep[p] # NoPort BY <1>9, <3>2, <4>1, <4>2, <4>3 DEF Current
      <4>4. CASE x.keep[p] = NoPort
        <5>1. Current(x, p) = NoPort BY <4>1, <4>4 DEF Current, Ready
        <5>2. ~wired[p].open BY <1>7, <1>9, <3>2, <4>1, <4>4, PortFacts
        <5> QED BY <4>2, <5>1, <5>2
      <4> QED BY <4>3, <4>4
    <3>3. CASE p > last
      <4>1. p > x.next BY <1>3, <2>1, <3>3
      <4>2. wired[p] = x.ports[p] BY <1>9, <3>3
      <4> QED BY <2>7, <3>3, <4>1, <4>2 DEF Current
    <3> QED BY <1>3, <1>5, <3>1, <3>2, <3>3
  <2>9. Current(z, last) = NewPort(x, x.cfg.ports[last])
    <3>1. ~(last > last) /\ k <= last /\ last <= last BY <1>3, <2>1
    <3>2. Current(z, last) = wired[last] BY <2>7, <3>1 DEF Current
    <3> QED BY <1>9, <2>1, <3>1, <3>2
  <2>10. \A p \in Ports : z.rtp[p] # "closed" /\ p \notin z.leaked =>
           \/ x.rtp[p] # "closed" /\ p \notin x.leaked
           \/ Current(z, p) # NoPort /\ Current(z, p).set.source = "rtp"
    BY <1>7, <2>1, <2>4, <2>5, <2>7, <2>9
  <2>11. BuildInv(z)
    <3>1. \A p \in Ports : p > last => z.ports[p] = NoPort
      <4>1. \A p \in Ports : p > last => p > x.next BY <1>3, <2>1
      <4> QED BY <1>9, <2>7, <4>1 DEF Ready
    <3> QED BY <1>1, <2>1, <2>4, <2>7, <3>1 DEF BuildInv, Ready
  <2>12. GraphInv(z) /\ IdleInv(z) BY <2>6, <2>7, <2>8, <2>10, <2>11, MorePorts
  <2> QED BY <2>12 DEF z
<1> QED BY <1>13, <1>14


\* buildPorts(): what is kept is set aside with its key and its socket; the rest is torn down.
LEMMA BuildPortsKeeps ==
  ASSUME NEW x, GraphInv(x), x.at \in {"none", "media", "out"}, x.cfg \in PageSettings,
         x.slot # None => x.asio # "none", NoSession(x) => x.torn /\ x.pending = None
  PROVE  GraphInv(BuildPorts(x)) /\ IdleInv(BuildPorts(x))
<1> DEFINE kept == Kept(x)
           w == TeardownPorts(x, Ports \ kept)
           live == (Ports \ kept) \cap Wired(x)
           keep == [p \in Ports |-> IF p \in kept THEN x.ports[p] ELSE NoPort]
           tx == TxOf(x.cfg)
           y == [w EXCEPT !.tx = tx, !.ports = NoneWired, !.keep = keep]
<1>1. /\ x \in Graphs /\ x.ports \in AllPorts /\ x.keep = NoneWired /\ x.next = 0
      /\ x.cfg.ports \in [Ports -> PortSettings \cup {Off}]
  BY DEF GraphInv, BuildInv, Graphs, PageSettings
<1>2. /\ w \in Graphs
      /\ \A c \in w.held \ w.stuck :
           c \in x.held \ x.stuck /\ \A p \in live : ~(x.ports[p].open /\ x.ports[p].set.chan = c)
      /\ \A p \in Ports : w.rtp[p] # "closed" /\ p \notin w.leaked =>
           /\ x.rtp[p] # "closed" /\ p \notin x.leaked
           /\ ~(p \in live /\ x.ports[p].set.source = "rtp")
      /\ w.status = x.status /\ w.rights = x.rights /\ w.at = x.at /\ w.cfg = x.cfg
      /\ w.next = x.next /\ w.pending = x.pending /\ w.torn = x.torn
      /\ w.slot = x.slot /\ w.asio = x.asio
  <2>1. Ports \ kept \in SUBSET Ports OBVIOUS
  <2>2. TornDown(x, Ports \ kept, w) BY <1>1, <2>1, TeardownPortsFacts
  <2> HIDE DEF w, kept
  <2> QED BY <2>2 DEF TornDown
<1>3. keep \in AllPorts /\ \A p \in Ports : keep[p] = IF p \in kept THEN x.ports[p] ELSE NoPort
  BY <1>1 DEF AllPorts
<1>4. \A p \in kept : p \in Ports /\ p \in Wired(x) /\ x.cfg.ports[p] = x.ports[p].set
  BY DEF Kept, Wired
<1>5. \A p \in Ports : p \in Wired(x) /\ p \notin kept => p \in live OBVIOUS
<1>6. tx \in SUBSET Chans /\ NoneWired \in AllPorts
  <2>1. \A p \in Active(x.cfg) : x.cfg.ports[p] \in PortSettings BY <1>1 DEF Active
  <2> QED BY <2>1, PortFacts DEF TxOf
<1>7. BuildPorts(x) = IF \E p \in Active(x.cfg) : x.cfg.ports[p].source = "rtp"
                      THEN [y EXCEPT !.at = "worklet"] ELSE Wire(y, 1)
  BY DEF BuildPorts
<1> HIDE DEF w, keep, kept, live, tx
<1>8. y \in Graphs BY <1>2, <1>3, <1>6 DEF Graphs
<1>9. /\ y.ports = NoneWired /\ y.keep = keep /\ y.held = w.held /\ y.stuck = w.stuck
      /\ y.rtp = w.rtp /\ y.leaked = w.leaked
      /\ y.status = x.status /\ y.rights = x.rights /\ y.at = x.at /\ y.cfg = x.cfg
      /\ y.next = 0 /\ y.pending = x.pending /\ y.torn = x.torn
      /\ y.slot = x.slot /\ y.asio = x.asio
  BY <1>1, <1>2 DEF Graphs
<1> HIDE DEF y
\* What is kept is current, as it was; what is not kept was torn down.
<1>10. \A p \in Ports : Current(x, p) = x.ports[p] BY <1>1, PortFacts DEF Current
<1>11. \A p \in Ports : Current(y, p) = keep[p]
  <2>1. \A p \in Ports : p > 0 BY PortFacts DEF Ports
  <2> QED BY <1>9, <2>1, PortFacts DEF Current
<1>12. Ready(y)
  <2>1. KeysInv(y)
    <3> SUFFICES ASSUME NEW c \in y.held \ y.stuck
                 PROVE  \E p \in Ports : Current(y, p).open /\ Current(y, p).set.chan = c
      BY DEF KeysInv
    <3>1. c \in x.held \ x.stuck /\ \A p \in live : ~(x.ports[p].open /\ x.ports[p].set.chan = c)
      BY <1>2, <1>9
    <3>2. PICK p \in Ports : x.ports[p].open /\ x.ports[p].set.chan = c
      BY <1>10, <3>1 DEF GraphInv, KeysInv
    <3>3. p \in Wired(x) BY <1>1, <3>2, PortOf DEF Wired
    <3>4. p \in kept BY <1>5, <3>1, <3>2, <3>3
    <3> QED BY <1>3, <1>11, <3>2, <3>4
  <2>2. SocketsInv(y)
    <3> SUFFICES ASSUME NEW p \in Ports, y.rtp[p] # "closed", p \notin y.leaked
                 PROVE  Current(y, p) # NoPort /\ Current(y, p).set.source = "rtp"
      BY DEF SocketsInv
    <3>1. /\ x.rtp[p] # "closed" /\ p \notin x.leaked
          /\ ~(p \in live /\ x.ports[p].set.source = "rtp")
      BY <1>2, <1>9
    <3>2. x.ports[p] # NoPort /\ x.ports[p].set.source = "rtp"
      BY <1>10, <3>1 DEF GraphInv, SocketsInv
    <3>3. p \in kept BY <1>5, <3>1, <3>2 DEF Wired
    <3> QED BY <1>3, <1>11, <3>2, <3>3
  <2>3. VoiceInv(y)
    <3>1. \A p \in Ports : Current(y, p).open => Current(y, p) = Current(x, p)
      BY <1>3, <1>10, <1>11, PortFacts
    <3>2. \A c \in y.held \ y.stuck : c \in x.held \ x.stuck BY <1>2, <1>9
    <3> QED BY <1>9, <3>1, <3>2 DEF GraphInv, VoiceInv
  <2>4. \A p \in Ports : y.keep[p] # NoPort => y.keep[p].set = y.cfg.ports[p]
    BY <1>3, <1>4, <1>9
  <2> QED BY <1>8, <1>9, <2>1, <2>2, <2>3, <2>4, PortFacts DEF Ready, NoSession
<1>13. CASE \E p \in Active(x.cfg) : x.cfg.ports[p].source = "rtp"
  <2> DEFINE z == [y EXCEPT !.at = "worklet"]
  <2>1. z \in Graphs BY <1>8 DEF Graphs
  <2>2. /\ z.at = "worklet" /\ z.keep = y.keep /\ z.next = y.next /\ z.cfg = y.cfg
        /\ z.ports = y.ports /\ z.held = y.held /\ z.stuck = y.stuck /\ z.rtp = y.rtp
        /\ z.leaked = y.leaked /\ z.rights = y.rights /\ z.slot = y.slot /\ z.asio = y.asio
        /\ z.status = y.status /\ z.pending = y.pending /\ z.torn = y.torn
    BY <1>8 DEF Graphs
  <2> HIDE DEF z
  <2>3. BuildInv(z) BY <1>9, <1>12, <2>2 DEF BuildInv, Ready
  <2>4. \A p \in Ports : Current(z, p) = Current(y, p) BY <2>2 DEF Current
  <2>5. GraphInv(z) /\ IdleInv(z) BY <1>12, <2>1, <2>2, <2>3, <2>4, MorePorts
  <2> QED BY <1>7, <1>13, <2>5 DEF z
<1>14. CASE ~(\E p \in Active(x.cfg) : x.cfg.ports[p].source = "rtp")
  <2>1. 1 = y.next + 1 BY <1>9
  <2>2. GraphInv(Wire(y, 1)) /\ IdleInv(Wire(y, 1)) BY <1>12, <2>1, WireKeeps
  <2> QED BY <1>7, <1>14, <2>2
<1> QED BY <1>13, <1>14

\* A build starts with the devices as they are, or with none.
LEMMA StartBuildKeeps ==
  ASSUME NEW x, GraphInv(x), x.at = "none", ~NoSession(x), NEW cfg \in PageSettings
  PROVE  GraphInv(StartBuild(x, cfg)) /\ IdleInv(StartBuild(x, cfg))
<1> DEFINE y == [x EXCEPT !.built = cfg, !.cfg = cfg, !.pending = None]
           v == TeardownPorts(y, Ports)
           u == TeardownDevices(v)
           key == DeviceKey(cfg)
           at == IF cfg.asio # None THEN "list" ELSE "media"
           z == [u EXCEPT !.dev = key, !.torn = FALSE, !.at = at]
<1>1. x \in Graphs BY DEF GraphInv
<1>2. y \in Graphs BY <1>1 DEF Graphs
<1>3. /\ y.ports = x.ports /\ y.keep = x.keep /\ y.next = x.next /\ y.rtp = x.rtp
      /\ y.leaked = x.leaked /\ y.rights = x.rights /\ y.held = x.held /\ y.stuck = x.stuck
      /\ y.slot = x.slot /\ y.asio = x.asio /\ y.at = x.at /\ y.cfg = cfg /\ y.status = x.status
  BY <1>1 DEF Graphs
<1>4. StartBuild(x, cfg) = IF key = x.dev THEN BuildPorts(y) ELSE z BY DEF StartBuild
<1>5. key \in DeviceKeys BY DEF DeviceKey, DeviceKeys, PageSettings
<1>6. at \in {"list", "media"} OBVIOUS
<1> HIDE DEF y, v, u, key, at
<1>7. DriverInv(y) BY <1>3 DEF GraphInv, DriverInv
<1>8. GraphInv(y)
  <2>1. x.at \notin {"worklet", "rtp"} /\ y.at \notin {"worklet", "rtp"} BY <1>3
  <2>2. y.at # "none" => y.cfg \in PageSettings BY <1>3
  <2> QED BY <1>2, <1>3, <1>7, <2>1, <2>2, SameGraph
<1>9. CASE key = x.dev
  <2>1. y.slot # None => y.asio # "none" BY <1>3, <1>7 DEF DriverInv
  <2>2. ~NoSession(y) BY <1>3 DEF NoSession
  <2>3. GraphInv(BuildPorts(y)) /\ IdleInv(BuildPorts(y))
    BY <1>3, <1>8, <2>1, <2>2, BuildPortsKeeps
  <2> QED BY <1>4, <1>9, <2>3
<1>10. CASE key # x.dev
  <2>1. GraphInv(v) BY <1>8, TeardownPortsKeeps DEF v
  <2>2. GraphInv(u) BY <2>1, TeardownDevicesKeeps DEF u
  <2>3. v \in Graphs /\ u \in Graphs BY <2>1, <2>2 DEF GraphInv
  <2>4. v.at = "none" /\ v.slot = x.slot /\ v.asio = x.asio /\ v.status = x.status /\ v.cfg = cfg
    <3>1. TornDown(y, Ports, v) BY <1>2, TeardownPortsFacts DEF v
    <3> QED BY <1>3, <3>1 DEF TornDown
  <2>5. u.at = "none" /\ u.slot = (IF v.asio # "none" THEN None ELSE v.slot)
        /\ u.status = x.status /\ u.cfg = cfg
    BY <2>3, <2>4, TeardownDevicesFacts DEF u
  <2>6. u.slot = None BY <2>4, <2>5 DEF GraphInv, DriverInv
  <2>7. z \in Graphs
    <3>1. u \in Graphs BY <2>3
    <3> QED BY <1>5, <1>6, <3>1, ZenonT(60) DEF Graphs
  <2>8. /\ z.ports = u.ports /\ z.keep = u.keep /\ z.next = u.next /\ z.rtp = u.rtp
        /\ z.leaked = u.leaked /\ z.rights = u.rights /\ z.held = u.held /\ z.stuck = u.stuck
        /\ z.slot = None /\ z.at = at /\ z.cfg = cfg /\ z.status = x.status
    BY <2>3, <2>5, <2>6 DEF Graphs
  <2> HIDE DEF z
  <2>9. DriverInv(z) BY <2>8 DEF DriverInv
  <2>10. GraphInv(z)
    <3>1. u.at \notin {"worklet", "rtp"} /\ z.at \notin {"worklet", "rtp"} BY <1>6, <2>5, <2>8
    <3>2. z.at # "none" => z.cfg \in PageSettings BY <2>8
    <3> QED BY <2>2, <2>7, <2>8, <2>9, <3>1, <3>2, SameGraph
  <2>11. IdleInv(z) BY <2>8 DEF IdleInv, NoSession
  <2> QED BY <1>4, <1>10, <2>10, <2>11
<1> QED BY <1>9, <1>10

\* build(): at once, or after the one under way.
LEMMA BuildKeeps ==
  ASSUME NEW x, GraphInv(x), ~NoSession(x), NEW cfg \in PageSettings
  PROVE  GraphInv(Build(x, cfg)) /\ IdleInv(Build(x, cfg))
<1>1. x \in Graphs BY DEF GraphInv
<1>2. CASE x.at = "none"
  <2> DEFINE y == [x EXCEPT !.over = FALSE]
  <2>1. y \in Graphs BY <1>1 DEF Graphs
  <2>2. /\ y.ports = x.ports /\ y.keep = x.keep /\ y.next = x.next /\ y.rtp = x.rtp
        /\ y.leaked = x.leaked /\ y.rights = x.rights /\ y.held = x.held /\ y.stuck = x.stuck
        /\ y.slot = x.slot /\ y.asio = x.asio /\ y.at = x.at /\ y.cfg = x.cfg /\ y.status = x.status
    BY <1>1 DEF Graphs
  <2>3. Build(x, cfg) = StartBuild(y, cfg) BY <1>2 DEF Build
  <2> HIDE DEF y
  <2>4. DriverInv(y) BY <2>2 DEF GraphInv, DriverInv
  <2>5. GraphInv(y) BY <2>1, <2>2, <2>4, SameGraph
  <2>6. ~NoSession(y) BY <2>2 DEF NoSession
  <2> QED BY <1>2, <2>2, <2>3, <2>5, <2>6, StartBuildKeeps
<1>3. CASE x.at # "none"
  <2> DEFINE y == [x EXCEPT !.pending = cfg, !.over = FALSE]
  <2>1. y \in Graphs BY <1>1 DEF Graphs
  <2>2. /\ y.ports = x.ports /\ y.keep = x.keep /\ y.next = x.next /\ y.rtp = x.rtp
        /\ y.leaked = x.leaked /\ y.rights = x.rights /\ y.held = x.held /\ y.stuck = x.stuck
        /\ y.slot = x.slot /\ y.asio = x.asio /\ y.at = x.at /\ y.cfg = x.cfg /\ y.status = x.status
    BY <1>1 DEF Graphs
  <2>3. Build(x, cfg) = y BY <1>3 DEF Build
  <2> HIDE DEF y
  <2>4. DriverInv(y) BY <2>2 DEF GraphInv, DriverInv
  <2>5. GraphInv(y) BY <2>1, <2>2, <2>4, SameGraph
  <2>6. IdleInv(y) BY <2>2 DEF IdleInv, NoSession
  <2> QED BY <2>3, <2>5, <2>6
<1> QED BY <1>2, <1>3

\* The finally of build().
LEMMA FinallyKeeps ==
  ASSUME NEW x, GraphInv(x), IdleInv(x)
  PROVE  GraphInv(Finally(x)) /\ IdleInv(Finally(x))
<1>1. x \in Graphs BY DEF GraphInv
<1>2. CASE x.at # "none" BY <1>2 DEF Finally
<1>3. CASE x.at = "none" /\ x.pending # None /\ x.pending # x.built
  <2>1. x.pending \in PageSettings BY <1>1, <1>3 DEF Graphs
  <2>2. ~NoSession(x) BY <1>3 DEF IdleInv
  <2>3. Finally(x) = StartBuild(x, x.pending) BY <1>3 DEF Finally
  <2> QED BY <1>3, <2>1, <2>2, <2>3, StartBuildKeeps
<1>4. CASE x.at = "none" /\ ~(x.pending # None /\ x.pending # x.built)
  <2> DEFINE y == [x EXCEPT !.pending = None]
  <2>1. y \in Graphs BY <1>1 DEF Graphs
  <2>2. /\ y.ports = x.ports /\ y.keep = x.keep /\ y.next = x.next /\ y.rtp = x.rtp
        /\ y.leaked = x.leaked /\ y.rights = x.rights /\ y.held = x.held /\ y.stuck = x.stuck
        /\ y.slot = x.slot /\ y.asio = x.asio /\ y.at = x.at /\ y.cfg = x.cfg /\ y.status = x.status
        /\ y.torn = x.torn /\ y.timer = x.timer /\ y.streams = x.streams /\ y.sinks = x.sinks
        /\ y.pending = None
    BY <1>1 DEF Graphs
  <2>3. Finally(x) = y BY <1>4 DEF Finally
  <2> HIDE DEF y
  <2>4. DriverInv(y) BY <2>2 DEF GraphInv, DriverInv
  <2>5. GraphInv(y) BY <2>1, <2>2, <2>4, SameGraph
  <2>6. IdleInv(y) BY <2>2 DEF IdleInv, NoSession
  <2> QED BY <2>3, <2>5, <2>6
<1> QED BY <1>2, <1>3, <1>4

\* The page's effect.
LEMMA EffectKeeps ==
  ASSUME NEW x, GraphInv(x), NEW cfg \in PageSettings
  PROVE  GraphInv(Effect(x, cfg)) /\ IdleInv(Effect(x, cfg))
<1>1. x \in Graphs /\ x.status \in {"idle", "connected", "reconnecting", "error"}
  BY DEF GraphInv, Graphs
<1>2. CASE x.status = "connected" /\ x.built # cfg
  <2>1. Effect(x, cfg) = Build(x, cfg) BY <1>2 DEF Effect
  <2>2. ~NoSession(x) BY <1>2 DEF NoSession
  <2> QED BY <2>1, <2>2, BuildKeeps
<1>3. CASE x.status = "connected" /\ x.built = cfg
  <2> DEFINE over == x.over \/ x.pending \notin {None, cfg}
             y == [x EXCEPT !.over = over]
  <2>1. over \in BOOLEAN BY <1>1 DEF Graphs
  <2>2. Effect(x, cfg) = y BY <1>3 DEF Effect
  <2> HIDE DEF over
  <2>3. y \in Graphs BY <1>1, <2>1 DEF Graphs
  <2>4. /\ y.ports = x.ports /\ y.keep = x.keep /\ y.next = x.next /\ y.rtp = x.rtp
        /\ y.leaked = x.leaked /\ y.rights = x.rights /\ y.held = x.held /\ y.stuck = x.stuck
        /\ y.slot = x.slot /\ y.asio = x.asio /\ y.at = x.at /\ y.cfg = x.cfg /\ y.status = x.status
    BY <1>1 DEF Graphs
  <2> HIDE DEF y
  <2>5. DriverInv(y) BY <2>4 DEF GraphInv, DriverInv
  <2>6. GraphInv(y) BY <2>3, <2>4, <2>5, SameGraph
  <2>7. IdleInv(y) BY <1>3, <2>4 DEF IdleInv, NoSession
  <2> QED BY <2>2, <2>6, <2>7
<1>4. CASE x.status \in {"idle", "error"}
  <2>1. Effect(x, cfg) = Teardown(x) BY <1>4 DEF Effect
  <2> QED BY <2>1, TeardownKeeps
<1>5. CASE x.status = "reconnecting"
  <2>1. Effect(x, cfg) = x BY <1>5 DEF Effect
  <2> QED BY <1>5, <2>1 DEF IdleInv, NoSession
<1> QED BY <1>1, <1>2, <1>3, <1>4, <1>5

-----------------------------------------------------------------------------
(* The gateway's graph: the steps.                                         *)

\* The inductive invariant, and what each action makes of it.
GraphIInv == GraphTypeOK /\ GraphInv(g) /\ IdleInv(g)
StepIsFine == settings' \in PageSettings /\ GraphInv(g') /\ IdleInv(g')

\* The state after a change of what the invariant does not look at.
LEMMA SameBuild ==
  ASSUME NEW x, GraphInv(x), NEW y \in Graphs,
         y.ports = x.ports, y.keep = x.keep, y.next = x.next, y.rtp = x.rtp, y.leaked = x.leaked,
         y.rights = x.rights, y.held \ y.stuck \subseteq x.held \ x.stuck,
         y.slot = x.slot, y.asio = x.asio, y.at = x.at, y.cfg = x.cfg
  PROVE  GraphInv(y)
<1>1. DriverInv(y) BY DEF GraphInv, DriverInv
<1> QED BY <1>1, SameGraph

\* The engine joins, with every key up.
LEMMA JoinKeeps ==
  ASSUME GraphIInv, Connect \/ Rejoin
  PROVE  StepIsFine
<1>2. g \in Graphs /\ settings \in PageSettings BY DEF GraphIInv, GraphTypeOK
<1>0. PICK mix \in Mixes :
        /\ g' = Effect([g EXCEPT !.status = "connected", !.held = {}, !.stuck = {}, !.mix = mix],
                       settings)
        /\ settings' = settings
  <2> DEFINE rejoined == [g.mix EXCEPT !.room = "joining"]
  <2>1. "joining" \in Rooms /\ g.mix \in Mixes BY <1>2 DEF Rooms, Graphs
  <2>2. NoMix("joining") \in Mixes /\ rejoined \in Mixes BY <2>1, MixFacts
  <2>3. CASE Connect BY <2>2, <2>3 DEF Connect
  <2>4. CASE Rejoin
    <3>1. g' = Effect([g EXCEPT !.status = "connected", !.held = {}, !.stuck = {}, !.mix = rejoined],
                      settings)
      BY <2>4 DEF Rejoin
    <3> HIDE DEF rejoined
    <3> QED BY <2>2, <2>4, <3>1 DEF Rejoin
  <2> QED BY <2>3, <2>4
<1> DEFINE y == [g EXCEPT !.status = "connected", !.held = {}, !.stuck = {}, !.mix = mix]
<1>1. g' = Effect(y, settings) /\ settings' = settings BY <1>0
<1>3. y \in Graphs BY <1>2 DEF Graphs
<1>4. /\ y.ports = g.ports /\ y.keep = g.keep /\ y.next = g.next /\ y.rtp = g.rtp
      /\ y.leaked = g.leaked /\ y.rights = g.rights /\ y.held = {} /\ y.stuck = {}
      /\ y.slot = g.slot /\ y.asio = g.asio /\ y.at = g.at /\ y.cfg = g.cfg
  BY <1>2 DEF Graphs
<1> HIDE DEF y
<1>5. y.held \ y.stuck \subseteq g.held \ g.stuck BY <1>4
<1>6. GraphInv(y) BY <1>3, <1>4, <1>5, SameBuild DEF GraphIInv
<1> QED BY <1>1, <1>2, <1>6, EffectKeeps DEF StepIsFine

\* The button, and the effect after it.
LEMMA DisconnectKeeps ==
  ASSUME GraphIInv, Disconnect
  PROVE  StepIsFine
<1> DEFINE x == Teardown(g)
           mix == NoMix("none")
           y == [x EXCEPT !.status = "idle", !.held = {}, !.stuck = {}, !.mix = mix]
<1>1. g' = Effect(y, settings) /\ settings' = settings BY DEF Disconnect
<1>0. mix \in Mixes BY MixFacts DEF Rooms
<1>2. GraphInv(x) BY TeardownKeeps DEF GraphIInv
<1>3. x \in Graphs /\ settings \in PageSettings BY <1>2 DEF GraphIInv, GraphTypeOK, GraphInv
<1> HIDE DEF x, mix
<1>4. y \in Graphs BY <1>0, <1>3 DEF Graphs
<1>5. /\ y.ports = x.ports /\ y.keep = x.keep /\ y.next = x.next /\ y.rtp = x.rtp
      /\ y.leaked = x.leaked /\ y.rights = x.rights /\ y.held = {} /\ y.stuck = {}
      /\ y.slot = x.slot /\ y.asio = x.asio /\ y.at = x.at /\ y.cfg = x.cfg
  BY <1>3 DEF Graphs
<1> HIDE DEF y
<1>6. y.held \ y.stuck \subseteq x.held \ x.stuck BY <1>5
<1>7. GraphInv(y) BY <1>2, <1>4, <1>5, <1>6, SameBuild
<1> QED BY <1>1, <1>3, <1>7, EffectKeeps DEF StepIsFine

\* The socket is lost: the graph stays.
LEMMA DropKeeps ==
  ASSUME GraphIInv, Drop
  PROVE  StepIsFine
<1> DEFINE mix == LeftRoom(g.mix)
           y == [g EXCEPT !.status = "reconnecting", !.mix = mix]
<1>1. g' = y /\ settings' = settings BY DEF Drop
<1>2. g \in Graphs /\ settings \in PageSettings BY DEF GraphIInv, GraphTypeOK
<1>0. mix \in Mixes BY <1>2, MixFacts DEF Graphs
<1> HIDE DEF mix
<1>3. y \in Graphs BY <1>0, <1>2 DEF Graphs
<1>4. /\ y.ports = g.ports /\ y.keep = g.keep /\ y.next = g.next /\ y.rtp = g.rtp
      /\ y.leaked = g.leaked /\ y.rights = g.rights /\ y.held = g.held /\ y.stuck = g.stuck
      /\ y.slot = g.slot /\ y.asio = g.asio /\ y.at = g.at /\ y.cfg = g.cfg
      /\ y.status = "reconnecting"
  BY <1>2 DEF Graphs
<1> HIDE DEF y
<1>5. GraphInv(y) BY <1>3, <1>4, SameBuild DEF GraphIInv
<1>6. IdleInv(y) BY <1>4 DEF IdleInv, NoSession
<1> QED BY <1>1, <1>2, <1>5, <1>6 DEF StepIsFine

\* The session ends with an error.
LEMMA FatalKeeps ==
  ASSUME GraphIInv, Fatal
  PROVE  StepIsFine
<1> DEFINE mix == LeftRoom(g.mix)
           y == [g EXCEPT !.status = "error", !.mix = mix]
<1>1. g' = Effect(y, settings) /\ settings' = settings BY DEF Fatal
<1>2. g \in Graphs /\ settings \in PageSettings BY DEF GraphIInv, GraphTypeOK
<1>0. mix \in Mixes BY <1>2, MixFacts DEF Graphs
<1> HIDE DEF mix
<1>3. y \in Graphs BY <1>0, <1>2 DEF Graphs
<1>4. /\ y.ports = g.ports /\ y.keep = g.keep /\ y.next = g.next /\ y.rtp = g.rtp
      /\ y.leaked = g.leaked /\ y.rights = g.rights /\ y.held = g.held /\ y.stuck = g.stuck
      /\ y.slot = g.slot /\ y.asio = g.asio /\ y.at = g.at /\ y.cfg = g.cfg
  BY <1>2 DEF Graphs
<1> HIDE DEF y
<1>5. GraphInv(y) BY <1>3, <1>4, SameBuild DEF GraphIInv
<1> QED BY <1>1, <1>2, <1>5, EffectKeeps DEF StepIsFine

\* A channel that becomes a music channel keeps no key that the invariant counts.
LEMMA DirectoryKeeps ==
  ASSUME GraphIInv, NEW c \in Chans, NEW k \in {"talk", "music", "both", "none"}, Directory(c, k)
  PROVE  StepIsFine
<1> DEFINE rights == [g.rights EXCEPT ![c] = k]
           held == IF MayTalk(k) THEN g.held ELSE g.held \ {c}
           mix == IF MayPlay(k) THEN g.mix ELSE StopMusic(g.mix, {c})
           stuck == IF k = "music" THEN g.stuck \cup (g.held \cap {c})
                    ELSE IF MayTalk(k) THEN g.stuck ELSE g.stuck \ {c}
           y == [g EXCEPT !.rights = rights, !.held = held, !.mix = mix, !.stuck = stuck]
<1>1. g' = y /\ settings' = settings /\ g.status = "connected" BY DEF Directory
<1>2. g \in Graphs /\ settings \in PageSettings BY DEF GraphIInv, GraphTypeOK
<1>3. /\ rights \in [Chans -> {"talk", "music", "both", "none"}]
      /\ held \in SUBSET Chans /\ mix \in Mixes /\ stuck \in SUBSET Chans
  <2>1. g.mix \in Mixes BY <1>2 DEF Graphs
  <2>2. mix \in Mixes BY <2>1, StopIsMix
  <2> QED BY <1>2, <2>2 DEF Graphs
<1>4. rights[c] = k /\ \A d \in Chans \ {c} : rights[d] = g.rights[d] BY <1>2 DEF Graphs
<1>5. held \ stuck \subseteq g.held \ g.stuck /\ (k = "music" => c \notin held \ stuck)
  BY DEF MayTalk
<1> HIDE DEF rights, held, mix, stuck
<1>6. y \in Graphs BY <1>2, <1>3 DEF Graphs
<1>7. /\ y.ports = g.ports /\ y.keep = g.keep /\ y.next = g.next /\ y.rtp = g.rtp
      /\ y.leaked = g.leaked /\ y.rights = rights /\ y.held = held /\ y.stuck = stuck
      /\ y.slot = g.slot /\ y.asio = g.asio /\ y.at = g.at /\ y.cfg = g.cfg
      /\ y.status = g.status
  BY <1>2 DEF Graphs
<1> HIDE DEF y
<1>8. \A p \in Ports : Current(y, p) = Current(g, p) BY <1>7 DEF Current
<1> USE DEF GraphIInv, GraphInv
<1>9. BuildInv(y) BY <1>7 DEF BuildInv
<1>10. KeysInv(y) BY <1>5, <1>7, <1>8 DEF KeysInv
<1>11. SocketsInv(y) BY <1>7, <1>8 DEF SocketsInv
<1>12. VoiceInv(y)
  <2>1. \A d \in held \ stuck : rights[d] # "music"
    <3> SUFFICES ASSUME NEW d \in held \ stuck PROVE rights[d] # "music" OBVIOUS
    <3>1. d \in g.held \ g.stuck /\ d \in Chans BY <1>3, <1>5
    <3>2. CASE d = c BY <1>4, <1>5, <3>2
    <3>3. CASE d # c BY <1>4, <3>1, <3>3 DEF VoiceInv
    <3> QED BY <3>2, <3>3
  <2> QED BY <1>7, <1>8, <2>1 DEF VoiceInv
<1>13. DriverInv(y) BY <1>7 DEF DriverInv
<1>14. IdleInv(y) BY <1>1, <1>7 DEF IdleInv, NoSession
<1> QED BY <1>1, <1>2, <1>6, <1>9, <1>10, <1>11, <1>12, <1>13, <1>14 DEF StepIsFine

\* Music is no key.
LEMMA MusicKeeps ==
  ASSUME GraphIInv,
         (\E c \in Chans : MusicFails(c)) \/ RoomJoined \/ StallsOnJoining \/ RoomStalls \/ RoomBack
  PROVE  StepIsFine
<1>2. g \in Graphs /\ settings \in PageSettings BY DEF GraphIInv, GraphTypeOK
<1>0. PICK mix \in Mixes : g' = [g EXCEPT !.mix = mix] /\ settings' = settings
  <2>1. g.mix \in Mixes /\ "up" \in Rooms /\ "stalled" \in Rooms BY <1>2 DEF Graphs, Rooms
  <2>2. CASE \E c \in Chans : MusicFails(c)
    <3>1. PICK c \in Chans : MusicFails(c) BY <2>2
    <3>2. StopMusic(g.mix, {c}) \in Mixes BY <2>1, MixFacts
    <3> QED BY <3>1, <3>2 DEF MusicFails
  <2>3. CASE RoomJoined
    <3>1. Joined(g.mix) \in Mixes BY <2>1, MixFacts
    <3> QED BY <2>3, <3>1 DEF RoomJoined
  <2>4. ASSUME NEW room \in Rooms, g' = [g EXCEPT !.mix.room = room], settings' = settings
        PROVE  \E mix \in Mixes : g' = [g EXCEPT !.mix = mix] /\ settings' = settings
    <3> DEFINE mix == [g.mix EXCEPT !.room = room]
    <3>1. mix \in Mixes BY <2>1, MixFacts
    <3>2. g' = [g EXCEPT !.mix = mix] BY <2>4
    <3> HIDE DEF mix
    <3> QED BY <2>4, <3>1, <3>2
  <2>5. CASE RoomStalls BY <2>1, <2>4, <2>5 DEF RoomStalls
  <2>6. CASE RoomBack BY <2>1, <2>4, <2>6 DEF RoomBack
  <2>7. CASE StallsOnJoining
    <3>1. PICK P \in SUBSET g.mix.sending :
            g' = [g EXCEPT !.mix = [g.mix EXCEPT !.room = "stalled", !.published = P,
                                                 !.muted = g.mix.sending \ P]]
      BY <2>7 DEF StallsOnJoining
    <3> DEFINE mix == [g.mix EXCEPT !.room = "stalled", !.published = P, !.muted = g.mix.sending \ P]
    <3>2. mix \in Mixes BY <2>1 DEF Mixes, Rooms
    <3>3. g' = [g EXCEPT !.mix = mix] /\ settings' = settings BY <2>7, <3>1 DEF StallsOnJoining
    <3> HIDE DEF mix
    <3> QED BY <3>2, <3>3
  <2> QED BY <2>2, <2>3, <2>5, <2>6, <2>7
<1> DEFINE y == [g EXCEPT !.mix = mix]
<1>1. g' = y /\ settings' = settings BY <1>0
<1>3. y \in Graphs BY <1>2 DEF Graphs
<1>4. /\ y.ports = g.ports /\ y.keep = g.keep /\ y.next = g.next /\ y.rtp = g.rtp
      /\ y.leaked = g.leaked /\ y.rights = g.rights /\ y.held = g.held /\ y.stuck = g.stuck
      /\ y.slot = g.slot /\ y.asio = g.asio /\ y.at = g.at /\ y.cfg = g.cfg
      /\ y.status = g.status /\ y.torn = g.torn /\ y.pending = g.pending /\ y.timer = g.timer
      /\ y.streams = g.streams /\ y.sinks = g.sinks
  BY <1>2 DEF Graphs
<1> HIDE DEF y
<1>5. GraphInv(y) BY <1>3, <1>4, SameBuild DEF GraphIInv
<1>6. IdleInv(y) BY <1>4 DEF GraphIInv, IdleInv, NoSession
<1> QED BY <1>1, <1>2, <1>5, <1>6 DEF StepIsFine

\* The settings are edited.
LEMMA EditKeeps ==
  ASSUME GraphIInv,
         \/ \E p \in Ports, s \in PortSettings \cup {Off} : SetPort(p, s)
         \/ \E i \in Interfaces \cup {None} : SetAsio(i)
  PROVE  StepIsFine
<1>1. g' = Effect(g, settings') BY DEF SetPort, SetAsio
<1>2. settings' \in PageSettings
  <2>1. settings \in PageSettings BY DEF GraphIInv, GraphTypeOK
  <2>2. CASE \E p \in Ports, s \in PortSettings \cup {Off} : SetPort(p, s)
    <3>1. PICK p \in Ports, s \in PortSettings \cup {Off} : SetPort(p, s) BY <2>2
    <3> DEFINE ports == [settings.ports EXCEPT ![p] = s]
    <3>2. settings' = [settings EXCEPT !.ports = ports] BY <3>1 DEF SetPort
    <3>3. ports \in [Ports -> PortSettings \cup {Off}] BY <2>1 DEF PageSettings
    <3> HIDE DEF ports
    <3> QED BY <2>1, <3>2, <3>3 DEF PageSettings
  <2>3. CASE \E i \in Interfaces \cup {None} : SetAsio(i) BY <2>1, <2>3 DEF SetAsio, PageSettings
  <2> QED BY <2>2, <2>3
<1> QED BY <1>1, <1>2, EffectKeeps DEF GraphIInv, StepIsFine

\* What a driver answers, and a device that is still awaited.
LEMMA AnswerKeeps ==
  ASSUME GraphIInv, NEW y \in Graphs, Answer(y), g.at \in {"list", "open", "media", "in"},
         y.at \in {"open", "media", "in", "out"}, DriverInv(y),
         y.ports = g.ports, y.keep = g.keep, y.next = g.next, y.rtp = g.rtp, y.leaked = g.leaked,
         y.rights = g.rights, y.held = g.held, y.stuck = g.stuck, y.cfg = g.cfg,
         y.status = g.status, y.pending = g.pending, y.torn = g.torn
  PROVE  StepIsFine
<1>1. y.cfg \in PageSettings BY DEF GraphIInv, GraphInv, BuildInv
<1>2. GraphInv(y)
  <2>1. g.at \notin {"worklet", "rtp"} /\ y.at \notin {"worklet", "rtp"} OBVIOUS
  <2> QED BY <1>1, <2>1, SameGraph DEF GraphIInv
<1>3. IdleInv(y) BY DEF GraphIInv, IdleInv, NoSession
<1>4. settings' \in PageSettings BY DEF Answer, GraphIInv, GraphTypeOK
<1> QED BY <1>2, <1>3, <1>4, FinallyKeeps DEF Answer, StepIsFine

\* The interface is listed and opened, or not.
LEMMA DriverKeeps ==
  ASSUME GraphIInv, Listed \/ NotListed \/ Opened \/ NotOpened
  PROVE  StepIsFine
<1>1. g \in Graphs BY DEF GraphIInv, GraphTypeOK
<1>2. CASE Listed
  <2> DEFINE i == g.cfg.asio
             y == [g EXCEPT !.at = "open", !.slot = i]
  <2>1. Answer(y) /\ g.at = "list" BY <1>2 DEF Listed
  <2>2. g.cfg \in PageSettings BY <2>1 DEF GraphIInv, GraphInv, BuildInv
  <2>3. i \in Interfaces \cup {None} BY <2>2 DEF PageSettings
  <2> HIDE DEF i
  <2>4. y \in Graphs BY <1>1, <2>3 DEF Graphs
  <2>5. /\ y.ports = g.ports /\ y.keep = g.keep /\ y.next = g.next /\ y.rtp = g.rtp
        /\ y.leaked = g.leaked /\ y.rights = g.rights /\ y.held = g.held /\ y.stuck = g.stuck
        /\ y.cfg = g.cfg /\ y.status = g.status /\ y.pending = g.pending /\ y.torn = g.torn
        /\ y.at = "open"
    BY <1>1 DEF Graphs
  <2> HIDE DEF y
  <2>6. DriverInv(y) BY <2>5 DEF DriverInv
  <2> QED BY <2>1, <2>4, <2>5, <2>6, AnswerKeeps
<1>3. CASE NotListed
  <2> DEFINE y == [g EXCEPT !.at = "media"]
  <2>1. Answer(y) /\ g.at = "list" BY <1>3 DEF NotListed
  <2>2. y \in Graphs BY <1>1 DEF Graphs
  <2>3. /\ y.ports = g.ports /\ y.keep = g.keep /\ y.next = g.next /\ y.rtp = g.rtp
        /\ y.leaked = g.leaked /\ y.rights = g.rights /\ y.held = g.held /\ y.stuck = g.stuck
        /\ y.cfg = g.cfg /\ y.status = g.status /\ y.pending = g.pending /\ y.torn = g.torn
        /\ y.at = "media" /\ y.slot = g.slot /\ y.asio = g.asio
    BY <1>1 DEF Graphs
  <2> HIDE DEF y
  <2>4. DriverInv(y) BY <2>1, <2>3 DEF GraphIInv, GraphInv, DriverInv
  <2> QED BY <2>1, <2>2, <2>3, <2>4, AnswerKeeps
<1>4. CASE Opened \/ NotOpened
  <2>1. PICK a \in {"open", "failed"} :
          Answer([g EXCEPT !.at = "media", !.asio = a]) /\ g.at = "open"
    BY <1>4 DEF Opened, NotOpened
  <2> DEFINE y == [g EXCEPT !.at = "media", !.asio = a]
  <2>2. y \in Graphs BY <1>1 DEF Graphs
  <2>3. /\ y.ports = g.ports /\ y.keep = g.keep /\ y.next = g.next /\ y.rtp = g.rtp
        /\ y.leaked = g.leaked /\ y.rights = g.rights /\ y.held = g.held /\ y.stuck = g.stuck
        /\ y.cfg = g.cfg /\ y.status = g.status /\ y.pending = g.pending /\ y.torn = g.torn
        /\ y.at = "media" /\ y.asio = a
    BY <1>1 DEF Graphs
  <2>4. Answer(y) /\ g.at = "open" BY <2>1
  <2> HIDE DEF y
  <2>5. DriverInv(y) BY <2>3 DEF DriverInv
  <2> QED BY <2>2, <2>3, <2>4, <2>5, AnswerKeeps
<1> QED BY <1>2, <1>3, <1>4

\* The ports are built once the devices are open, or could not be.
LEMMA DevicesDoneKeeps ==
  ASSUME GraphIInv, g.at \in {"media", "out"}, NEW y \in Graphs, Answer(BuildPorts(y)),
         y.ports = g.ports, y.keep = g.keep, y.next = g.next, y.rtp = g.rtp, y.leaked = g.leaked,
         y.rights = g.rights, y.held = g.held, y.stuck = g.stuck, y.slot = g.slot,
         y.asio = g.asio, y.at = g.at, y.cfg = g.cfg,
         y.status = g.status, y.pending = g.pending, y.torn = g.torn
  PROVE  StepIsFine
<1>1. GraphInv(y) BY SameBuild DEF GraphIInv
<1>2. y.cfg \in PageSettings BY DEF GraphIInv, GraphInv, BuildInv
<1>3. y.slot # None => y.asio # "none" BY DEF GraphIInv, GraphInv, DriverInv
<1>4. NoSession(y) => y.torn /\ y.pending = None BY DEF GraphIInv, IdleInv, NoSession
<1>5. GraphInv(BuildPorts(y)) /\ IdleInv(BuildPorts(y))
  BY <1>1, <1>2, <1>3, <1>4, BuildPortsKeeps
<1>6. settings' \in PageSettings BY DEF Answer, GraphIInv, GraphTypeOK
<1> QED BY <1>5, <1>6, FinallyKeeps DEF Answer, StepIsFine

\* getIn() and getOut(): an input and an output are open, or not.
LEMMA DevicesKeeps ==
  ASSUME GraphIInv, Captured \/ GetIn \/ GetOut
  PROVE  StepIsFine
<1>1. g \in Graphs BY DEF GraphIInv, GraphTypeOK
<1>2. CASE Captured
  <2> DEFINE awaits == DeviceKey(g.cfg).device
  <2>1. CASE awaits
    <3> DEFINE y == [g EXCEPT !.streams = TRUE, !.at = "in"]
    <3>1. Answer(y) /\ g.at = "media" BY <1>2, <2>1 DEF Captured
    <3>2. y \in Graphs BY <1>1 DEF Graphs
    <3>3. /\ y.ports = g.ports /\ y.keep = g.keep /\ y.next = g.next /\ y.rtp = g.rtp
          /\ y.leaked = g.leaked /\ y.rights = g.rights /\ y.held = g.held /\ y.stuck = g.stuck
          /\ y.cfg = g.cfg /\ y.status = g.status /\ y.pending = g.pending /\ y.torn = g.torn
          /\ y.at = "in" /\ y.slot = g.slot /\ y.asio = g.asio
      BY <1>1 DEF Graphs
    <3> HIDE DEF y, awaits
    <3>4. DriverInv(y) BY <3>1, <3>3 DEF GraphIInv, GraphInv, DriverInv
    <3> QED BY <3>1, <3>2, <3>3, <3>4, AnswerKeeps
  <2>2. CASE ~awaits
    <3> DEFINE y == [g EXCEPT !.streams = TRUE]
    <3>1. Answer(BuildPorts(y)) /\ g.at = "media" BY <1>2, <2>2 DEF Captured
    <3>2. y \in Graphs BY <1>1 DEF Graphs
    <3>3. /\ y.ports = g.ports /\ y.keep = g.keep /\ y.next = g.next /\ y.rtp = g.rtp
          /\ y.leaked = g.leaked /\ y.rights = g.rights /\ y.held = g.held /\ y.stuck = g.stuck
          /\ y.cfg = g.cfg /\ y.status = g.status /\ y.pending = g.pending /\ y.torn = g.torn
          /\ y.at = g.at /\ y.slot = g.slot /\ y.asio = g.asio
      BY <1>1 DEF Graphs
    <3> HIDE DEF y, awaits
    <3> QED BY <3>1, <3>2, <3>3, DevicesDoneKeeps
  <2> QED BY <2>1, <2>2
<1>3. CASE GetIn
  <2>1. PICK b \in {TRUE, g.streams} : Answer([g EXCEPT !.streams = b, !.at = "out"]) /\ g.at = "in"
    <3>1. [g EXCEPT !.at = "out"] = [g EXCEPT !.streams = g.streams, !.at = "out"] BY <1>1 DEF Graphs
    <3> QED BY <1>3, <3>1 DEF GetIn
  <2> DEFINE y == [g EXCEPT !.streams = b, !.at = "out"]
  <2>2. b \in BOOLEAN BY <1>1 DEF Graphs
  <2>3. y \in Graphs BY <1>1, <2>2 DEF Graphs
  <2>4. /\ y.ports = g.ports /\ y.keep = g.keep /\ y.next = g.next /\ y.rtp = g.rtp
        /\ y.leaked = g.leaked /\ y.rights = g.rights /\ y.held = g.held /\ y.stuck = g.stuck
        /\ y.cfg = g.cfg /\ y.status = g.status /\ y.pending = g.pending /\ y.torn = g.torn
        /\ y.at = "out" /\ y.slot = g.slot /\ y.asio = g.asio
    BY <1>1 DEF Graphs
  <2>5. Answer(y) /\ g.at = "in" BY <2>1
  <2> HIDE DEF y
  <2>6. DriverInv(y) BY <2>4, <2>5 DEF GraphIInv, GraphInv, DriverInv
  <2> QED BY <2>3, <2>4, <2>5, <2>6, AnswerKeeps
<1>4. CASE GetOut
  <2>1. CASE Answer(BuildPorts(g)) /\ g.at = "out" BY <1>1, <2>1, DevicesDoneKeeps
  <2>2. CASE Answer(BuildPorts([g EXCEPT !.sinks = TRUE])) /\ g.at = "out"
    <3> DEFINE y == [g EXCEPT !.sinks = TRUE]
    <3>1. Answer(BuildPorts(y)) BY <2>2
    <3>2. y \in Graphs BY <1>1 DEF Graphs
    <3>3. /\ y.ports = g.ports /\ y.keep = g.keep /\ y.next = g.next /\ y.rtp = g.rtp
          /\ y.leaked = g.leaked /\ y.rights = g.rights /\ y.held = g.held /\ y.stuck = g.stuck
          /\ y.cfg = g.cfg /\ y.status = g.status /\ y.pending = g.pending /\ y.torn = g.torn
          /\ y.at = g.at /\ y.slot = g.slot /\ y.asio = g.asio
      BY <1>1 DEF Graphs
    <3> HIDE DEF y
    <3> QED BY <2>2, <3>1, <3>2, <3>3, DevicesDoneKeeps
  <2> QED BY <1>4, <2>1, <2>2 DEF GetOut
<1> QED BY <1>2, <1>3, <1>4

\* The loop of buildPorts() goes on, the socket it awaited being bound or not.
LEMMA SocketsKeep ==
  ASSUME GraphIInv, WorkletLoaded \/ Bound \/ NotBound
  PROVE  StepIsFine
<1> USE DEF GraphIInv, GraphInv
<1>1. g \in Graphs /\ settings \in PageSettings BY DEF GraphTypeOK
<1>2. CASE WorkletLoaded
  <2>1. g.at = "worklet" /\ Answer(Wire(g, 1)) BY <1>2 DEF WorkletLoaded
  <2>2. Ready(g) /\ 1 = g.next + 1
    BY <1>1, <2>1 DEF Ready, BuildInv, DriverInv, IdleInv, NoSession
  <2>3. GraphInv(Wire(g, 1)) /\ IdleInv(Wire(g, 1)) BY <2>2, WireKeeps
  <2> QED BY <1>1, <2>1, <2>3, FinallyKeeps DEF Answer, StepIsFine
<1>3. CASE Bound \/ NotBound
  <2>1. g.at = "rtp" /\ g.next \in Ports /\ g.rtp[g.next] = "opening"
    BY <1>3 DEF Bound, NotBound, BuildInv
  <2>2. PICK to \in {"open", "closed"}, leaked \in {g.leaked, g.leaked \ {g.next}} :
          /\ Answer(Wire([g EXCEPT !.rtp[g.next] = to, !.leaked = leaked], g.next + 1))
          /\ to = "closed" \/ leaked = g.leaked
    <3>1. [g EXCEPT !.rtp[g.next] = "open"] =
            [g EXCEPT !.rtp[g.next] = "open", !.leaked = g.leaked]
      BY <1>1 DEF Graphs
    <3> QED BY <1>3, <3>1 DEF Bound, NotBound
  <2> DEFINE sockets == [g.rtp EXCEPT ![g.next] = to]
             y == [g EXCEPT !.rtp = sockets, !.leaked = leaked]
  <2>3. Answer(Wire(y, g.next + 1)) BY <2>2
  <2>4. sockets \in [Ports -> {"closed", "opening", "open"}] /\ leaked \in SUBSET Ports
    BY <1>1, <2>1 DEF Graphs
  <2>5. sockets[g.next] = to /\ \A p \in Ports \ {g.next} : sockets[p] = g.rtp[p]
    BY <1>1, <2>1 DEF Graphs
  <2> HIDE DEF sockets
  <2>6. y \in Graphs BY <1>1, <2>4 DEF Graphs
  <2>7. /\ y.ports = g.ports /\ y.keep = g.keep /\ y.next = g.next /\ y.rtp = sockets
        /\ y.leaked = leaked /\ y.rights = g.rights /\ y.held = g.held /\ y.stuck = g.stuck
        /\ y.cfg = g.cfg /\ y.status = g.status /\ y.pending = g.pending /\ y.torn = g.torn
        /\ y.at = g.at /\ y.slot = g.slot /\ y.asio = g.asio
    BY <1>1 DEF Graphs
  <2> HIDE DEF y
  <2>8. \A p \in Ports : Current(y, p) = Current(g, p) BY <2>7 DEF Current
  <2>9. SocketsInv(y)
    <3>1. \A p \in Ports : y.rtp[p] # "closed" /\ p \notin y.leaked =>
            g.rtp[p] # "closed" /\ p \notin g.leaked
      BY <2>1, <2>2, <2>5, <2>7
    <3> QED BY <2>8, <3>1 DEF SocketsInv
  <2>10. KeysInv(y) /\ VoiceInv(y) BY <2>7, <2>8 DEF KeysInv, VoiceInv
  <2>11. Ready(y)
    BY <2>1, <2>6, <2>7, <2>9, <2>10 DEF Ready, BuildInv, DriverInv, IdleInv, NoSession
  <2>12. GraphInv(Wire(y, g.next + 1)) /\ IdleInv(Wire(y, g.next + 1))
    BY <2>7, <2>11, WireKeeps
  <2> QED BY <1>1, <2>3, <2>12, FinallyKeeps DEF Answer, StepIsFine
<1> QED BY <1>2, <1>3

\* A helper ends, or dies.
LEMMA HelperKeeps ==
  ASSUME GraphIInv, (\E i \in Interfaces : HelperEnds(i)) \/ HelperCrashes
  PROVE  StepIsFine
<1>1. g \in Graphs /\ settings \in PageSettings BY DEF GraphIInv, GraphTypeOK
<1>2. PICK dying \in SUBSET Interfaces, slot \in {g.slot, None} :
        g' = [g EXCEPT !.dying = dying, !.slot = slot] /\ settings' = settings
  <2>1. CASE \E i \in Interfaces : HelperEnds(i)
    <3>1. PICK i \in Interfaces : HelperEnds(i) BY <2>1
    <3>2. g.dying \ {i} \in SUBSET Interfaces BY <1>1 DEF Graphs
    <3>3. [g EXCEPT !.dying = g.dying \ {i}] = [g EXCEPT !.dying = g.dying \ {i}, !.slot = g.slot]
      BY <1>1 DEF Graphs
    <3> QED BY <3>1, <3>2, <3>3 DEF HelperEnds
  <2>2. CASE HelperCrashes
    <3>1. g.dying \in SUBSET Interfaces BY <1>1 DEF Graphs
    <3>2. [g EXCEPT !.slot = None] = [g EXCEPT !.dying = g.dying, !.slot = None]
      BY <1>1 DEF Graphs
    <3> QED BY <2>2, <3>1, <3>2 DEF HelperCrashes
  <2> QED BY <2>1, <2>2
<1> DEFINE y == [g EXCEPT !.dying = dying, !.slot = slot]
<1>3. y \in Graphs
  <2>1. slot \in Interfaces \cup {None} BY <1>1 DEF Graphs
  <2> QED BY <1>1, <2>1 DEF Graphs
<1>4. /\ y.ports = g.ports /\ y.keep = g.keep /\ y.next = g.next /\ y.rtp = g.rtp
      /\ y.leaked = g.leaked /\ y.rights = g.rights /\ y.held = g.held /\ y.stuck = g.stuck
      /\ y.slot \in {g.slot, None} /\ y.asio = g.asio /\ y.at = g.at /\ y.cfg = g.cfg
      /\ y.status = g.status /\ y.torn = g.torn /\ y.pending = g.pending /\ y.timer = g.timer
      /\ y.streams = g.streams /\ y.sinks = g.sinks
  BY <1>1 DEF Graphs
<1>5. g' = y /\ settings' = settings BY <1>2
<1> HIDE DEF y
<1>6. DriverInv(y) BY <1>4 DEF GraphIInv, GraphInv, DriverInv
<1>7. GraphInv(y) BY <1>3, <1>4, <1>6, SameGraph DEF GraphIInv
<1>8. IdleInv(y) BY <1>4 DEF GraphIInv, IdleInv, NoSession
<1> QED BY <1>1, <1>5, <1>7, <1>8 DEF StepIsFine

\* The voice tick holds the key of a channel for the last of its ports, if that
\* one hears somebody; the key of a channel without a voice is as it was.
LEMMA VoxTickKeeps ==
  ASSUME GraphIInv, NEW S \in SUBSET Ports, NEW due \in BOOLEAN, VoxTick(S, due)
  PROVE  StepIsFine
<1> DEFINE voiced(c) == {p \in Wired(g) : g.ports[p].set.chan = c /\ ~IsStereo(g.ports[p].set, g)}
           wants(p) == p \in S /\ MayTalk(g.rights[g.ports[p].set.chan])
           held == {c \in Chans : IF voiced(c) = {} THEN c \in g.held ELSE wants(Max(voiced(c)))}
           stuck == g.stuck \cap held
           opens(p) == p \in voiced(g.ports[p].set.chan) /\ wants(p)
           ports == [p \in Ports |-> IF g.ports[p] = NoPort THEN NoPort
                                     ELSE [g.ports[p] EXCEPT !.open = opens(p)]]
           mix == IF due THEN StartMusic(g.mix, Retried(g)) ELSE g.mix
           y == [g EXCEPT !.ports = ports, !.held = held, !.stuck = stuck, !.mix = mix]
<1> USE DEF GraphIInv, GraphInv
<1>1. /\ g \in Graphs /\ settings \in PageSettings
      /\ g.ports \in AllPorts /\ g.keep \in AllPorts
  BY DEF GraphTypeOK, Graphs
<1>2. g' = y /\ settings' = settings /\ g.timer BY DEF VoxTick
<1>3. \A p \in Ports :
        /\ g.ports[p] = NoPort => ports[p] = NoPort
        /\ g.ports[p] # NoPort => /\ ports[p] \in WiredPorts /\ ports[p].set = g.ports[p].set
                                  /\ ports[p].open <=> opens(p)
  <2> SUFFICES ASSUME NEW p \in Ports, g.ports[p] # NoPort
               PROVE  /\ ports[p] \in WiredPorts /\ ports[p].set = g.ports[p].set
                      /\ ports[p].open <=> opens(p)
    OBVIOUS
  <2> DEFINE o == opens(p)
  <2>1. g.ports[p] \in WiredPorts BY <1>1, PortOf
  <2>2. ports[p] = [g.ports[p] EXCEPT !.open = o] OBVIOUS
  <2>3. o \in BOOLEAN OBVIOUS
  <2> HIDE DEF o, ports
  <2>4. /\ ports[p] \in WiredPorts /\ ports[p].set = g.ports[p].set /\ ports[p].open = o
    BY <2>1, <2>2, <2>3 DEF WiredPorts
  <2> QED BY <2>4 DEF o
<1>4. ports \in AllPorts
  <2>1. \A p \in Ports : ports[p] \in WiredPorts \cup {NoPort} BY <1>3
  <2>2. ports = [p \in Ports |-> ports[p]] OBVIOUS
  <2> HIDE DEF ports
  <2> QED BY <2>1, <2>2 DEF AllPorts
<1>5. held \in SUBSET Chans /\ stuck \in SUBSET Chans /\ mix \in Mixes
  <2>1. Retried(g) \in SUBSET Chans /\ g.mix \in Mixes BY <1>1 DEF Graphs, Retried, Started
  <2>2. StartMusic(g.mix, Retried(g)) \in Mixes BY <2>1, StartIsMix
  <2> QED BY <1>1, <2>1, <2>2 DEF Graphs
<1>6. held \ stuck \subseteq Chans /\ \A c \in held \ stuck : c \notin g.stuck OBVIOUS
\* Every port of voiced(c) is wired, is none of the ports that are kept aside, and has a voice.
<1>7. \A c : \A p \in voiced(c) :
        p \in Ports /\ g.ports[p] # NoPort /\ g.ports[p].set.chan = c
          /\ ~IsStereo(g.ports[p].set, g)
  BY DEF Wired
<1>8. \A p \in Ports : g.ports[p] # NoPort => ~(p > g.next /\ g.keep[p] # NoPort)
  <2>1. CASE g.at \in {"worklet", "rtp"} BY <2>1 DEF BuildInv
  <2>2. CASE g.at \notin {"worklet", "rtp"} BY <2>2, PortFacts DEF BuildInv
  <2> QED BY <2>1, <2>2
<1>9. \A c \in held \ stuck :
        \/ voiced(c) = {} /\ c \in g.held
        \/ \E p \in voiced(c) : wants(p)
  <2> SUFFICES ASSUME NEW c \in held \ stuck, voiced(c) # {}
               PROVE  \E p \in voiced(c) : wants(p)
    OBVIOUS
  <2> DEFINE V == voiced(c)
  <2>1. V \in SUBSET Ports /\ V # {} BY DEF Wired
  <2>2. wants(Max(V)) OBVIOUS
  <2>3. Max(V) \in V
    <3> HIDE DEF V
    <3> QED BY <2>1, MaxIsIn
  <2> QED BY <2>2, <2>3
<1>10. \A p \in Ports : opens(p) => p \in voiced(g.ports[p].set.chan) OBVIOUS
<1>11. \A c : \A p \in voiced(c) : wants(p) => opens(p) OBVIOUS
<1>12. \A p \in Ports : g.ports[p] # NoPort /\ ~IsStereo(g.ports[p].set, g) =>
         p \in voiced(g.ports[p].set.chan)
  BY DEF Wired
<1> HIDE DEF voiced, wants, held, stuck, opens, ports, mix
<1>13. y \in Graphs BY <1>1, <1>4, <1>5 DEF Graphs
<1>14. /\ y.ports = ports /\ y.keep = g.keep /\ y.next = g.next /\ y.rtp = g.rtp
       /\ y.leaked = g.leaked /\ y.rights = g.rights /\ y.held = held /\ y.stuck = stuck
       /\ y.cfg = g.cfg /\ y.status = g.status /\ y.pending = g.pending /\ y.torn = g.torn
       /\ y.at = g.at /\ y.slot = g.slot /\ y.asio = g.asio /\ y.timer = g.timer
  BY <1>1 DEF Graphs
<1> HIDE DEF y
<1>15. \A p \in Ports :
         \/ /\ Current(y, p) = Current(g, p)
            /\ (p > g.next /\ g.keep[p] # NoPort) \/ g.ports[p] = NoPort
         \/ Current(y, p) = ports[p] /\ Current(g, p) = g.ports[p] /\ g.ports[p] # NoPort
  BY <1>3, <1>14 DEF Current
<1>16. BuildInv(y) BY <1>3, <1>14 DEF BuildInv
<1>17. KeysInv(y)
  <2> SUFFICES ASSUME NEW c \in held \ stuck
               PROVE  \E p \in Ports : Current(y, p).open /\ Current(y, p).set.chan = c
    BY <1>14 DEF KeysInv
  <2>1. CASE voiced(c) = {} /\ c \in g.held
    <3>1. PICK p \in Ports : Current(g, p).open /\ Current(g, p).set.chan = c
      BY <1>6, <2>1 DEF KeysInv
    <3>2. CASE Current(y, p) = Current(g, p) BY <3>1, <3>2
    <3>3. CASE Current(g, p) = g.ports[p] /\ g.ports[p] # NoPort
      <4>1. ~g.ports[p].set.stereo BY <3>1, <3>3 DEF VoiceInv
      <4>2. g.rights[c] # "music" BY <1>6, <2>1 DEF VoiceInv
      <4>3. ~IsStereo(g.ports[p].set, g) BY <3>1, <3>3, <4>1, <4>2 DEF IsStereo
      <4> QED BY <1>12, <2>1, <3>1, <3>3, <4>3
    <3> QED BY <1>15, <3>2, <3>3
  <2>2. CASE \E p \in voiced(c) : wants(p)
    <3>1. PICK p \in voiced(c) : wants(p) BY <2>2
    <3>2. p \in Ports /\ g.ports[p] # NoPort /\ g.ports[p].set.chan = c BY <1>7
    <3>3. Current(y, p) = ports[p] BY <1>8, <1>15, <3>2
    <3>4. ports[p].open /\ ports[p].set.chan = c BY <1>3, <1>11, <3>1, <3>2
    <3> QED BY <3>2, <3>3, <3>4
  <2> QED BY <1>9, <2>1, <2>2
<1>18. SocketsInv(y)
  <2>1. \A p \in Ports : Current(g, p) # NoPort =>
          Current(y, p) # NoPort /\ Current(y, p).set = Current(g, p).set
    BY <1>3, <1>15, PortFacts
  <2> QED BY <1>14, <2>1 DEF SocketsInv
<1>19. VoiceInv(y)
  <2>1. \A p \in Ports : Current(y, p).open => ~Current(y, p).set.stereo
    <3> SUFFICES ASSUME NEW p \in Ports, Current(y, p).open PROVE ~Current(y, p).set.stereo OBVIOUS
    <3>1. CASE Current(y, p) = Current(g, p) BY <3>1 DEF VoiceInv
    <3>2. CASE Current(y, p) = ports[p] /\ g.ports[p] # NoPort
      <4>1. p \in voiced(g.ports[p].set.chan) BY <1>3, <1>10, <3>2
      <4>2. ~IsStereo(g.ports[p].set, g) BY <1>7, <4>1
      <4> QED BY <1>3, <3>2, <4>2 DEF IsStereo
    <3> QED BY <1>15, <3>1, <3>2
  <2>2. \A c \in held \ stuck : g.rights[c] # "music"
    <3> SUFFICES ASSUME NEW c \in held \ stuck PROVE g.rights[c] # "music" OBVIOUS
    <3>1. CASE voiced(c) = {} /\ c \in g.held BY <1>6, <3>1 DEF VoiceInv
    <3>2. CASE \E p \in voiced(c) : wants(p) BY <1>7, <3>2 DEF IsStereo
    <3> QED BY <1>9, <3>1, <3>2
  <2> QED BY <1>14, <2>1, <2>2 DEF VoiceInv
<1>20. DriverInv(y) BY <1>14 DEF DriverInv
<1>21. IdleInv(y) BY <1>2, <1>14 DEF IdleInv, NoSession
<1>22. GraphInv(y) BY <1>13, <1>16, <1>17, <1>18, <1>19, <1>20
<1> HIDE DEF GraphInv
<1> QED BY <1>1, <1>2, <1>21, <1>22 DEF StepIsFine

\* Every step of the gateway keeps the invariant.
LEMMA GraphStep ==
  ASSUME GraphIInv, [GraphNext]_graphVars
  PROVE  GraphIInv'
<1>1. events' \in 0..MaxGraphEvents
  <2>1. Happens \/ events' = events
    BY DEF GraphNext, Answers, graphVars, Connect, Disconnect, Drop, Rejoin, Fatal, Directory,
           MusicFails, RoomJoined, StallsOnJoining, RoomStalls, RoomBack, SetPort, SetAsio, Listed, NotListed, Opened, NotOpened, Captured, GetIn,
           GetOut, WorkletLoaded, Bound, NotBound, HelperEnds, HelperCrashes, VoxTick
  <2> QED BY <2>1, GatewayAssumption DEF GraphIInv, GraphTypeOK, Happens
<1>2. StepIsFine
  <2>1. CASE UNCHANGED graphVars BY <2>1 DEF graphVars, GraphIInv, GraphTypeOK, StepIsFine
  <2>2. CASE Connect \/ Rejoin BY <2>2, JoinKeeps
  <2>3. CASE Disconnect BY <2>3, DisconnectKeeps
  <2>4. CASE Drop BY <2>4, DropKeeps
  <2>5. CASE Fatal BY <2>5, FatalKeeps
  <2>6. CASE \E c \in Chans, k \in {"talk", "music", "both", "none"} : Directory(c, k)
    BY <2>6, DirectoryKeeps
  <2>7. CASE \/ \E c \in Chans : MusicFails(c)
             \/ RoomJoined \/ StallsOnJoining \/ RoomStalls \/ RoomBack
    BY <2>7, MusicKeeps
  <2>8. CASE \/ \E p \in Ports, s \in PortSettings \cup {Off} : SetPort(p, s)
             \/ \E i \in Interfaces \cup {None} : SetAsio(i)
    BY <2>8, EditKeeps
  <2>9. CASE Listed \/ NotListed \/ Opened \/ NotOpened BY <2>9, DriverKeeps
  <2>10. CASE Captured \/ GetIn \/ GetOut BY <2>10, DevicesKeeps
  <2>11. CASE WorkletLoaded \/ Bound \/ NotBound BY <2>11, SocketsKeep
  <2>12. CASE (\E i \in Interfaces : HelperEnds(i)) \/ HelperCrashes BY <2>12, HelperKeeps
  <2>13. CASE \E S \in SUBSET Ports, due \in BOOLEAN : VoxTick(S, due) BY <2>13, VoxTickKeeps
  <2> QED BY <2>1, <2>2, <2>3, <2>4, <2>5, <2>6, <2>7, <2>8, <2>9, <2>10, <2>11, <2>12, <2>13
          DEF GraphNext, Answers
<1>3. g' \in Graphs BY <1>2 DEF StepIsFine, GraphInv
<1>4. GraphTypeOK' BY <1>1, <1>2, <1>3 DEF GraphTypeOK, StepIsFine
<1> QED BY <1>2, <1>4 DEF GraphIInv, StepIsFine

\* The gateway starts with nothing wired.
LEMMA GraphStart == GraphInit => GraphIInv
<1> SUFFICES ASSUME GraphInit PROVE GraphIInv OBVIOUS
<1>1. settings \in PageSettings /\ events = 0 BY DEF GraphInit
<1>2. g \in Graphs
  <2>1. [c \in Chans |-> "both"] \in [Chans -> {"talk", "music", "both", "none"}] OBVIOUS
  <2>2. [p \in Ports |-> "closed"] \in [Ports -> {"closed", "opening", "open"}] OBVIOUS
  <2>3. NoneWired \in AllPorts /\ 0 \in 0..NPorts BY PortFacts
  <2>4. NoMix("none") \in Mixes BY MixFacts DEF Rooms
  <2> QED BY <2>1, <2>2, <2>3, <2>4 DEF GraphInit, Graphs
<1>3. /\ g.status = "idle" /\ g.at = "none" /\ g.held = {} /\ g.keep = NoneWired
      /\ g.ports = NoneWired /\ g.next = 0 /\ g.slot = None /\ g.pending = None
      /\ g.rtp = [p \in Ports |-> "closed"] /\ ~g.timer /\ ~g.streams /\ ~g.sinks
  BY DEF GraphInit
<1>4. \A p \in Ports : Current(g, p) = NoPort /\ g.rtp[p] = "closed"
  BY <1>3, PortFacts DEF Current
<1>5. BuildInv(g) BY <1>3, PortFacts DEF BuildInv
<1>6. KeysInv(g) /\ SocketsInv(g) /\ VoiceInv(g) /\ DriverInv(g) /\ IdleInv(g)
  BY <1>3, <1>4, PortFacts DEF KeysInv, SocketsInv, VoiceInv, DriverInv, IdleInv
<1>7. GraphTypeOK BY <1>1, <1>2, GatewayAssumption DEF GraphTypeOK
<1> QED BY <1>2, <1>5, <1>6, <1>7 DEF GraphIInv, GraphInv

\* The inductive invariant holds throughout.
THEOREM GraphInvariant == GraphSpec => []GraphIInv
BY GraphStart, GraphStep, PTL DEF GraphSpec

\* The page's settings, the runtime and the main process stay well-formed.
THEOREM GraphTypeCorrect == GraphSpec => []GraphTypeOK
<1>1. GraphIInv => GraphTypeOK BY DEF GraphIInv
<1> QED BY <1>1, GraphInvariant, PTL

\* Through rewiring, teardown, rejoining and edits of rights, in any order with the answers
\* that build() awaits: a key that is down is that of a port whose voice tick heard somebody.
THEOREM KeysKeepAPort == GraphSpec => []KeysHaveAPort
<1>1. GraphIInv => KeysHaveAPort
  BY DEF GraphIInv, GraphInv, KeysInv, Current, KeysHaveAPort
<1> QED BY <1>1, GraphInvariant, PTL

\* The main process holds no socket that no port accounts for; without a session, and unless a
\* build was torn down half-way, nothing of the graph is left.
THEOREM NothingStaysOpen == GraphSpec => []NothingLeftOpen
<1>1. GraphIInv => NothingLeftOpen
  <2> SUFFICES ASSUME GraphIInv PROVE NothingLeftOpen OBVIOUS
  <2> USE DEF GraphIInv, GraphInv
  <2>1. \A p \in Ports : g.rtp[p] # "closed" =>
          p \in g.leaked \cup Wired(g) \/ g.keep[p] # NoPort
    BY DEF SocketsInv, Current, Wired
  <2>2. ASSUME NoSession(g), g.at = "none", ~g.torn
        PROVE  /\ ~g.timer /\ ~g.streams /\ ~g.sinks /\ g.slot = None /\ Wired(g) = {}
               /\ g.held \subseteq g.stuck
    <3>1. ~g.timer /\ ~g.streams /\ ~g.sinks /\ g.slot = None /\ g.ports = NoneWired
      BY <2>2 DEF IdleInv
    <3>2. Wired(g) = {} BY <3>1, PortFacts DEF Wired
    <3>3. \A p \in Ports : ~Current(g, p).open
      BY <2>2, <3>1, PortFacts DEF BuildInv, Current
    <3>4. g.held \subseteq g.stuck BY <3>3 DEF KeysInv
    <3> QED BY <3>1, <3>2, <3>4
  <2> QED BY <2>1, <2>2 DEF NothingLeftOpen, NoSession
<1> QED BY <1>1, GraphInvariant, PTL
=============================================================================
