----------------------------- MODULE LineFailover -----------------------------
(***************************************************************************)
(* The backup internet line of the comms gateway: the watcher in its page  *)
(* (src/failover.ts), the main process that tells Windows by PowerShell    *)
(* which adapter to prefer (electron/netfail.ts), and the intercom         *)
(* connection that goes over whichever adapter Windows then picks.         *)
(*                                                                         *)
(* Preferring an adapter takes a script that runs for up to 20 seconds,    *)
(* while the page goes on ticking, the user edits the settings and the     *)
(* lines come and go; two scripts may run at once.                         *)
(***************************************************************************)
EXTENDS Naturals, FiniteSets

CONSTANTS
  Adapters,      \* the network adapters of the PC
  Natural,       \* the one Windows picks on automatic metrics
  Automatic,          \* automatic metrics; also "no adapter"
  BadTicks, OfflineTicks,   \* BAD_TICKS, and the 5 of the disconnected count
  Half, Minute,  \* 30 s and 60 s, in ticks
  Short,         \* 3 minutes, in ticks
  Hold, MaxHold, \* MIN_BACKUP_MS and MAX_BACKUP_MS, in ticks
  MaxEvents      \* bound: what users and the network do

ASSUME LineAssumption ==
  /\ Natural \in Adapters /\ Automatic \notin Adapters
  /\ {BadTicks, OfflineTicks, Half, Minute, Short, Hold, MaxHold, MaxEvents} \subseteq Nat
  /\ Half <= Hold /\ Minute <= Hold /\ Hold <= MaxHold

VARIABLES
  line,      \* the LineFailover object
  calls,     \* its netPrefer calls under way: one of switchTo, two of configure
  net,       \* Windows' metrics (pref) and `changed` of the main process; as history, whether
             \* the gateway ever set metrics (touched), the last word about them was not
             \* true (loose), and it ended by app.exit(0) (exited)
  quality,   \* what each adapter is worth now
  conn,      \* the adapter the intercom connection goes over, or Automatic
  seen,      \* linkNow says that audio is being lost
  quit,      \* the gateway was closed
  blurred,   \* (history) pref may differ from what the state says
  n          \* events so far

vars == <<line, calls, net, quality, conn, seen, quit, blurred, n>>
world == <<net, quality, conn, seen, quit>>

Slots == {"switch", "edit1", "edit2"}
NoCall == [at |-> "none"]
Settings == {c \in [main : Adapters, backup : Adapters] : c.main # c.backup}
NoSettings == [main |-> Automatic, backup |-> Automatic]
Calls == {NoCall} \cup
  [at : {"sent", "ok", "failed"}, want : Adapters \cup {Automatic},
   to : {"start", "off", "main", "backup"}, short : BOOLEAN, alone : BOOLEAN]

TypeOK ==
  /\ line \in [state : {"off", "main", "backup", "error"}, cfg : Settings \cup {NoSettings},
               bad : 0..BadTicks, gone : 0..OfflineTicks, since : 0..(MaxHold + 1),
               hold : Hold..MaxHold, back : 0..Short]
  /\ calls \in [Slots -> Calls]
  /\ net \in [pref : Adapters \cup {Automatic}, changed : BOOLEAN, touched : BOOLEAN,
              loose : BOOLEAN, exited : BOOLEAN]
  /\ quality \in [Adapters -> {"good", "lossy", "dead", "out"}]
  /\ conn \in Adapters \cup {Automatic}
  /\ {seen, quit, blurred} \subseteq BOOLEAN
  /\ n \in 0..MaxEvents

Event == ~quit /\ n < MaxEvents /\ n' = n + 1
Quiet(cs) == \A s \in Slots : cs[s] = NoCall
On == line.cfg # NoSettings

\* The adapter new connections leave by, or Automatic if none is plugged in.
Route(pref) ==
  LET plugged == {x \in Adapters : quality[x] # "out"}
  IN IF pref \in plugged THEN pref
     ELSE IF Natural \in plugged \/ plugged = {} THEN (IF plugged = {} THEN Automatic ELSE Natural)
     ELSE CHOOSE x \in plugged : TRUE
Carries(x) == x # Automatic /\ quality[x] \in {"good", "lossy"}

\* The metrics found may be automatic or set: by hand, or by a gateway that ended before.
Init ==
  /\ line = [state |-> "off", cfg |-> NoSettings, bad |-> 0, gone |-> 0, since |-> 0,
             hold |-> Hold, back |-> Short]
  /\ calls = [s \in Slots |-> NoCall]
  /\ quality = [x \in Adapters |-> "good"]
  /\ \E x \in Adapters \cup {Automatic} :
       /\ net = [pref |-> x, changed |-> FALSE, touched |-> FALSE, loose |-> FALSE, exited |-> FALSE]
       /\ conn = IF x = Automatic THEN Natural ELSE x
  /\ seen = FALSE /\ quit = FALSE /\ blurred = FALSE /\ n = 0

-----------------------------------------------------------------------------
(* Asking Windows.                                                         *)

\* netPrefer(alias) begins: a script of its own, whatever else is running.
Disturbed ==
  [s \in Slots |-> IF calls[s] = NoCall THEN NoCall ELSE [calls[s] EXCEPT !.alone = FALSE]]
Asked(slot, alias, to, short) ==
  [Disturbed EXCEPT ![slot] = [at |-> "sent", want |-> alias, to |-> to, short |-> short,
                               alone |-> Quiet(calls)]]

\* The script changes the metrics of every adapter, or throws because the one
\* that is wanted is not connected.  It runs on when the gateway is closed.
Applies(s) ==
  /\ calls[s].at = "sent"
  /\ LET c  == calls[s]
         ok == c.want = Automatic \/ quality[c.want] # "out"
     IN /\ calls' = [calls EXCEPT ![s].at = IF ok THEN "ok" ELSE "failed"]
        /\ net' = IF ok THEN [net EXCEPT !.pref = c.want, !.touched = TRUE] ELSE net
  /\ UNCHANGED <<line, quality, conn, seen, quit, blurred, n>>

\* It fails on the way: no rights, the 20 seconds are over, an adapter that
\* refuses; some metrics may have been changed already.
ScriptFails(s) ==
  /\ Event /\ calls[s].at = "sent"
  /\ calls' = [calls EXCEPT ![s].at = "failed"]
  /\ net' \in {net, [net EXCEPT !.pref = calls[s].want, !.touched = TRUE, !.loose = TRUE]}
  /\ blurred' = TRUE
  /\ UNCHANGED <<line, quality, conn, seen, quit>>

\* use() failed: the state says so, whatever it was; since stays as it is.
Failed(l) == [l EXCEPT !.state = "error"]

\* The rest of switchTo(): the new state is taken, and the connection is made
\* anew so that it leaves by the new line.
Switched(l, c) ==
  [l EXCEPT !.state = c.to,
            !.hold = IF c.to # "backup" THEN @
                     ELSE IF ~c.short THEN Hold
                     ELSE IF 2 * @ > MaxHold THEN MaxHold ELSE 2 * @,
            !.back = IF c.to = "main" THEN 0 ELSE @,
            !.since = 0, !.bad = 0, !.gone = 0]

\* The main process hears that the script ended, notes that the metrics are no
\* longer automatic, and answers the page.
NotedLess(c) ==  \* (Variant) only a switch is noted, not the start on the main line
  IF c.at = "ok" THEN c.to \in {"main", "backup"} ELSE net.changed
Noted(c) == IF c.at = "ok" THEN c.want # Automatic ELSE net.changed
Returns(s) ==
  /\ ~quit /\ calls[s].at \in {"ok", "failed"}
  /\ LET c  == calls[s]
         ok == c.at = "ok"
         switching == c.to \in {"main", "backup"}
     IN /\ calls' = [calls EXCEPT ![s] = NoCall]
        /\ net' = [net EXCEPT !.changed = Noted(c), !.loose = IF ok THEN net.pref # c.want ELSE @]
        /\ line' = CASE ok /\ switching -> Switched(line, c)
                     [] ~ok /\ c.to # "off" -> Failed(line)
                     [] OTHER -> line
        /\ conn' = IF ok /\ switching THEN Automatic ELSE conn
        /\ blurred' = (blurred /\ ~(ok /\ c.alone))
  /\ UNCHANGED <<quality, seen, quit, n>>

-----------------------------------------------------------------------------
(* The watcher.                                                            *)

\* The settings change: the watcher stops, starts or is aimed again.  A switch
\* under way goes on, and so does the script of an earlier change.
SwitchOff ==
  /\ Event /\ On
  /\ line' = [line EXCEPT !.cfg = NoSettings, !.state = "off"]
  /\ IF line.state = "backup"
     THEN \E s \in {"edit1", "edit2"} : calls[s] = NoCall /\ calls' = Asked(s, Automatic, "off", FALSE)
     ELSE calls' = Disturbed
  /\ blurred' = (blurred \/ ~Quiet(calls))
  /\ UNCHANGED world
ConfigureOnce(c) ==  \* (Variant) only a watcher that was off prefers the main line
  /\ Event /\ c # line.cfg
  /\ line' = [line EXCEPT !.cfg = c, !.state = "main", !.bad = 0, !.gone = 0, !.since = 0]
  /\ \E s \in {"edit1", "edit2"} :
       calls[s] = NoCall /\ calls' = IF On THEN calls ELSE Asked(s, c.main, "start", FALSE)
  /\ blurred' = (blurred \/ ~Quiet(calls))
  /\ UNCHANGED world
Configure(c) ==
  /\ Event /\ c # line.cfg
  /\ line' = [line EXCEPT !.cfg = c, !.state = "main", !.bad = 0, !.gone = 0, !.since = 0]
  /\ \E s \in {"edit1", "edit2"} : calls[s] = NoCall /\ calls' = Asked(s, c.main, "start", FALSE)
  /\ blurred' = (blurred \/ ~Quiet(calls))
  /\ UNCHANGED world

\* switchTo(which): nobody switches while a switch is under way.
SwitchTo(l, which) ==
  /\ line' = l
  /\ calls' = Asked("switch", IF which = "main" THEN l.cfg.main ELSE l.cfg.backup, which,
                    which = "backup" /\ l.back < Short)
  /\ blurred' = (blurred \/ ~Quiet(calls))
Idle == calls["switch"] = NoCall

\* A tick comes every two seconds.  One that would take a connection for gone
\* while it could be made, or a loss for lasting that is no longer measured, does
\* not come before the engine (it joins within 5 s and measures every 2 s).
InTime ==
  /\ line.gone + 1 >= OfflineTicks /\ conn = Automatic => ~Carries(Route(net.pref))
  /\ line.bad + 1 >= BadTicks /\ conn # Automatic /\ seen => quality[conn] = "lossy"
Capped(k, top) == IF k < top THEN k + 1 ELSE k
Aged(l) == [l EXCEPT !.since = Capped(@, MaxHold + 1), !.back = Capped(@, Short)]
Measured(l) ==
  [l EXCEPT !.gone = IF conn # Automatic THEN 0 ELSE Capped(@, OfflineTicks),
            !.bad = IF conn # Automatic /\ seen THEN Capped(@, BadTicks) ELSE 0]
Trouble(l) == l.bad >= BadTicks \/ l.gone >= OfflineTicks
MayTryMainWell(l) ==  \* (Variant) the main line is tried only while the backup is good
  ~Trouble(l) /\ l.since >= l.hold
MayTryMain(l) == (Trouble(l) /\ l.since > Half) \/ (~Trouble(l) /\ l.since >= l.hold)
Tick ==
  /\ ~quit /\ On /\ InTime
  /\ LET l == IF Idle THEN Measured(Aged(line)) ELSE Aged(line)
     IN CASE ~Idle -> line' = l /\ UNCHANGED <<calls, blurred>>
          [] Idle /\ l.state = "main" /\ Trouble(l) -> SwitchTo(l, "backup")
          [] Idle /\ l.state = "backup" /\ MayTryMain(l) -> SwitchTo(l, "main")
          [] Idle /\ l.state = "error" /\ l.since > Minute ->
               \* retried as if it were the main line, wherever Windows is
               /\ line' = [l EXCEPT !.state = "main", !.since = 0]
               /\ blurred' = TRUE /\ UNCHANGED calls
          [] OTHER -> line' = l /\ UNCHANGED <<calls, blurred>>
  /\ UNCHANGED <<world, n>>

\* The button that proves that the PC can switch.
TestSwitch ==
  /\ Event /\ On /\ Idle
  /\ SwitchTo(line, IF line.state = "backup" THEN "main" ELSE "backup")
  /\ UNCHANGED world

-----------------------------------------------------------------------------
(* The engine, the lines and the end.                                      *)

\* No answer to its pings: the connection is given up.
Drops ==
  /\ ~quit /\ conn # Automatic /\ ~Carries(conn) /\ conn' = Automatic
  /\ UNCHANGED <<line, calls, net, quality, seen, quit, blurred, n>>
\* The next attempt goes over the route Windows picks now.
Joins ==
  /\ ~quit /\ conn = Automatic /\ Carries(Route(net.pref)) /\ conn' = Route(net.pref)
  /\ UNCHANGED <<line, calls, net, quality, seen, quit, blurred, n>>
\* linkTick(): until then linkNow is what the last connection measured.
Measures ==
  /\ ~quit /\ conn # Automatic /\ Carries(conn) /\ seen' = (quality[conn] = "lossy") /\ seen' # seen
  /\ UNCHANGED <<line, calls, net, quality, conn, quit, blurred, n>>

LineTurns(x, q) ==
  /\ Event /\ quality[x] # q /\ quality' = [quality EXCEPT ![x] = q]
  /\ UNCHANGED <<line, calls, net, conn, seen, quit, blurred>>

\* before-quit makes the metrics automatic; scripts under way are not waited for.
Quit ==
  /\ Event /\ quit' = TRUE
  /\ net' = IF net.changed THEN [net EXCEPT !.pref = Automatic] ELSE net
  /\ UNCHANGED <<line, calls, quality, conn, seen, blurred>>

\* "Restart to apply", "Restart as administrator", the automatic choice of TCP: the
\* gateway ends by app.exit(0), and nobody hears of before-quit.
Relaunch ==
  /\ Event /\ quit' = TRUE /\ net' = [net EXCEPT !.exited = TRUE]
  /\ UNCHANGED <<line, calls, quality, conn, seen, blurred>>

System == \/ \E s \in Slots : Applies(s) \/ Returns(s)
          \/ Tick \/ Drops \/ Joins \/ Measures
Next ==
  \/ System
  \/ \E s \in Slots : ScriptFails(s)
  \/ SwitchOff \/ TestSwitch \/ Quit \/ Relaunch
  \/ \E c \in Settings : Configure(c)
  \/ \E x \in Adapters, q \in {"good", "lossy", "dead", "out"} : LineTurns(x, q)

\* Timers fire, scripts end, the engine keeps trying and measuring.
Spec == /\ Init /\ [][Next]_vars
        /\ \A s \in Slots : WF_vars(Applies(s)) /\ WF_vars(Returns(s))
        /\ WF_vars(Tick) /\ WF_vars(Drops) /\ WF_vars(Joins) /\ WF_vars(Measures)

-----------------------------------------------------------------------------
(* Properties.                                                             *)

\* What the Home page shows is the line Windows prefers ("BACKUP", "main"), once
\* no script is under way and since the last switch that ran by itself and
\* worked.
LineAgrees ==
  Quiet(calls) /\ ~quit /\ ~blurred =>
    /\ line.state = "main" => net.pref = line.cfg.main
    /\ line.state = "backup" => net.pref = line.cfg.backup

\* With the watcher on, and one line good for ever while the other is not, the
\* connection is made over the good line again and again, whatever went wrong
\* before.
FindsTheGoodLine ==
  \A g \in Adapters :
    <>[](/\ On /\ ~quit /\ quality[g] = "good"
         /\ \A x \in Adapters \ {g} : quality[x] # "good")
      => []<>(conn = g)

\* "Leave the PC's network the way it was found", as far as the code goes: once closed with
\* no script under way, a gateway that ever set metrics leaves automatic ones, however its
\* scripts overlapped, unless the last answer about them was untrue (loose): a script failed
\* half-way, or had been overtaken by the time it was answered.
LeftAsFound ==
  quit /\ ~net.exited /\ Quiet(calls) /\ ~net.loose => ~net.touched \/ net.pref = Automatic

(* What the code does not guarantee; every one is refuted by TLC.          *)

\* A failed switch back ends in "error", and a minute later the page shows the
\* main line while Windows prefers the backup.
ShownIsPreferred ==
  Quiet(calls) /\ ~quit /\ line.state = "main" => net.pref = line.cfg.main
\* Switched off during a switch: the answer sets the state again.
OffIsOff == ~On => line.state = "off"
\* Two scripts, or one cut short, may leave the metrics changed for good.
AlwaysLeftAsFound ==
  quit /\ ~net.exited /\ Quiet(calls) => ~net.touched \/ net.pref = Automatic
\* One that starts itself again leaves them to its successor, who takes them for found.
ExitLeavesNothing ==
  quit /\ Quiet(calls) /\ ~net.loose => ~net.touched \/ net.pref = Automatic
\* Metrics that were set when the gateway came are automatic when it goes.
LeftAsItWas ==
  \A m \in Adapters \cup {Automatic} :
    net.pref = m => [](quit /\ ~net.exited /\ Quiet(calls) /\ ~net.loose => net.pref = m)
\* A script under way when the gateway is closed changes the metrics after it.
NobodyChangesAfterQuit == [][quit => UNCHANGED net]_vars
=============================================================================
