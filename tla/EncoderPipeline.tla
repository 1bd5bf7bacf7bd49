-------------------------- MODULE EncoderPipeline --------------------------
(***************************************************************************)
(* The threads of one encoder process and the queues between them          *)
(* (src/cpp/src/main.cpp, src/cpp/include/frame_queue.h), streaming to a   *)
(* network destination:                                                    *)
(*                                                                         *)
(*   capture --> vq --> vworker --> netq --> netout --> the outputs        *)
(*          \--> aq --> aworker --/                                        *)
(*                      vworker --> previewq --> pworker                   *)
(*                                                                         *)
(* The main thread starts the workers, and when it is told to stop takes   *)
(* the whole down in a fixed order: its Script.  Each queue method holds   *)
(* the queue's mutex, so it is one step.                                   *)
(*                                                                         *)
(* A frame is its kind and its number.  The encoders make one packet of    *)
(* each frame.                                                             *)
(***************************************************************************)
EXTENDS Naturals, Sequences

CONSTANTS VideoCap, AudioCap, NetCap, PreviewCap,  \* 8, 64, 256 and 2 in main.cpp
          MaxFrames     \* bound: frames captured, of each kind

Kinds == {"video", "audio"}
Frames == [kind : Kinds, n : Nat \ {0}]
Queues == {"vq", "aq", "netq", "previewq"}
Workers == {"vworker", "aworker", "pworker", "netout"}

ASSUME CapacityAssumption ==
  /\ VideoCap \in Nat \ {0} /\ AudioCap \in Nat \ {0}
  /\ NetCap \in Nat \ {0} /\ PreviewCap \in Nat \ {0}
  /\ MaxFrames \in [Kinds -> Nat]

Capacity == [vq |-> VideoCap, aq |-> AudioCap, netq |-> NetCap, previewq |-> PreviewCap]
Source == [vworker |-> "vq", aworker |-> "aq", pworker |-> "previewq", netout |-> "netq"]
CaptureQueue == [video |-> "vq", audio |-> "aq"]

VARIABLES
  queue, closed, dropped,   \* the four FrameQueues: q_, closed_, dropped_
  place,      \* where each worker is: "unborn", "top" of its loop, in "pop",
              \* at "work", "encode" (vworker only, after its preview) or "done"
  hand,       \* the frames each worker has popped and not dealt with: <<>> or one
  stopped,    \* request_stop was called on its jthread
  main,       \* the next step of Script
  capturing,
  captured,   \* how many frames of each kind have been captured
  cleared,    \* how many were discarded by clear()
  sent        \* what netout has written, in order

queues == <<queue, closed, dropped>>
pipelineVars == <<queues, place, hand, stopped, main, capturing, captured, cleared, sent>>

\* What the main thread does once capture is running.
Start(w) == [op |-> "start", on |-> w]
Clear(q) == [op |-> "clear", on |-> q]
Close(q) == [op |-> "close", on |-> q]
Stop(w) == [op |-> "request_stop", on |-> w]
Join(w) == [op |-> "join", on |-> w]
AwaitStop == [op |-> "await", on |-> "g_stop"]    \* the heartbeat loop
StopCapture == [op |-> "stop", on |-> "capture"]

Startup ==
  <<Start("netout"), Clear("vq"), Clear("aq"),
    Start("pworker"), Start("vworker"), Start("aworker"), AwaitStop>>
\* Variant: vworker is joined before its queue is closed.
ScriptJoiningEarly ==
  Startup \o
  <<StopCapture, Stop("vworker"), Join("vworker"), Close("vq"), Close("aq"),
    Stop("aworker"), Join("aworker"), Close("netq"), Close("previewq"),
    Stop("pworker"), Join("pworker"), Stop("netout"), Join("netout")>>
\* The last two steps are netout's destructor at the end of main().
Script ==
  Startup \o
  <<StopCapture, Close("vq"), Close("aq"), Stop("vworker"), Join("vworker"),
    Stop("aworker"), Join("aworker"), Close("netq"), Close("previewq"),
    Stop("pworker"), Join("pworker"), Stop("netout"), Join("netout")>>

Returned == main > Len(Script)
StopAsked == Returned \/ main > Len(Startup)

PipelineTypeOK ==
  /\ queue \in [Queues -> Seq(Frames)] /\ hand \in [Workers -> Seq(Frames)]
  /\ sent \in Seq(Frames)
  /\ \A q \in Queues : Len(queue[q]) <= Capacity[q]
  /\ closed \in [Queues -> BOOLEAN] /\ dropped \in [Queues -> Nat]
  /\ place \in [Workers -> {"unborn", "top", "pop", "work", "encode", "done"}]
  /\ \A w \in Workers : Len(hand[w]) = IF place[w] \in {"work", "encode"} THEN 1 ELSE 0
  /\ stopped \in [Workers -> BOOLEAN]
  /\ main \in 1..(Len(Script) + 1)
  /\ capturing \in BOOLEAN /\ cleared \in Nat
  /\ captured \in [Kinds -> Nat] /\ \A k \in Kinds : captured[k] <= MaxFrames[k]

PipelineInit ==
  /\ queue = [q \in Queues |-> <<>>]
  /\ closed = [q \in Queues |-> FALSE] /\ dropped = [q \in Queues |-> 0]
  /\ place = [w \in Workers |-> "unborn"]
  /\ hand = [w \in Workers |-> <<>>] /\ stopped = [w \in Workers |-> FALSE]
  /\ main = 1 /\ capturing = TRUE
  /\ captured = [k \in Kinds |-> 0] /\ cleared = 0 /\ sent = <<>>

-----------------------------------------------------------------------------
(* FrameQueue.                                                             *)

PushDroppingNewest(q, f) ==  \* (variant: what does not fit is not queued)
  /\ IF closed[q] THEN UNCHANGED <<queue, dropped>>
     ELSE IF Len(queue[q]) < Capacity[q]
     THEN queue' = [queue EXCEPT ![q] = Append(@, f)] /\ UNCHANGED dropped
     ELSE dropped' = [dropped EXCEPT ![q] = @ + 1] /\ UNCHANGED queue
  /\ UNCHANGED closed
Push(q, f) ==
  /\ IF closed[q] THEN UNCHANGED <<queue, dropped>>
     ELSE IF Len(queue[q]) < Capacity[q]
     THEN queue' = [queue EXCEPT ![q] = Append(@, f)] /\ UNCHANGED dropped
     ELSE /\ queue' = [queue EXCEPT ![q] = Append(Tail(@), f)]
          /\ dropped' = [dropped EXCEPT ![q] = @ + 1]
  /\ UNCHANGED closed

-----------------------------------------------------------------------------
(* The threads.                                                            *)

\* The callback of the capture device, on its thread.
Capture(k) ==
  /\ capturing /\ captured[k] < MaxFrames[k]
  /\ captured' = [captured EXCEPT ![k] = @ + 1]
  /\ Push(CaptureQueue[k], [kind |-> k, n |-> captured'[k]])
  /\ UNCHANGED <<place, hand, stopped, main, capturing, cleared, sent>>

\* `while (!st.stop_requested())`
LoopTop(w) ==
  /\ place[w] = "top"
  /\ place' = [place EXCEPT ![w] = IF stopped[w] THEN "done" ELSE "pop"]
  /\ UNCHANGED <<queues, hand, stopped, main, capturing, captured, cleared, sent>>

\* pop() returns a frame ...
Takes(w) ==
  LET items == queue[Source[w]] IN
  /\ place[w] = "pop" /\ items # <<>>
  /\ hand' = [hand EXCEPT ![w] = <<Head(items)>>]
  /\ queue' = [queue EXCEPT ![Source[w]] = Tail(@)]
  /\ place' = [place EXCEPT ![w] = "work"]
  /\ UNCHANGED <<closed, dropped, stopped, main, capturing, captured, cleared, sent>>

\* ... or nullopt, and the loop ends.
Leaves(w) ==
  /\ place[w] = "pop" /\ queue[Source[w]] = <<>> /\ closed[Source[w]]
  /\ place' = [place EXCEPT ![w] = "done"]
  /\ UNCHANGED <<queues, hand, stopped, main, capturing, captured, cleared, sent>>

BackToTop(w) ==
  /\ place' = [place EXCEPT ![w] = "top"] /\ hand' = [hand EXCEPT ![w] = <<>>]
  /\ UNCHANGED <<stopped, main, capturing, captured, cleared>>

\* vworker hands a copy to the preview before it encodes.
Preview ==
  /\ place["vworker"] = "work"
  /\ Push("previewq", hand["vworker"][1])
  /\ place' = [place EXCEPT !["vworker"] = "encode"]
  /\ UNCHANGED <<hand, stopped, main, capturing, captured, cleared, sent>>

\* do_write_video, do_write_audio.
Encoded(w) ==
  /\ \/ w = "vworker" /\ place[w] = "encode"
     \/ w = "aworker" /\ place[w] = "work"
  /\ Push("netq", hand[w][1])
  /\ BackToTop(w)
  /\ UNCHANGED sent

\* netout has written to the outputs, pworker to stdout.
Written(w) ==
  /\ w \in {"netout", "pworker"} /\ place[w] = "work"
  /\ sent' = IF w = "netout" THEN sent \o hand[w] ELSE sent
  /\ BackToTop(w)
  /\ UNCHANGED queues

\* One step of the main thread.  g_stop is set by a signal.
MainStep ==
  /\ ~Returned
  /\ LET op == Script[main].op
         on == Script[main].on
     IN /\ op = "join" => place[on] = "done"
        /\ place' = IF op = "start" THEN [place EXCEPT ![on] = "top"] ELSE place
        /\ IF op = "clear"
           THEN /\ queue' = [queue EXCEPT ![on] = <<>>]
                /\ cleared' = cleared + Len(queue[on])
           ELSE UNCHANGED <<queue, cleared>>
        /\ closed' = IF op = "close" THEN [closed EXCEPT ![on] = TRUE] ELSE closed
        /\ stopped' = IF op = "request_stop" THEN [stopped EXCEPT ![on] = TRUE] ELSE stopped
        /\ capturing' = (capturing /\ op # "stop")
  /\ main' = main + 1
  /\ UNCHANGED <<dropped, hand, captured, sent>>

WorkerStep(w) ==
  LoopTop(w) \/ Takes(w) \/ Leaves(w) \/ Encoded(w) \/ Written(w)

PipelineNext ==
  \/ \E k \in Kinds : Capture(k)
  \/ \E w \in Workers : WorkerStep(w)
  \/ Preview
  \/ MainStep

PipelineSpec == PipelineInit /\ [][PipelineNext]_pipelineVars

(* Fairness: a thread that can go on does.  Nobody has to capture, or to   *)
(* set g_stop.                                                             *)
PipelineFairSpec ==
  /\ PipelineSpec
  /\ WF_pipelineVars(Preview)
  /\ WF_pipelineVars(main # Len(Startup) /\ MainStep)
  /\ \A w \in Workers : WF_pipelineVars(WorkerStep(w))

-----------------------------------------------------------------------------
(* Properties.                                                             *)

\* The frames of kind k in s, in ascending order.
Ascending(s, k) ==
  \A i, j \in DOMAIN s : i < j /\ s[i].kind = k /\ s[j].kind = k => s[i].n < s[j].n

\* Everything on its way from the capture of kind k to the outputs, oldest first
\* (from netq on, video and audio go together).
Path(k) ==
  sent \o hand["netout"] \o queue["netq"]
    \o hand[IF k = "video" THEN "vworker" ELSE "aworker"] \o queue[CaptureQueue[k]]

\* Whatever is dropped on the way, what comes out is in the order captured and
\* comes out once.
InOrder == \A k \in Kinds : Ascending(Path(k), k)

\* Under pressure a capture queue holds the latest frames, without a gap
\* (frame_queue.h: "If queue is full, drops the oldest frame").
LatestAreKept ==
  \A k \in Kinds :
    LET items == queue[CaptureQueue[k]]
    IN \A i \in DOMAIN items : items[i].n = captured[k] - (Len(items) - i)

\* Every captured frame is on its way, or was counted by a queue that dropped it,
\* or was thrown away on purpose before the workers started: the vq_drop,
\* aq_drop and netq_drop of the statistics tell the whole loss.
EveryLossIsCounted ==
  captured["video"] + captured["audio"] =
    Len(Path("video")) + Len(hand["aworker"]) + Len(queue["aq"])
      + dropped["vq"] + dropped["aq"] + dropped["netq"] + cleared

\* main.cpp, shutdown step 3: the workers "must fully stop pushing into
\* netq/previewq BEFORE those are closed".
ProducersEndFirst ==
  closed["netq"] \/ closed["previewq"] => place["vworker"] = "done" /\ place["aworker"] = "done"

\* Once it is told to stop the process ends, wherever its threads are.
Ends == StopAsked ~> Returned

\* main.cpp, shutdown step 4: "netout/pworker see nullopt and exit after
\* draining".
DrainedAtTheEnd == Returned => queue["netq"] = <<>>

\* Whatever the queues drop under pressure, the frames stay in order, the latest
\* ones are kept, every loss is counted, and nobody pushes into a queue that main
\* has closed.
FramesAreAccounted ==
  PipelineTypeOK /\ InOrder /\ LatestAreKept /\ EveryLossIsCounted /\ ProducersEndFirst
=============================================================================
