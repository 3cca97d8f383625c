------------------------------ MODULE VirtualCamera ------------------------------
(***************************************************************************)
(* The virtual camera inside the Frame Server (windows/vcam): MediaSource, *)
(* its one MediaStream with the frame thread, and the FrameSource that     *)
(* reads the shared-memory ring.                                           *)
(*                                                                         *)
(* Three threads of the Frame Server call in: "source" runs the source's   *)
(* Start, Stop and Pause, "stream" sets the stream's state, "shutdown"     *)
(* shuts the source down once, at any time.  A consumer requests samples.  *)
(* A step ends where the code takes or releases lifecycleMutex_ or mutex_, *)
(* waits for the frame thread, or calls into FrameSource.                  *)
(***************************************************************************)
EXTENDS Naturals, Sequences

CONSTANTS Formats,      \* the media types the stream offers
          NoFormat,
          Cap,          \* kMaxPendingRequests
          MaxRequests,  \* bound: samples requested
          MaxSourceCalls,  \* bound: calls of the source's Start, Stop, Pause
          MaxStreamCalls   \* bound: calls of SetStreamState

ASSUME CapAssumption == Cap \in Nat \ {0}
ASSUME NoFormatApart == NoFormat \notin Formats
ASSUME BoundsAssumption ==
    MaxRequests \in Nat /\ MaxSourceCalls \in Nat /\ MaxStreamCalls \in Nat

Callers == {"source", "stream", "shutdown"}

VARIABLES
    \* MediaSource
    sourceShut, started, was,
    event,       \* the source's last event
    announced,   \* MENewStream was queued
    \* MediaStream
    shut, running, format, tokens, stopEvent, lifecycle,
    \* the frame thread: where it is, its format and the request it holds
    worker, fmt, held,
    \* FrameSource and its ring
    ring,        \* ring_ is open
    request,     \* the geometry the ring's generation asks its producer for
    cache,       \* requestedWidth_ x requestedHeight_
    \* the callers
    pc, want, calls,
    \* the consumer
    requested, sample

sourceVars == <<sourceShut, started, was, event, announced>>
streamVars == <<shut, running, format, tokens, stopEvent>>
workerVars == <<worker, fmt, held>>
ringVars == <<ring, request, cache>>
callVars == <<pc, want, calls>>
consumerVars == <<requested, sample>>
vars == <<sourceVars, streamVars, lifecycle, workerVars, ringVars, callVars,
          consumerVars>>

-----------------------------------------------------------------------------
Free == "free"
NoSample == [id |-> 0, pixels |-> NoFormat]

Init ==
    /\ sourceShut = FALSE /\ started = FALSE /\ was = FALSE
    /\ event = "none" /\ announced = FALSE
    /\ shut = FALSE /\ running = FALSE /\ format \in Formats
    /\ tokens = <<>> /\ stopEvent = FALSE /\ lifecycle = Free
    /\ worker = "none" /\ fmt = NoFormat /\ held = 0
    /\ ring = FALSE /\ request = NoFormat /\ cache = NoFormat
    /\ pc = [c \in Callers |-> "idle"]
    /\ want = NoFormat /\ calls = [c \in Callers |-> 0]
    /\ requested = 0 /\ sample = NoSample

Goto(c, place) == pc' = [pc EXCEPT ![c] = place] /\ UNCHANGED <<want, calls>>
At(c, from, to) == pc[c] = from /\ Goto(c, to)

(* lifecycleMutex_ *)
Lock(c) == lifecycle = Free /\ lifecycle' = c
LockIgnored(c) == UNCHANGED lifecycle   \* mutant: Configure takes no lock
ConfigureLock(c) == Lock(c)
Unlock(c) == lifecycle' = IF lifecycle = c THEN Free ELSE lifecycle

(* Where the stream's Start, Stop and a failure of Start return to. *)
StartReturns(c) == IF c = "source" THEN "startedEvent" ELSE "idle"
StopReturns(c) ==
    CASE c = "source" -> "stoppedEvent" [] c = "stream" -> "idle"
      [] c = "shutdown" -> "mark"
StartFails(c) == IF c = "source" THEN "failed" ELSE "idle"

(* The frame thread has ended, or there is none to join. *)
Joins == worker \in {"none", "ended"}
Detaches == TRUE   \* mutant: the frame thread is not waited for
StopJoins == Joins

-----------------------------------------------------------------------------
(* MediaSource::Start, up to the stream's Configure ... *)
SourceStart(f) ==
    /\ pc["source"] = "idle" /\ calls["source"] < MaxSourceCalls /\ ~sourceShut
    /\ was' = started /\ started' = TRUE
    /\ want' = f
    /\ pc' = [pc EXCEPT !["source"] = "configure"]
    /\ calls' = [calls EXCEPT !["source"] = @ + 1]
    /\ UNCHANGED <<sourceShut, event, announced, streamVars, lifecycle,
                   workerVars, ringVars, consumerVars>>

(* ... Configure, which refuses another format while the stream runs ... *)
ConfigureBegin ==
    /\ pc["source"] = "configure"
    /\ IF shut \/ (running /\ format # want)
       THEN /\ lifecycle = Free /\ UNCHANGED <<lifecycle, calls>>
            /\ pc' = [pc EXCEPT !["source"] = "failed"] /\ want' = NoFormat
       ELSE ConfigureLock("source") /\ Goto("source", "setType")
    /\ UNCHANGED <<sourceVars, streamVars, workerVars, ringVars, consumerVars>>

ConfigureEnd ==
    /\ pc["source"] = "setType"
    /\ \/ /\ ~shut /\ format' = want
          /\ pc' = [pc EXCEPT !["source"] = "newStream"]
       \/ UNCHANGED format /\ pc' = [pc EXCEPT !["source"] = "failed"]
    /\ want' = NoFormat /\ UNCHANGED calls
    /\ Unlock("source")
    /\ UNCHANGED <<sourceVars, shut, running, tokens, stopEvent, workerVars,
                   ringVars, consumerVars>>

(* ... and the events, in an order a consumer depends on.  The source's queue *)
(* takes none once Shutdown has closed it, its last step.                     *)
QueueOpen == pc["shutdown"] # "done"

NewStream ==
    /\ \/ /\ QueueOpen
          /\ event' = IF was THEN "updated" ELSE "new"
          /\ announced' = (announced \/ ~was)
          /\ At("source", "newStream", "streamEvent")
       \/ /\ ~QueueOpen /\ At("source", "newStream", "failed")
          /\ UNCHANGED <<event, announced>>
    /\ UNCHANGED <<sourceShut, started, was, streamVars, lifecycle, workerVars,
                   ringVars, consumerVars>>

StreamEvent ==
    /\ At("source", "streamEvent", IF shut THEN "failed" ELSE "start")
    /\ UNCHANGED <<sourceVars, streamVars, lifecycle, workerVars, ringVars,
                   consumerVars>>

StartedEvent ==
    /\ \/ /\ QueueOpen
          /\ event' = IF was THEN "seeked" ELSE "started"
          /\ At("source", "startedEvent", "idle") /\ was' = FALSE
       \/ ~QueueOpen /\ At("source", "startedEvent", "failed") /\ UNCHANGED <<event, was>>
    /\ UNCHANGED <<sourceShut, started, announced, streamVars, lifecycle,
                   workerVars, ringVars, consumerVars>>

StaysStarted == started   \* mutant: a failed Start leaves started_ set
RestoreStarted == IF sourceShut THEN started ELSE was

StartFailed ==
    /\ At("source", "failed", "idle")
    /\ started' = RestoreStarted /\ was' = FALSE
    /\ UNCHANGED <<sourceShut, event, announced, streamVars, lifecycle,
                   workerVars, ringVars, consumerVars>>

(* MediaSource::Stop and Pause differ only in the events they queue. *)
SourceStop ==
    /\ pc["source"] = "idle" /\ calls["source"] < MaxSourceCalls /\ ~sourceShut
    /\ pc' = [pc EXCEPT !["source"] = "stop"]
    /\ calls' = [calls EXCEPT !["source"] = @ + 1]
    /\ UNCHANGED <<want, sourceVars, streamVars, lifecycle, workerVars,
                   ringVars, consumerVars>>

StoppedEvent ==
    /\ At("source", "stoppedEvent", "idle")
    /\ event' = IF QueueOpen THEN "stopped" ELSE event
    /\ UNCHANGED <<sourceShut, started, was, announced, streamVars, lifecycle,
                   workerVars, ringVars, consumerVars>>

(* SetStreamState *)
SetStreamState(to) ==
    /\ pc["stream"] = "idle" /\ calls["stream"] < MaxStreamCalls
    /\ pc' = [pc EXCEPT !["stream"] = to]
    /\ calls' = [calls EXCEPT !["stream"] = @ + 1]
    /\ UNCHANGED <<want, sourceVars, streamVars, lifecycle, workerVars,
                   ringVars, consumerVars>>

(* MediaSource::Shutdown, then MediaStream::Shutdown: Stop, and the mark,    *)
(* which is set after lifecycleMutex_ was released.                          *)
SourceShutdown ==
    /\ At("shutdown", "idle", "stop") /\ ~sourceShut
    /\ sourceShut' = TRUE
    /\ UNCHANGED <<started, was, event, announced, streamVars, lifecycle,
                   workerVars, ringVars, consumerVars>>

StreamShutdown ==
    /\ At("shutdown", "mark", "closeQueue")
    /\ shut' = TRUE
    /\ UNCHANGED <<sourceVars, running, format, tokens, stopEvent, lifecycle,
                   workerVars, ringVars, consumerVars>>

CloseQueue ==
    /\ At("shutdown", "closeQueue", "done")
    /\ UNCHANGED <<sourceVars, streamVars, lifecycle, workerVars, ringVars,
                   consumerVars>>

-----------------------------------------------------------------------------
(* MediaStream::Start *)
StartBegin(c) ==
    /\ pc[c] = "start" /\ lifecycle = Free
    /\ IF shut \/ running
       THEN /\ Goto(c, IF shut THEN StartFails(c) ELSE StartReturns(c))
            /\ UNCHANGED <<lifecycle, tokens>>
       ELSE Goto(c, "startJoin") /\ Lock(c) /\ tokens' = <<>>
    /\ UNCHANGED <<sourceVars, shut, running, format, stopEvent, workerVars,
                   ringVars, consumerVars>>

StartJoin(c) ==
    /\ At(c, "startJoin", "openFrames")
    /\ Joins
    /\ worker' = "none" /\ stopEvent' = FALSE
    /\ UNCHANGED <<sourceVars, shut, running, format, tokens, lifecycle, fmt,
                   held, ringVars, consumerVars>>

(* FrameSource::start: the cache is dropped, and create() begins a new       *)
(* generation of the ring, without a request, or fails.                      *)
KeepsCache == cache   \* mutant: the published geometry is remembered
DropsCache == NoFormat

OpenFrames(c) ==
    /\ At(c, "openFrames", "run")
    /\ cache' = DropsCache
    /\ ring' \in BOOLEAN /\ request' = NoFormat
    /\ UNCHANGED <<sourceVars, streamVars, lifecycle, workerVars, consumerVars>>

StartRun(c) ==
    /\ At(c, "run", "spawn")
    /\ running' = TRUE
    /\ UNCHANGED <<sourceVars, shut, format, tokens, stopEvent, lifecycle,
                   workerVars, ringVars, consumerVars>>

Spawn(c) ==
    /\ At(c, "spawn", StartReturns(c))
    /\ worker' = "begin"
    /\ Unlock(c)
    /\ UNCHANGED <<sourceVars, streamVars, fmt, held, ringVars, consumerVars>>

SpawnFails(c) ==
    /\ At(c, "spawn", StartFails(c))
    /\ running' = FALSE
    /\ ring' = FALSE /\ request' = NoFormat /\ cache' = NoFormat
    /\ Unlock(c)
    /\ UNCHANGED <<sourceVars, shut, format, tokens, stopEvent, workerVars,
                   consumerVars>>

(* MediaStream::Stop *)
StopBegin(c) ==
    /\ pc[c] = "stop" /\ Lock(c) /\ Goto(c, "stopJoin")
    /\ running' = FALSE /\ stopEvent' = TRUE
    /\ UNCHANGED <<sourceVars, shut, format, tokens, workerVars, ringVars,
                   consumerVars>>

StopJoin(c) ==
    /\ At(c, "stopJoin", "closeFrames")
    /\ StopJoins
    /\ worker' = IF worker = "ended" THEN "none" ELSE worker
    /\ UNCHANGED <<sourceVars, streamVars, lifecycle, fmt, held, ringVars,
                   consumerVars>>

CloseFrames(c) ==
    /\ At(c, "closeFrames", "stopClear")
    /\ ring' = FALSE /\ request' = NoFormat /\ cache' = NoFormat
    /\ UNCHANGED <<sourceVars, streamVars, lifecycle, workerVars, consumerVars>>

StopClear(c) ==
    /\ At(c, "stopClear", StopReturns(c))
    /\ tokens' = <<>>
    /\ Unlock(c)
    /\ UNCHANGED <<sourceVars, shut, running, format, stopEvent, workerVars,
                   ringVars, consumerVars>>

-----------------------------------------------------------------------------
(* RequestSample: at the cap the oldest pending request makes room. *)
PendingAll == tokens   \* mutant: the queue is not bounded
Pending == IF Len(tokens) >= Cap THEN Tail(tokens) ELSE tokens

RequestSample ==
    /\ ~shut /\ running /\ requested < MaxRequests
    /\ requested' = requested + 1
    /\ tokens' = Append(Pending, requested')
    /\ UNCHANGED <<sourceVars, shut, running, format, stopEvent, lifecycle,
                   workerVars, ringVars, callVars, sample>>

-----------------------------------------------------------------------------
(* ThreadMain *)
WorkerBegin ==
    /\ worker = "begin"
    /\ \/ fmt' = format /\ worker' = "tick" /\ UNCHANGED running
       \/ worker' = "ended" /\ running' = FALSE /\ UNCHANGED fmt   \* no timer
    /\ UNCHANGED <<sourceVars, shut, format, tokens, stopEvent, lifecycle, held,
                   ringVars, callVars, consumerVars>>

(* A tick: the stop event is looked at first; then, at the timer, the stream's *)
(* state; and a pending request is taken.                                      *)
StopsOnEvent == stopEvent   \* mutant: the state is not looked at after the wait
Stopping == stopEvent \/ ~running \/ shut
HasTwo == Len(tokens) > 1   \* mutant: the last request is left in the queue
HasRequest == tokens # <<>>

TickStop ==
    /\ worker = "tick" /\ Stopping /\ worker' = "ending"
    /\ UNCHANGED <<sourceVars, streamVars, lifecycle, fmt, held, ringVars, callVars,
                   consumerVars>>

(* The timer or the wait for it fails. *)
TickFails ==
    /\ worker = "tick" /\ worker' = "ending"
    /\ UNCHANGED <<sourceVars, streamVars, lifecycle, fmt, held, ringVars, callVars,
                   consumerVars>>

TickTake ==
    /\ worker = "tick" /\ ~Stopping /\ HasRequest
    /\ held' = Head(tokens) /\ tokens' = Tail(tokens)
    /\ worker' = "fill"
    /\ UNCHANGED <<sourceVars, shut, running, format, stopEvent, lifecycle, fmt,
                   ringVars, callVars, consumerVars>>

(* FrameSource::fill publishes a geometry it has not published yet, and uses *)
(* the ring's latest frame only if it is fresh and of the stream's format.   *)
FillsAny(pixels) == TRUE   \* mutant: the ring frame's geometry is not compared
Fills(pixels) == pixels = fmt
Publishes == ring /\ cache # fmt

Fill ==
    /\ worker = "fill" /\ worker' = "queue"
    /\ IF Publishes THEN request' = fmt /\ cache' = fmt
                    ELSE UNCHANGED <<request, cache>>
    /\ \E pixels \in Formats \cup {NoFormat} :
         sample' = [id |-> held,
                    pixels |-> IF ring /\ Fills(pixels) THEN pixels ELSE NoFormat]
    /\ UNCHANGED <<sourceVars, streamVars, lifecycle, fmt, held, ring, callVars,
                   requested>>

(* A sample that could not be produced: the request goes back to the front, *)
(* unless the queue filled up meanwhile.                                     *)
PutLast == Append(tokens, held)   \* mutant: to the back
PutBack == <<held>> \o tokens

ProduceFails ==
    /\ worker = "fill" /\ worker' = "tick" /\ held' = 0
    /\ tokens' = IF Len(tokens) < Cap THEN PutBack ELSE tokens
    /\ UNCHANGED <<sourceVars, shut, running, format, stopEvent, lifecycle, fmt,
                   ringVars, callVars, consumerVars>>

(* MEMediaSample, unless the stream was shut down. *)
QueueSample ==
    /\ worker = "queue"
    /\ worker' = IF shut THEN "ending" ELSE "tick"
    /\ held' = 0 /\ sample' = [sample EXCEPT !.pixels = NoFormat]
    /\ UNCHANGED <<sourceVars, streamVars, lifecycle, fmt, ringVars, callVars,
                   requested>>

WorkerEnd ==
    /\ worker = "ending" /\ worker' = "ended"
    /\ running' = FALSE /\ fmt' = NoFormat
    /\ UNCHANGED <<sourceVars, shut, format, tokens, stopEvent, lifecycle,
                   held, ringVars, callVars, consumerVars>>

-----------------------------------------------------------------------------
Worker ==
    \/ WorkerBegin \/ TickStop \/ TickFails \/ TickTake
    \/ Fill \/ ProduceFails \/ QueueSample \/ WorkerEnd

SourceCall ==
    \/ ConfigureBegin \/ ConfigureEnd \/ NewStream \/ StreamEvent
    \/ StartedEvent \/ StartFailed \/ StoppedEvent

ShutdownCall == StreamShutdown \/ CloseQueue

StreamCall(c) ==
    \/ StartBegin(c) \/ StartJoin(c) \/ OpenFrames(c)
    \/ StartRun(c) \/ Spawn(c) \/ SpawnFails(c)
    \/ StopBegin(c) \/ StopJoin(c) \/ CloseFrames(c) \/ StopClear(c)

Next ==
    \/ \E f \in Formats : SourceStart(f)
    \/ SourceStop \/ SourceShutdown
    \/ \E to \in {"start", "stop"} : SetStreamState(to)
    \/ SourceCall \/ ShutdownCall \/ \E c \in Callers : StreamCall(c)
    \/ RequestSample \/ Worker

Spec == Init /\ [][Next]_vars

(* The system runs its threads: a call that was made proceeds, and so does   *)
(* the frame thread.  A sample that fails is retried and does not fail for   *)
(* ever; the timer is not obliged to fail.                                   *)
Fairness ==
    /\ WF_vars(SourceCall \/ StreamCall("source"))
    /\ WF_vars(StreamCall("stream"))
    /\ WF_vars(ShutdownCall \/ StreamCall("shutdown"))
    /\ WF_vars(WorkerBegin \/ TickStop \/ TickTake \/ QueueSample \/ WorkerEnd)
    /\ SF_vars(Fill)

FairSpec == Spec /\ Fairness

-----------------------------------------------------------------------------
Places == {"idle", "configure", "setType", "newStream", "streamEvent", "start",
           "startJoin", "openFrames", "run", "spawn", "startedEvent", "failed",
           "stop", "stopJoin", "closeFrames", "stopClear", "stoppedEvent",
           "mark", "closeQueue", "done"}
Events == {"none", "new", "updated", "started", "seeked", "stopped"}
Requests == 1..MaxRequests
SomeFormat == Formats \cup {NoFormat}
Samples == [id : Requests \cup {0}, pixels : SomeFormat]

(* The kinds of the state.  The queue of pending requests never outgrows its *)
(* cap, whatever consumer and frame thread put into it.                      *)
TypeOK ==
    /\ sourceShut \in BOOLEAN /\ started \in BOOLEAN /\ was \in BOOLEAN
    /\ event \in Events /\ announced \in BOOLEAN
    /\ shut \in BOOLEAN /\ running \in BOOLEAN /\ format \in Formats
    /\ tokens \in Seq(Requests) /\ Len(tokens) <= Cap
    /\ stopEvent \in BOOLEAN /\ lifecycle \in Callers \cup {Free}
    /\ worker \in {"none", "begin", "tick", "fill", "queue", "ending", "ended"}
    /\ fmt \in SomeFormat /\ held \in Requests \cup {0}
    /\ ring \in BOOLEAN /\ request \in SomeFormat /\ cache \in SomeFormat
    /\ pc \in [Callers -> Places] /\ want \in SomeFormat
    /\ calls \in [Callers -> Nat]
    /\ requested \in Requests \cup {0} /\ sample \in Samples

(* The frame thread is never inside FrameSource while a caller opens or      *)
(* closes it: FrameSource has no lock of its own and relies on Start and     *)
(* Stop joining the thread first.                                            *)
FramesExclusive ==
    worker = "fill" => \A c \in Callers : pc[c] \notin {"openFrames", "closeFrames"}

(* A sample has the format the stream is configured for, in its buffer and   *)
(* in the ring frame it shows: Configure refuses to change a running stream. *)
SampleGeometry ==
    /\ worker \in {"fill", "queue"} => fmt = format
    /\ worker = "queue" => sample.pixels \in {format, NoFormat}

(* While samples are made from an open ring, its current generation holds    *)
(* the geometry they need: a new generation is never left without a request  *)
(* because the last one had it.                                              *)
GeometryRequested == worker = "queue" /\ ring => request = fmt

(* A consumer hears of the stream before it hears that the source or the     *)
(* stream started, moved or changed, also after a Start that failed half way. *)
NewStreamFirst == event \in {"updated", "started", "seeked"} => announced

(* Requests are answered in the order in which they were made, also when a   *)
(* sample failed, its request went back and the queue was at its cap.        *)
SamplesInOrder == [][sample'.id # sample.id => sample'.id > sample.id]_vars

(* A pending request does not wait for ever: it is answered, makes room for  *)
(* a newer one, or the stream stops.                                         *)
RequestServed ==
    \A r \in Requests :
        (\E i \in DOMAIN tokens : tokens[i] = r)
            ~> (~running \/ (held # r /\ \A i \in DOMAIN tokens : tokens[i] # r))

(* Shutdown ends: it waits for the frame thread and cannot be kept waiting.   *)
(* After it there is no frame thread, whatever Start raced it.               *)
ShutdownEnds ==
    sourceShut ~> [](pc["shutdown"] = "done" /\ worker \in {"none", "ended"})

(* The stream's threads: within its cap (TypeOK), FrameSource has one user at *)
(* a time, and the consumer hears of the stream first, whichever Start, Stop  *)
(* and Shutdown race.                                                         *)
StreamInv == TypeOK /\ FramesExclusive /\ NewStreamFirst

(* A sample's geometry is the stream's, and the ring was asked for it.        *)
GeometryInv == SampleGeometry /\ GeometryRequested

(* Neither a consumer's request nor its Shutdown waits for ever.              *)
StreamProgress == RequestServed /\ ShutdownEnds

=============================================================================
