------------------------------ MODULE LivePipeline ------------------------------
(***************************************************************************)
(* LiveMediaPipeline (windows/app/live_media_pipeline.cpp): the queue the  *)
(* session fills, and the worker thread that decodes, transforms and hands *)
(* the pictures to the sink through VideoPipeline::push                    *)
(* (windows/platform/src/video_pipeline.cpp).                              *)
(*                                                                         *)
(* The session's thread calls consume and reset at any time.  A step ends  *)
(* where the code takes or releases queueMutex_; what the worker does      *)
(* between two sections touches only its own state and is one step with    *)
(* the section that follows it.  FrameSink models what is behind push.     *)
(*                                                                         *)
(* An access unit is its stream's generation, its number (modulo Wrap: a   *)
(* gap that matters is seen at some smaller one) and whether it is a       *)
(* keyframe.  The codec belongs to the generation.                         *)
(***************************************************************************)
EXTENDS Naturals, Sequences

CONSTANTS MaxQueued,    \* kMaxQueuedUnits; kMaxQueuedBytes acts in the same way
          Wrap,         \* bound: unit numbers are kept modulo Wrap
          MaxResets     \* bound: stream configurations after the first

ASSUME QueueAssumption == MaxQueued \in Nat \ {0}
ASSUME WrapAssumption == Wrap \in Nat /\ Wrap > 1
ASSUME ResetsAssumption == MaxResets \in Nat

VARIABLES
    \* the session: generation, next number, whether only a keyframe can follow
    gen, next, gap, caller,
    \* LiveMediaPipeline
    queue, pendingReset,
    waiting,     \* waitingForKeyframe_: "no", or why, or "asked" for one since
    \* its worker
    work, unit, decoder,
    stop

sessionVars == <<gen, next, gap, caller>>
queueVars == <<queue, pendingReset, waiting>>
workerVars == <<work, unit, decoder>>
vars == <<sessionVars, queueVars, workerVars, stop>>

-----------------------------------------------------------------------------
None == [gen |-> 0, last |-> 0]   \* no decoder
Fresh == Wrap                     \* a decoder that was fed nothing
NoUnit == [gen |-> 0, n |-> 0, key |-> FALSE]
Succ(n) == (n + 1) % Wrap

(* The decoder (platform/src/ffmpeg_d3d11_decoder.cpp): opened for the codec *)
(* of a stream, fed a unit, emptied of what it holds for reference.          *)
Opened(g) == [gen |-> g, last |-> Fresh]
Fed(d, n) == [d EXCEPT !.last = n]
Flushed(d) == [d EXCEPT !.last = Fresh]

Init ==
    /\ gen = 1 /\ next = 0 /\ gap = TRUE /\ caller = "idle"
    /\ queue = <<>> /\ pendingReset = FALSE /\ waiting = "reset"
    /\ work = "wait" /\ unit = NoUnit /\ decoder = None
    /\ stop = "run"

(* The queue is emptied and only a keyframe is taken next. *)
Lose(why) == queue' = <<>> /\ waiting' = why
OverflowOnlyDrops == queue' = <<>> /\ UNCHANGED waiting   \* mutant: deltas go on
LoseAtOverflow == Lose("lost")
OverflowSilent == "idle"   \* mutant: an overflow requests no keyframe
AfterOverflow == "ask"

(* consume: the session hands over the next unit of its chain, or a keyframe *)
(* after it skipped some.                                                    *)
Unbounded == FALSE   \* mutant: the queue has no limit
Full == Len(queue) >= MaxQueued

Consume(key) ==
    LET skipped == waiting # "no" /\ ~key IN
    /\ caller = "idle" /\ stop = "run" /\ (gap => key)
    /\ next' = Succ(next) /\ gap' = FALSE
    /\ CASE skipped -> UNCHANGED <<queue, waiting, caller>>
         [] ~skipped /\ Full -> LoseAtOverflow /\ caller' = AfterOverflow
         [] ~skipped /\ ~Full ->
              /\ queue' = Append(queue, [gen |-> gen, n |-> next, key |-> key])
              /\ waiting' = "no" /\ UNCHANGED caller
    /\ UNCHANGED <<gen, pendingReset, workerVars, stop>>

(* The session lost a unit: it delivers nothing until the next keyframe. *)
SessionGap ==
    /\ caller = "idle" /\ ~gap /\ gap' = TRUE /\ next' = Succ(next)
    /\ UNCHANGED <<gen, caller, queueVars, workerVars, stop>>

(* requestRecoveryKeyframe, outside the lock *)
Asks == waiting' = IF waiting = "lost" THEN "asked" ELSE waiting

ConsumeAsks ==
    /\ caller = "ask" /\ caller' = "idle" /\ Asks
    /\ UNCHANGED <<gen, next, gap, queue, pendingReset, workerVars, stop>>

(* reset: a new stream configuration *)
Reset ==
    /\ caller = "idle" /\ stop = "run" /\ gen <= MaxResets
    /\ gen' = gen + 1 /\ gap' = TRUE
    /\ Lose("reset") /\ pendingReset' = TRUE
    /\ UNCHANGED <<next, caller, workerVars, stop>>

-----------------------------------------------------------------------------
(* run: the stop comes first, then a reset, then a unit. *)
ResetLast == pendingReset /\ queue = <<>>   \* mutant: queued units come first
ResetFirst == pendingReset

WorkerReset ==
    /\ work = "wait" /\ stop = "run" /\ ResetFirst
    /\ pendingReset' = FALSE /\ decoder' = None
    /\ UNCHANGED <<sessionVars, queue, waiting, work, unit, stop>>

WorkerTake ==
    /\ work = "wait" /\ stop = "run" /\ ~ResetFirst /\ queue # <<>>
    /\ unit' = Head(queue) /\ queue' = Tail(queue) /\ work' = "decode"
    /\ UNCHANGED <<sessionVars, pendingReset, waiting, decoder, stop>>

(* selectCodec keeps the decoder or opens one; then push feeds it ... *)
Selected == IF decoder = None THEN Opened(unit.gen) ELSE decoder

(* ... and a picture is shown, or the decoder wants more input ... *)
Decode ==
    /\ work = "decode" /\ work' = "wait" /\ unit' = NoUnit
    /\ decoder' = Fed(Selected, unit.n)
    /\ UNCHANGED <<sessionVars, queueVars, stop>>

(* ... or the unit, its decoding, the transform or the sink fails: the        *)
(* decoder is flushed, the queue emptied and, after the lock, a keyframe      *)
(* requested ...                                                              *)
DecodeFails ==
    /\ work = "decode" /\ work' = "ask" /\ unit' = NoUnit
    /\ decoder' = Flushed(Selected)
    /\ Lose("lost")
    /\ UNCHANGED <<sessionVars, pendingReset, stop>>

WorkerAsks ==
    /\ work = "ask" /\ work' = "wait" /\ Asks
    /\ UNCHANGED <<sessionVars, queue, pendingReset, unit, decoder, stop>>

(* ... or no decoder could be opened, which requests none. *)
SelectFails ==
    /\ work = "decode" /\ decoder = None /\ work' = "wait" /\ unit' = NoUnit
    /\ Lose("codec")
    /\ UNCHANGED <<sessionVars, pendingReset, decoder, stop>>

(* stop joins the worker and drops the decoder. *)
StopBegin ==
    /\ stop = "run" /\ stop' = "join"
    /\ UNCHANGED <<sessionVars, queueVars, workerVars>>

WakesWithUnit == work = "wait" /\ queue # <<>>   \* mutant: the wait ignores the stop
StopWakes == work = "wait"

WorkerEnds ==
    /\ StopWakes /\ stop = "join" /\ work' = "ended"
    /\ UNCHANGED <<sessionVars, queueVars, unit, decoder, stop>>

StopEnd ==
    /\ stop = "join" /\ work = "ended" /\ stop' = "done" /\ decoder' = None
    /\ UNCHANGED <<sessionVars, queueVars, work, unit>>

-----------------------------------------------------------------------------
Worker ==
    WorkerReset \/ WorkerTake \/ Decode \/ DecodeFails \/ WorkerAsks \/ SelectFails

Next ==
    \/ \E key \in BOOLEAN : Consume(key)
    \/ SessionGap \/ ConsumeAsks \/ Reset
    \/ Worker \/ StopBegin \/ WorkerEnds \/ StopEnd

Spec == Init /\ [][Next]_vars

(* The threads run; the phone answers a keyframe request, and starts a new   *)
(* stream with a keyframe.  Decoding may fail as often as it likes.          *)
Fairness ==
    /\ WF_vars(Worker) /\ WF_vars(ConsumeAsks) /\ WF_vars(WorkerEnds \/ StopEnd)
    /\ SF_vars(Consume(TRUE) /\ waiting \in {"asked", "reset"})

FairSpec == Spec /\ Fairness

-----------------------------------------------------------------------------
Units == [gen : 1..(MaxResets + 1), n : 0..(Wrap - 1), key : BOOLEAN]
Waits == {"no", "reset", "codec", "lost", "asked"}

(* The kinds of the state; the queue is bounded. *)
TypeOK ==
    /\ gen \in 1..(MaxResets + 1) /\ next \in 0..(Wrap - 1) /\ gap \in BOOLEAN
    /\ caller \in {"idle", "ask"}
    /\ queue \in Seq(Units) /\ Len(queue) <= MaxQueued
    /\ pendingReset \in BOOLEAN /\ waiting \in Waits
    /\ work \in {"wait", "decode", "ask", "ended"} /\ unit \in Units \cup {NoUnit}
    /\ decoder \in [gen : 0..(MaxResets + 1), last : 0..Wrap]
    /\ stop \in {"run", "join", "done"}

(* The decoder is never fed a unit that needs another one it was not given:  *)
(* not after an overflow, a flush, a reset that meets a unit in the worker's *)
(* hand, or a codec that could not be opened.                                *)
DecodableFeed ==
    work = "decode" /\ ~unit.key =>
        decoder # None /\ decoder.last # Fresh /\ Succ(decoder.last) = unit.n

(* A decoder only ever sees one stream: a reset reaches the worker before    *)
(* any unit that came after it.                                              *)
OneStreamPerDecoder == work = "decode" => decoder.gen \in {0, unit.gen}

(* Having lost its place, the pipeline does not wait for ever: it gets the    *)
(* keyframe it asked for.  (A codec that cannot be opened asks for none: it   *)
(* depends on the keyframe the phone sends every two seconds.)                *)
Recovers ==
    waiting \in {"reset", "lost", "asked"}
        ~> (waiting \in {"no", "codec"} \/ stop # "run")

(* stop ends, whatever the session and the worker were doing. *)
StopEnds == stop = "join" ~> stop = "done"

(* The worker's decoder: within the queue's bound (TypeOK) it is fed one      *)
(* stream, and nothing it cannot decode.                                     *)
PipelineInv == TypeOK /\ DecodableFeed /\ OneStreamPerDecoder

(* The pipeline finds back after a loss, and stop() returns.                  *)
PipelineProgress == Recovers /\ StopEnds

=============================================================================
