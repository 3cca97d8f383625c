------------------------------ MODULE Mp4Recorder ------------------------------
(***************************************************************************)
(* The MP4 recorder of the Windows host                                    *)
(* (windows/platform/src/mp4_recorder.cpp) under its three threads: the    *)
(* owner, which calls start() and stop() one at a time (lifecycleMutex_);  *)
(* the feeder, the sink's preview callback, which calls enqueue(); and the *)
(* recorder's own worker.  One action is one critical section of           *)
(* queueMutex_ or statusMutex_, one call of the writer or one operation on *)
(* a file.  Media Foundation's writer and the file system may fail at any  *)
(* call, and the process may die between any two steps.                    *)
(*                                                                         *)
(* A session is one accepted start(); its number stands for its paths.     *)
(***************************************************************************)
EXTENDS Naturals, Sequences

CONSTANTS
    Capacity,    \* config.queueCapacity
    Pts,         \* the capture times a frame may carry, in microseconds
    Duration,    \* MonotonicTimeline's duration_, in 100 ns
    MaxTime,     \* the greatest LONGLONG
    MaxSessions, \* bound: accepted calls of start()
    MaxFrames    \* bound: accepted frames

ASSUME RecorderAssumption ==
    /\ Capacity \in Nat \ {0} /\ Duration \in Nat \ {0}
    /\ Pts \subseteq Nat /\ MaxTime \in Nat
    /\ MaxSessions \in Nat /\ MaxFrames \in Nat

VARIABLES
    session,  \* config_ and partialPath_
    active,   \* sessionActive_
    stopReq,  \* stopRequested_
    queue,    \* queue_
    status,   \* status_
    owner,    \* where the owner is in start() or stop()
    feeder,   \* where the feeder is in enqueue()
    worker,   \* where the worker is
    hand,     \* the frames it has taken and not written
    origin,   \* originMicros_, once haveOrigin_
    last,     \* last_
    partial,  \* each session's partial file
    output,   \* the session whose recording the final path holds, 0 for none
    \* history
    film,     \* the samples in the session's file
    minted,   \* frames accepted ever
    accepted, \* frames accepted in this session
    dropped   \* frames of this session pushed out of the queue

queueVars == <<session, active, stopReq, queue>>
timeVars  == <<origin, last>>
fileVars  == <<partial, output>>
history   == <<film, minted, accepted, dropped>>
vars      == <<queueVars, status, owner, feeder, worker, hand, timeVars,
               fileVars, history>>

-----------------------------------------------------------------------------
Sessions == 1 .. MaxSessions
Frames   == [id : Nat, pts : Nat]
Samples  == [id : Nat, time : Nat]
States   == {"Idle", "Starting", "Recording", "Finalizing", "Completed",
             "Failed"}

(* Mp4RecorderSnapshot: error as failed or not, partialPath as empty or not. *)
Statuses == [state : States, of : Nat, submitted : Nat, written : Nat,
             dropped : Nat, queued : Nat, error : BOOLEAN, partial : BOOLEAN]
Snapshot(state, of) ==
    [state |-> state, of |-> of, submitted |-> 0, written |-> 0,
     dropped |-> 0, queued |-> 0, error |-> FALSE, partial |-> of # 0]

Init ==
    /\ session = 0 /\ active = FALSE /\ stopReq = FALSE /\ queue = <<>>
    /\ status = Snapshot("Idle", 0)
    /\ owner = "idle" /\ feeder = "idle" /\ worker = "none"
    /\ hand = <<>> /\ origin = <<>> /\ last = 0
    /\ partial = [s \in Sessions |-> "none"] /\ output = 0
    /\ film = <<>> /\ minted = 0 /\ accepted = 0 /\ dropped = 0

-----------------------------------------------------------------------------
(* The owner. *)

Joined == worker \in {"none", "done"}

(* start() refuses while a session is active, joins the old worker, opens   *)
(* the session ...                                                          *)
Start ==
    /\ owner = "idle" /\ ~active
    /\ Joined
    /\ session < MaxSessions
    /\ session' = session + 1
    /\ active' = TRUE /\ stopReq' = FALSE /\ queue' = <<>>
    /\ owner' = "starting" /\ worker' = "none"
    /\ origin' = <<>> /\ last' = 0
    /\ film' = <<>> /\ accepted' = 0 /\ dropped' = 0
    /\ UNCHANGED <<status, feeder, hand, fileVars, minted>>

(* ... replaces the snapshot ... *)
StartStatus ==
    /\ owner = "starting"
    /\ status' = Snapshot("Starting", session)
    /\ owner' = "spawn"
    /\ UNCHANGED <<queueVars, feeder, worker, hand, timeVars, fileVars, history>>

(* ... and starts the worker, or fails to. *)
Spawn ==
    /\ owner = "spawn"
    /\ owner' = "idle" /\ worker' = "open"
    /\ UNCHANGED <<queueVars, status, feeder, hand, timeVars, fileVars, history>>

SpawnFailed ==
    /\ owner = "spawn"
    /\ active' = FALSE
    /\ owner' = "unspawned"
    /\ UNCHANGED <<session, stopReq, queue, status, feeder, worker, hand,
                   timeVars, fileVars, history>>

SpawnReport ==
    /\ owner = "unspawned"
    /\ status' = [status EXCEPT !.state = "Failed", !.error = TRUE,
                                !.partial = FALSE]
    /\ owner' = "idle"
    /\ UNCHANGED <<queueVars, feeder, worker, hand, timeVars, fileVars, history>>

(* notify_one: only the worker waits. *)
Notified == IF worker = "asleep" THEN "take" ELSE worker

(* stop() ends the session, wakes the worker and joins it. *)
Stop ==
    /\ owner = "idle"
    /\ stopReq' = (stopReq \/ active)
    /\ active' = FALSE
    /\ owner' = "stopping"
    /\ UNCHANGED <<session, queue, status, feeder, worker, hand, timeVars,
                   fileVars, history>>

StopSilently ==   \* mutant: no notification
    /\ owner = "stopping"
    /\ owner' = "joining"
    /\ UNCHANGED <<queueVars, status, feeder, worker, hand, timeVars, fileVars,
                   history>>
StopNotify ==
    /\ owner = "stopping"
    /\ worker' = Notified
    /\ owner' = "joining"
    /\ UNCHANGED <<queueVars, status, feeder, hand, timeVars, fileVars, history>>

StopDetached ==   \* mutant: the worker is left to finish
    /\ owner = "joining"
    /\ owner' = "idle"
    /\ UNCHANGED <<queueVars, status, feeder, worker, hand, timeVars, fileVars,
                   history>>
StopJoin ==
    /\ owner = "joining"
    /\ Joined
    /\ worker' = "none" /\ owner' = "idle"
    /\ UNCHANGED <<queueVars, status, feeder, hand, timeVars, fileVars, history>>

-----------------------------------------------------------------------------
(* The feeder: enqueue() of a frame whose geometry is the session's.        *)

Accepts == active /\ ~stopReq
Full == Len(queue) >= Capacity

Enqueue(pts) ==
    LET kept == IF Full THEN Tail(queue) ELSE queue
        next == Append(kept, [id |-> minted + 1, pts |-> pts])
        one  == IF Full THEN 1 ELSE 0
    IN
    /\ feeder = "idle"
    /\ Accepts
    /\ minted < MaxFrames
    /\ queue' = next
    /\ status' = [status EXCEPT !.submitted = status.submitted + 1,
                                !.dropped = status.dropped + one,
                                !.queued = Len(next)]
    /\ feeder' = IF Full THEN "notifyDrop" ELSE "notify"
    /\ minted' = minted + 1 /\ accepted' = accepted + 1
    /\ dropped' = dropped + one
    /\ UNCHANGED <<session, active, stopReq, owner, worker, hand, timeVars,
                   fileVars, film>>

EnqueueNotify ==
    /\ feeder # "idle"
    /\ worker' = Notified
    /\ feeder' = "idle"
    /\ UNCHANGED <<queueVars, status, owner, hand, timeVars, fileVars, history>>

-----------------------------------------------------------------------------
(* The worker. *)

Goto(place) == worker' = place

(* openWriter: the hardware encoder, else the software one; the file a      *)
(* failed attempt leaves is removed before the next one and by discard.     *)
OpenWriter(opened, left) ==
    /\ worker = "open"
    /\ partial' = [partial EXCEPT ![session] =
                     IF opened \/ left THEN "incomplete" ELSE "none"]
    /\ Goto(IF opened THEN "opened" ELSE "discard")
    /\ UNCHANGED <<queueVars, status, owner, feeder, hand, timeVars, output,
                   history>>

ReportRecording ==
    /\ worker = "opened"
    /\ status' = [status EXCEPT !.state = "Recording"]
    /\ Goto("take")
    /\ UNCHANGED <<queueVars, owner, feeder, hand, timeVars, fileVars, history>>

(* The next frame; or the end, once stopped and drained; or sleep. *)
StopsAtOnce == stopReq   \* mutant: the queue is not drained
Drained == queue = <<>> /\ stopReq

Take ==
    /\ worker = "take"
    /\ ~Drained /\ queue # <<>>
    /\ hand' = <<Head(queue)>>
    /\ queue' = Tail(queue)
    /\ status' = [status EXCEPT !.queued = Len(queue) - 1]
    /\ Goto("write")
    /\ UNCHANGED <<session, active, stopReq, owner, feeder, timeVars, fileVars,
                   history>>

Sleep ==
    /\ worker = "take"
    /\ queue = <<>> /\ ~stopReq
    /\ Goto("asleep")
    /\ UNCHANGED <<queueVars, status, owner, feeder, hand, timeVars, fileVars,
                   history>>

(* MonotonicTimeline::next: time since the first frame, but at least one    *)
(* frame after the previous sample, whatever the phone's clock did; each    *)
(* of the two saturates.                                                    *)
Saturated(time) == IF time > MaxTime THEN MaxTime ELSE time
Timestamp(pts) ==
    LET source == IF pts < origin[1] THEN 0
                  ELSE Saturated(10 * (pts - origin[1]))
        minimumNext == Saturated(last + Duration)
    IN  IF origin = <<>> THEN 0
        ELSE IF source < minimumNext THEN minimumNext ELSE source

Write ==
    LET frame == hand[1] IN
    /\ worker = "write"
    /\ origin' = IF origin = <<>> THEN <<frame.pts>> ELSE origin
    /\ last' = Timestamp(frame.pts)
    /\ film' = Append(film, [id |-> frame.id, time |-> Timestamp(frame.pts)])
    /\ status' = [status EXCEPT !.written = status.written + 1]
    /\ hand' = <<>>
    /\ Goto("take")
    /\ UNCHANGED <<queueVars, owner, feeder, fileVars, minted, accepted, dropped>>

(* The conversion or the writer fails. *)
WriteFailed ==
    /\ worker = "write"
    /\ Goto("discard")
    /\ UNCHANGED <<queueVars, status, owner, feeder, hand, timeVars, fileVars,
                   history>>

ReportFinalizing ==
    /\ worker = "take"
    /\ Drained
    /\ status' = [status EXCEPT !.state = "Finalizing"]
    /\ Goto("finalize")
    /\ UNCHANGED <<queueVars, owner, feeder, hand, timeVars, fileVars, history>>

Finalize(ok) ==
    /\ worker = "finalize"
    /\ partial' = IF ok THEN [partial EXCEPT ![session] = "playable"]
                  ELSE partial
    /\ Goto(IF ok THEN "publish" ELSE "discard")
    /\ UNCHANGED <<queueVars, status, owner, feeder, hand, timeVars, output,
                   history>>

(* MoveFileEx onto the final path. *)
Publish ==
    /\ worker = "publish"
    /\ output' = session
    /\ partial' = [partial EXCEPT ![session] = "none"]
    /\ Goto("completed")
    /\ UNCHANGED <<queueVars, status, owner, feeder, hand, timeVars, history>>

ReportCompleted ==
    /\ worker = "completed"
    /\ status' = [status EXCEPT !.state = "Completed", !.error = FALSE,
                                !.queued = 0, !.partial = FALSE]
    /\ Goto("done")
    /\ UNCHANGED <<queueVars, owner, feeder, hand, timeVars, fileVars, history>>

(* A rename that fails keeps the playable partial file. *)
ReportUnpublished ==
    /\ worker = "publish"
    /\ status' = [status EXCEPT !.state = "Failed", !.error = TRUE,
                                !.queued = 0]
    /\ Goto("done")
    /\ UNCHANGED <<queueVars, owner, feeder, hand, timeVars, fileVars, history>>

(* discardAndFail: end the session, remove the file, report. *)
Discard ==
    /\ worker = "discard"
    /\ hand' = hand \o queue
    /\ queue' = <<>> /\ stopReq' = TRUE /\ active' = FALSE
    /\ Goto("remove")
    /\ UNCHANGED <<session, status, owner, feeder, timeVars, fileVars, history>>

RemovePartial ==
    /\ worker = "remove"
    /\ partial' = [partial EXCEPT ![session] = "none"]
    /\ Goto("failed")
    /\ UNCHANGED <<queueVars, status, owner, feeder, hand, timeVars, output,
                   history>>

ReportFailed ==
    /\ worker = "failed"
    /\ status' = [status EXCEPT !.state = "Failed", !.error = TRUE,
                                !.dropped = status.dropped + Len(hand),
                                !.queued = 0, !.partial = FALSE]
    /\ hand' = <<>>
    /\ Goto("done")
    /\ UNCHANGED <<queueVars, owner, feeder, timeVars, fileVars, history>>

-----------------------------------------------------------------------------
(* The process dies: only the files are left. *)
Crash ==
    /\ session # 0
    /\ active' = FALSE /\ stopReq' = FALSE /\ queue' = <<>>
    /\ status' = Snapshot("Idle", 0)
    /\ owner' = "idle" /\ feeder' = "idle" /\ worker' = "none"
    /\ hand' = <<>> /\ origin' = <<>> /\ last' = 0
    /\ film' = <<>> /\ accepted' = 0 /\ dropped' = 0
    /\ UNCHANGED <<session, fileVars, minted>>

OwnerSteps ==
    \/ StartStatus \/ Spawn \/ SpawnFailed \/ SpawnReport
    \/ StopNotify \/ StopJoin
FeederSteps == EnqueueNotify
WorkerSteps ==
    \/ \E opened, left \in BOOLEAN : OpenWriter(opened, left)
    \/ ReportRecording \/ Take \/ Sleep \/ Write \/ WriteFailed
    \/ ReportFinalizing \/ \E ok \in BOOLEAN : Finalize(ok)
    \/ Publish \/ ReportCompleted \/ ReportUnpublished
    \/ Discard \/ RemovePartial \/ ReportFailed

Next ==
    \/ Start \/ Stop \/ \E pts \in Pts : Enqueue(pts)
    \/ OwnerSteps \/ FeederSteps \/ WorkerSteps
    \/ Crash

Spec == Init /\ [][Next]_vars

(* Every call of the writer returns and the threads are scheduled; nobody   *)
(* has to call start(), stop() or enqueue().                                *)
Fairness == WF_vars(OwnerSteps) /\ WF_vars(FeederSteps) /\ WF_vars(WorkerSteps)
FairSpec == Spec /\ Fairness

-----------------------------------------------------------------------------
TypeOK ==
    /\ session \in Nat /\ active \in BOOLEAN /\ stopReq \in BOOLEAN
    /\ queue \in Seq(Frames) /\ Len(queue) <= Capacity
    /\ status \in Statuses
    /\ owner \in {"idle", "starting", "spawn", "unspawned", "stopping",
                  "joining"}
    /\ feeder \in {"idle", "notify", "notifyDrop"}
    /\ worker \in {"none", "open", "opened", "take", "asleep", "write",
                   "finalize", "publish", "completed", "discard", "remove",
                   "failed", "done"}
    /\ hand \in Seq(Frames) /\ origin \in Seq(Nat) /\ last \in Nat
    /\ partial \in [Sessions -> {"none", "incomplete", "playable"}]
    /\ output \in Nat
    /\ film \in Seq(Samples)
    /\ minted \in Nat /\ accepted \in Nat /\ dropped \in Nat

(* IMp4Recorder::stop: a successful return guarantees that the final path    *)
(* holds this session's recording, drained: every accepted frame that was    *)
(* not pushed out by a newer one, the newest last.                           *)
StopGuarantee ==
    [][owner = "joining" /\ owner' = "idle" /\ status' = status
         /\ status.of # 0 /\ ~status.error
         => /\ output = session
            /\ Len(film) + dropped = accepted
            /\ film # <<>> => film[Len(film)].id = minted]_vars

(* The samples of a file are in arrival order and, up to the greatest time a *)
(* sample can have, a frame's duration apart, though frames are dropped and  *)
(* the phone's clock stands still, goes back or leaps to the end of its      *)
(* range.                                                                    *)
FilmOrdered ==
    \A i \in 1 .. Len(film) - 1 :
        /\ film[i].id < film[i + 1].id
        /\ film[i].time <= film[i + 1].time
        /\ \/ film[i].time + Duration <= film[i + 1].time
           \/ film[i + 1].time = MaxTime

(* Mp4RecorderSnapshot::partialPath: a failed recording names a playable     *)
(* file, or has left none behind.                                            *)
PartialAccounted ==
    status.state = "Failed" =>
        partial[status.of] = IF status.partial THEN "playable" ELSE "none"

(* The final path is only ever replaced by a finished recording: whatever    *)
(* fails, and wherever the process dies, the file it held stays.             *)
OutputReplacedWhole ==
    [][output' # output => /\ output' = session
                           /\ partial[session] = "playable"
                           /\ Len(film) + dropped = accepted]_vars

(* stop() returns, though the worker sleeps, drains a queue or fails while   *)
(* the request is made.                                                      *)
StopReturns == owner = "joining" ~> owner = "idle"

=============================================================================
