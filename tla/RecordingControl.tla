---------------------------- MODULE RecordingControl ----------------------------
(***************************************************************************)
(* The recording controls of the live media pipeline                       *)
(* (windows/app/live_media_pipeline.cpp) over Mp4Recorder.  The GUI thread *)
(* is the recorder's owner; the recorder's observer, called on whichever   *)
(* thread changed the state, posts an event to the GUI's queue, and the    *)
(* preview callback posts one when a frame no longer has the recording's   *)
(* size.  While start() or stop() runs, the GUI handles no event.          *)
(*                                                                         *)
(* The process does not die here.                                          *)
(***************************************************************************)
EXTENDS Mp4Recorder

VARIABLES
    ui,          \* recorderState_, with the session it was read from
    events,      \* the GUI thread's posted events
    call,        \* what the GUI thread is doing in the recorder
    errorQueued  \* recordingFrameErrorQueued_

guiVars == <<ui, events, call, errorQueued>>
allVars == <<vars, guiVars>>

-----------------------------------------------------------------------------
Current == [state |-> status.state, of |-> status.of]
Terminal == {"Completed", "Failed"}

(* recording() *)
ShownRecording == ui.state \in {"Starting", "Recording"}

GuiInit ==
    /\ Init
    /\ ui = Current /\ events = <<>> /\ call = "none" /\ errorQueued = FALSE

(* The observer's event, with the snapshot it was called with. *)
Post(kind, of) == Append(events, [kind |-> kind, shown |-> of])

(* applyRecorderSnapshot *)
Apply(shown) ==
    /\ ui' = shown
    /\ errorQueued' = (errorQueued /\ shown.state \notin Terminal)

(* startRecording: no processed frame, no folder or a refused start ...     *)
StartImpossible ==
    /\ call = "none" /\ ~ShownRecording /\ ui.state # "Finalizing"
    /\ ui' = [ui EXCEPT !.state = "Failed"]
    /\ UNCHANGED <<vars, events, call, errorQueued>>

(* ... or start() runs, and its snapshot is shown when it returns. *)
StartRecording ==
    /\ call = "none" /\ ~ShownRecording /\ ui.state # "Finalizing"
    /\ Start
    /\ call' = "start" /\ errorQueued' = FALSE
    /\ UNCHANGED <<ui, events>>

StopRecording ==
    /\ call = "none"
    /\ Stop
    /\ call' = "stop"
    /\ UNCHANGED <<ui, events, errorQueued>>

CallReturns ==
    /\ call \in {"start", "stop"} /\ owner = "idle"
    /\ Apply(Current)
    /\ call' = "none"
    /\ UNCHANGED <<vars, events>>

(* An observer's event is delivered: the state is read now. *)
ShownCaptured(event) == event.shown   \* mutant: the state when it was posted
ShownNow(event) == Current

Deliver ==
    LET event == Head(events) IN
    /\ call = "none"
    /\ events # <<>> /\ event.kind = "refresh"
    /\ events' = Tail(events)
    /\ Apply(ShownNow(event))
    /\ UNCHANGED <<vars, call>>

(* stopRecordingForFrameError *)
HeedsStarting == ui.state = "Starting"   \* mutant: one state forgotten
HeedsError == ShownRecording

DeliverError ==
    /\ call = "none"
    /\ events # <<>> /\ Head(events).kind = "frameError"
    /\ events' = Tail(events)
    /\ \/ /\ HeedsError
          /\ Stop
          /\ call' = "errorStop"
          /\ UNCHANGED errorQueued
       \/ /\ ~HeedsError
          /\ errorQueued' = FALSE
          /\ UNCHANGED <<vars, call>>
    /\ UNCHANGED ui

ErrorStopReturns ==
    /\ call = "errorStop" /\ owner = "idle"
    /\ ui' = Current /\ errorQueued' = FALSE
    /\ call' = "none"
    /\ UNCHANGED <<vars, events>>

(* The preview callback: enqueue() found a frame of another size. *)
FrameMismatch ==
    /\ feeder = "idle" /\ Accepts
    /\ ~errorQueued
    /\ errorQueued' = TRUE
    /\ events' = Post("frameError", [state |-> status.state, of |-> session])
    /\ UNCHANGED <<vars, ui, call>>

(* replaceSnapshot notifies of a change of state, notifyCurrent of a drop. *)
NotifiesDrop == feeder = "notifyDrop" /\ feeder' = "idle"   \* mutant: drops only
Notifies == status'.state # status.state
              \/ (feeder = "notifyDrop" /\ feeder' = "idle")

(* A step inside the recorder. *)
RecorderStep ==
    /\ OwnerSteps \/ FeederSteps \/ WorkerSteps
    /\ events' = IF Notifies
                 THEN Post("refresh", [state |-> status'.state,
                                       of |-> status'.of])
                 ELSE events
    /\ UNCHANGED <<ui, call, errorQueued>>

Feed == (\E pts \in Pts : Enqueue(pts)) /\ UNCHANGED guiVars

GuiSteps == CallReturns \/ ErrorStopReturns \/ Deliver \/ DeliverError

GuiNext ==
    \/ StartImpossible \/ StartRecording \/ StopRecording
    \/ GuiSteps \/ FrameMismatch \/ RecorderStep \/ Feed

GuiSpec ==
    /\ GuiInit /\ [][GuiNext]_allVars
    /\ WF_allVars(GuiSteps)
    /\ WF_allVars(OwnerSteps /\ RecorderStep)
    /\ WF_allVars(FeederSteps /\ RecorderStep)
    /\ WF_allVars(WorkerSteps /\ RecorderStep)

-----------------------------------------------------------------------------
Rank(state) ==
    CASE state = "Idle" -> 0 [] state = "Starting" -> 1
      [] state = "Recording" -> 2 [] state = "Finalizing" -> 3
      [] OTHER -> 4

(* The observer's comment: a synchronous stop can overtake queued events,    *)
(* yet no old event takes what the window shows of a recording back to an    *)
(* earlier stage or to an earlier recording.                                 *)
UiNeverReverts ==
    [][/\ ui.of <= ui'.of
       /\ ui.of = ui'.of /\ ui.of # 0 => Rank(ui.state) <= Rank(ui'.state)]_allVars

(* How a recording ended is shown, whichever thread ended it.                *)
UiSettles ==
    \A s \in Sessions :
        (status.of = s /\ status.state \in Terminal)
            ~> (ui.of = s /\ ui.state \in Terminal) \/ status.of # s

(* A frame of another size ends the recording it arrived in, though the      *)
(* event is queued once, behind others, and the recorder may be starting.    *)
MismatchEndsRecording ==
    \A s \in Sessions :
        (\E i \in 1 .. Len(events) :
            events[i].kind = "frameError" /\ events[i].shown.of = s)
        ~> (session # s \/ ~active)

(* What the encode thread and the recorder report reaches the window and the *)
(* recording: no queued event is lost on the way.                            *)
UiProgress == UiSettles /\ MismatchEndsRecording
=============================================================================
