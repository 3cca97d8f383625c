------------------------------- MODULE Reception -------------------------------
(***************************************************************************)
(* The receiving side of the application as main() puts it together        *)
(* (windows/app/main.cpp): the listener, its session and the status label  *)
(* (Receiver), and the camera controls that reach the phone through that   *)
(* session (ControlPanel).  The window's objects live on the main thread   *)
(* and only run while its event loop does.                                 *)
(***************************************************************************)
EXTENDS Receiver, ControlPanel

vars == <<receiverVars, panelVars>>

Init == ReceiverInit /\ PanelInit

(* metrics_.trusted in a state that takes commands. *)
SessionReady == state \in {"Ready", "Streaming"}

(* The timer and what it sends; the send may fail in any state. *)
Tick ==
    /\ app = "exec"
    /\ \/ TimerRuns
       \/ SessionReady /\ FlushControls(TRUE)
       \/ FlushControls(FALSE)
    /\ UNCHANGED receiverVars

Panel ==
    /\ app = "exec"
    /\ \E v \in Values : SetControl(v)
    /\ UNCHANGED receiverVars

(* The window's objects are out of use once the event loop has ended. *)
Leave == Quit /\ PanelCloses

(* A new connection's phone has been told nothing. *)
Welcome ==
    /\ OnConnected
    /\ given' = Unknown
    /\ UNCHANGED <<chosen, pending, timer>>

Next ==
    \/ (Bind \/ BindFails \/ ReceiverNext) /\ UNCHANGED panelVars
    \/ Welcome \/ Leave \/ Panel \/ Tick

(* What its thread goes on to do by itself: accept() and recv() return once  *)
(* their socket is closed, and the watchdog's deadline comes to a connection *)
(* whose other end is gone.                                                  *)
AcceptRuns == (Acceptor \/ (AcceptFails /\ ~bound)) /\ UNCHANGED panelVars
ServerRuns == ((Server \/ (ReceiveEnds /\ ~socket)) /\ UNCHANGED panelVars) \/ Welcome
WatchdogRuns == (WatchdogStep \/ (Expire /\ ~far)) /\ UNCHANGED panelVars

(* Threads run, the event loop serves its timer and its queue, and a phone   *)
(* without a connection dials, as long as the application runs: stop() must  *)
(* not count on one.                                                         *)
Fairness ==
    /\ WF_vars(AcceptRuns) /\ WF_vars(ServerRuns) /\ WF_vars(WatchdogRuns)
    /\ WF_vars(ApplyEvent /\ UNCHANGED panelVars) /\ WF_vars(Tick)
    /\ WF_vars(Dial /\ app = "exec" /\ UNCHANGED panelVars)
    /\ WF_vars(Stop /\ UNCHANGED panelVars)

FairSpec == Init /\ [][Next]_vars /\ Fairness

-----------------------------------------------------------------------------
Phases == {"Disconnected", "AwaitingHello", "AwaitingTrust", "Ready", "Streaming", "Failed"}
Labels == {"Waiting", "Connected", "Pairing", "Ready", "Streaming", "TimedOut", "Closed"}
Told == {"awaiting_hello", "awaiting_trust", "security.unauthenticated", "ready",
         "streaming", "disconnected", "session.timeout"}

(* Every thread is at a place of its code, a timer runs exactly while a      *)
(* change is pending, and only one thread holds the connection: connection-  *)
(* Active_ covers all of a connection's life, from the claim to the release. *)
TypeOK ==
    /\ app \in {"start", "exec", "close", "hangUp", "joinAccept", "joinServer", "stopped"}
    /\ acceptor \in {"none", "check", "accept", "claim", "spawn", "ended"}
    /\ {bound, stopping, occupied, active, socket, far, allow, told, open, warns}
         \subseteq BOOLEAN
    /\ phone \in {"idle", "dialing", "on"}
    /\ state \in Phases /\ label \in Labels
    /\ watchdog \in {"off", "on", "notify", "close", "ended"}
    /\ events \in Seq([what : Told, told : BOOLEAN])
    /\ chosen \in Values \cup {Unknown} /\ given \in Values \cup {Unknown}
    /\ pending \in Values \cup {Unknown}
    /\ timer \in 0..Delay /\ (timer > 0) = (pending # Unknown)
    /\ server \notin {"none", "ended"} => occupied

(* stop() leaves nobody who could still call the session or the window,      *)
(* which main() destroys next, also when a phone was being accepted while    *)
(* the sockets were closed.                                                  *)
SilentAfterStop ==
    app = "stopped" => AcceptDone /\ ServerDone /\ watchdog \in {"off", "ended"}

(* The label shows the session's phase as soon as its queued events have     *)
(* been applied and no thread is about to queue one: no late event of the    *)
(* watchdog or of an earlier connection stays in the window.                 *)
StatusSettles ==
    app = "exec" /\ events = <<>> /\ watchdog \notin {"notify", "close"} =>
        /\ server \in {"none", "ended"} => label = "Waiting"
        /\ server = "recv" /\ socket =>
             label = CASE state = "AwaitingHello" -> "Connected"
                       [] state = "AwaitingTrust" -> "Pairing"
                       [] OTHER -> state

(* The switch was thrown on between handleHello's two reads of it: the first *)
(* (allowsUnauthenticated) still refused what the second (trusted) granted.  *)
(* The session is then READY without authentication and nothing announces    *)
(* it, which DowngradeShown has to leave out.                                *)
Slipped == ~open

(* The policy is the only way to Ready here, so every session shown as Ready *)
(* was granted without authentication.  It is never shown without saying so, *)
(* not even between two events, as handleHello announces the downgrade       *)
(* before the state; but only what its first read of the switch saw.         *)
DowngradeShown == label \in {"Ready", "Streaming"} => warns \/ Slipped

(* What the phone was told last is what the window shows, unless a change is *)
(* still pending: of several changes within one interval the last one counts.*)
LastChangeWins == pending = Unknown /\ given # Unknown => given = chosen

(* A phone that lost its connection is served again although the PC still    *)
(* holds the dead one and refuses every other: the watchdog ends it.  A      *)
(* failed accept() ends the loop for good, and the application may quit.     *)
ServedAgain ==
    phone = "idle" ~> (phone = "on" \/ ~bound \/ acceptor = "ended")

(* The main thread finishes what it has begun.  stop() returns, from whatever *)
(* the three threads are in the middle of; and a change of the controls       *)
(* reaches the phone, or is reported as failed, although the user keeps       *)
(* moving the slider, unless the application is left, and then stop() does.   *)
MainFinishes ==
    app = "close" \/ timer > 0 ~> app \in {"exec", "stopped"} /\ timer = 0

(* One connection at a time (TypeOK), and nothing left behind by stop().      *)
ReceptionInv == TypeOK /\ SilentAfterStop

(* The window tells the truth about the session: its phase, and a downgrade   *)
(* that handleHello's first read of the switch saw.                           *)
StatusTruthful == StatusSettles /\ DowngradeShown

(* Nobody waits for ever: the phone for a connection, main() for stop(), a    *)
(* change of the controls for its timer.                                      *)
ReceptionProgress == ServedAgain /\ MainFinishes

=============================================================================
