------------------------------- MODULE Receiver -------------------------------
(***************************************************************************)
(* The PC's end of a phone's connection, from the listening socket to the  *)
(* label in the window: rcnet::TcpListener's three threads                 *)
(* (windows/net/src/tcp_listener.cpp), the phases of the session they      *)
(* drive with its watchdog (windows/backend/src/session_controller.cpp),   *)
(* the trust decision (windows/app/security_policy.cpp) and SessionStatus, *)
(* which shows the session's queued events (windows/app/session_status.cpp)*)
(*                                                                         *)
(* SessionController is the detailed model of the session; here it is      *)
(* reduced to its phases and the order in which it tells the window.  The  *)
(* phone dials again whenever it has no connection, also while the PC      *)
(* still holds one that went dead.                                         *)
(***************************************************************************)
EXTENDS Naturals, Sequences

CONSTANT MaxQueued   \* events the window has not applied yet

ASSUME QueuedAssumption == MaxQueued \in Nat \ {0}

VARIABLES
    app,        \* main(): "start", "exec", the steps of stop(), then "stopped"
    bound,      \* the listening socket is open
    stopping,   \* stopping_
    acceptor,   \* the accept thread
    occupied,   \* connectionActive_
    server,     \* the connection thread
    active,     \* activeConnection_ is set
    socket,     \* the served connection's socket_ is valid
    phone,      \* "idle", "dialing" (in the backlog or accepted), or "on"
    far,        \* the served connection's other end is still there
    state,      \* metrics_.state
    watchdog,   \* the watchdog thread: "off", "on", "notify", "close", "ended"
    allow,      \* SecurityPolicy::allowUnauthenticated_
    told,       \* what handleHello read of it for the connection
    events,     \* queued calls of SessionStatus::applyEvent, each with `told`
    label,      \* stateLabel_
    open,       \* the `told` of the connection that the label is about
    warns       \* unauthenticated_

listenerVars == <<app, bound, stopping, acceptor, occupied>>
connectionVars == <<server, active, socket, phone, far>>
sessionVars == <<state, watchdog, allow, told>>
windowVars == <<events, label, open, warns>>
receiverVars == <<listenerVars, connectionVars, sessionVars, windowVars>>

-----------------------------------------------------------------------------
ReceiverInit ==
    /\ app = "start" /\ bound = FALSE /\ stopping = FALSE
    /\ acceptor = "none" /\ occupied = FALSE
    /\ server = "none" /\ active = FALSE /\ socket = FALSE
    /\ phone = "idle" /\ far = FALSE
    /\ state = "Disconnected" /\ watchdog = "off"
    /\ allow \in BOOLEAN /\ told = FALSE
    /\ events = <<>> /\ label = "Waiting" /\ open = FALSE /\ warns = FALSE

(* main() binds first; it only runs the event loop afterwards, so the window *)
(* is served until the loop is left and not while stop() waits.              *)
Bind ==
    /\ app = "start"
    /\ bound' = TRUE /\ acceptor' = "check" /\ app' = "exec"
    /\ UNCHANGED <<stopping, occupied, connectionVars, sessionVars, windowVars>>

BindFails ==
    /\ app = "start"
    /\ app' = "exec"
    /\ UNCHANGED <<bound, stopping, acceptor, occupied, connectionVars, sessionVars, windowVars>>

-----------------------------------------------------------------------------
(* The phone.  Closing the served connection is what it notices; a loss it   *)
(* notices at once leaves the PC's end half open.                            *)
HangUp == phone' = IF far THEN "idle" ELSE phone

Dial ==
    /\ bound /\ phone = "idle"
    /\ phone' = "dialing"
    /\ UNCHANGED <<listenerVars, server, active, socket, far, sessionVars, windowVars>>

Lost ==
    /\ far
    /\ far' = FALSE /\ phone' = "idle"
    /\ UNCHANGED <<listenerVars, server, active, socket, sessionVars, windowVars>>

-----------------------------------------------------------------------------
(* acceptLoop.  An error of accept() ends the loop, whatever it was. *)
CheckStopping ==
    /\ acceptor = "check"
    /\ acceptor' = IF stopping THEN "ended" ELSE "accept"
    /\ UNCHANGED <<app, bound, stopping, occupied, connectionVars, sessionVars, windowVars>>

Accept ==
    /\ acceptor = "accept" /\ bound /\ phone = "dialing"
    /\ acceptor' = "claim"
    /\ UNCHANGED <<app, bound, stopping, occupied, connectionVars, sessionVars, windowVars>>

AcceptFails ==
    /\ acceptor = "accept"
    /\ acceptor' = "ended"
    /\ UNCHANGED <<app, bound, stopping, occupied, connectionVars, sessionVars, windowVars>>

(* One connection at a time: a second one is closed at once. *)
Refuse ==
    /\ acceptor = "claim" /\ occupied
    /\ acceptor' = "check" /\ phone' = "idle"
    /\ UNCHANGED <<app, bound, stopping, occupied, server, active, socket, far, sessionVars, windowVars>>

ClaimUnmarked ==   \* mutant: connectionActive_ is read and not set
    /\ acceptor = "claim" /\ ~occupied
    /\ acceptor' = "spawn"
    /\ UNCHANGED <<app, bound, stopping, occupied, connectionVars, sessionVars, windowVars>>
Claim ==
    /\ acceptor = "claim" /\ ~occupied
    /\ occupied' = TRUE /\ acceptor' = "spawn"
    /\ UNCHANGED <<app, bound, stopping, connectionVars, sessionVars, windowVars>>

(* The previous connection's thread is joined before its std::thread is      *)
(* given the new one.                                                        *)
Spawn ==
    /\ acceptor = "spawn" /\ server \in {"none", "ended"}
    /\ acceptor' = "check" /\ server' = "register"
    /\ socket' = TRUE /\ far' = TRUE /\ phone' = "on"
    /\ UNCHANGED <<app, bound, stopping, occupied, active, sessionVars, windowVars>>

-----------------------------------------------------------------------------
(* serveConnection and the session it calls.  A notification is queued for   *)
(* the window after the state changed under the lock.                        *)
Register ==
    /\ server = "register"
    /\ active' = TRUE /\ server' = "connected"
    /\ UNCHANGED <<listenerVars, socket, phone, far, sessionVars, windowVars>>

Notify(event) ==
    /\ IF app = "exec"
       THEN Len(events) < MaxQueued /\ events' = Append(events, [what |-> event, told |-> told])
       ELSE UNCHANGED events   \* the event loop has ended
    /\ UNCHANGED <<label, open, warns>>

Tell(from, to, event) ==
    /\ server = from /\ server' = to
    /\ Notify(event)
    /\ UNCHANGED <<listenerVars, active, socket, phone, far>>

OnConnected ==
    /\ server = "connected" /\ watchdog \in {"off", "ended"}
    /\ state' = "AwaitingHello" /\ server' = "sayHello"
    /\ UNCHANGED <<listenerVars, active, socket, phone, far, watchdog, allow, told, windowVars>>

SayHello ==
    /\ Tell("sayHello", "loop", "awaiting_hello")
    /\ watchdog' = "on"
    /\ UNCHANGED <<state, allow, told>>

(* Around recv(): the connection's validity and stopping_ are looked at, and *)
(* then the call waits for as long as the socket is open.                    *)
CheckValid ==
    /\ server = "loop"
    /\ server' = IF stopping \/ ~socket THEN "disconnected" ELSE "recv"
    /\ UNCHANGED <<listenerVars, active, socket, phone, far, sessionVars, windowVars>>

ReceiveEnds ==
    /\ server = "recv" /\ (~socket \/ ~far)
    /\ server' = "disconnected"
    /\ UNCHANGED <<listenerVars, active, socket, phone, far, sessionVars, windowVars>>

Receives == server = "recv" /\ socket

(* handleHello asks the policy twice, whether it allows unauthenticated      *)
(* phones and whether it trusts this one; the user's switch may change in    *)
(* between.                                                                  *)
ReceiveHello ==
    /\ Receives /\ state = "AwaitingHello"
    /\ told' = allow /\ server' = "trusted"
    /\ UNCHANGED <<listenerVars, active, socket, phone, far, state, watchdog, allow, windowVars>>

Trusts(asks) == allow /\ asks

Trust(asks) ==
    /\ server = "trusted"
    /\ state' = IF Trusts(asks) THEN "Ready" ELSE "AwaitingTrust"
    /\ server' = IF ~Trusts(asks) THEN "sayTrust" ELSE IF told THEN "warn" ELSE "sayReady"
    /\ UNCHANGED <<listenerVars, active, socket, phone, far, watchdog, allow, told, windowVars>>

(* The downgrade is announced before the state. *)
ReadyFirst == <<"ready", "security.unauthenticated">>   \* mutant: and after it
WarningFirst == <<"security.unauthenticated", "ready">>

Warn == Tell("warn", "sayReady", WarningFirst[1]) /\ UNCHANGED sessionVars

SayState ==
    /\ \/ Tell("sayReady", "loop", IF told THEN WarningFirst[2] ELSE "ready")
       \/ Tell("sayTrust", "loop", "awaiting_trust")
       \/ Tell("sayStream", "loop", "streaming")
    /\ UNCHANGED sessionVars

StreamStart ==
    /\ Receives /\ state = "Ready"
    /\ state' = "Streaming" /\ server' = "sayStream"
    /\ UNCHANGED <<listenerVars, active, socket, phone, far, watchdog, allow, told, windowVars>>

(* protocolFailure: the state fails and the connection is closed.  It is     *)
(* what an unacceptable frame meets, and a handshake that cannot be sent.    *)
Hello == {"warn", "sayTrust"} \cup (IF told THEN {} ELSE {"sayReady"})

ProtocolFailure ==
    /\ Receives \/ server \in Hello
    /\ state' = "Failed" /\ server' = "loop"
    /\ socket' = FALSE /\ HangUp /\ far' = FALSE
    /\ UNCHANGED <<listenerVars, active, watchdog, allow, told, windowVars>>

(* onDisconnected joins the watchdog, resets the session and says so. *)
Detached == TRUE   \* mutant: the watchdog is not waited for
WatchdogJoined == watchdog \in {"off", "on", "ended"}

OnDisconnected ==
    /\ server = "disconnected" /\ WatchdogJoined
    /\ watchdog' = IF watchdog \in {"on", "ended"} THEN "off" ELSE watchdog
    /\ state' = "Disconnected" /\ server' = "sayBye" /\ told' = FALSE
    /\ UNCHANGED <<listenerVars, active, socket, phone, far, allow, windowVars>>

SayBye == Tell("sayBye", "unregister", "disconnected") /\ UNCHANGED sessionVars

(* activeConnection_ is cleared before the close. *)
Unregister ==
    /\ server = "unregister"
    /\ active' = FALSE /\ server' = "release"
    /\ socket' = FALSE /\ HangUp /\ far' = FALSE
    /\ UNCHANGED <<listenerVars, sessionVars, windowVars>>

StaysOccupied == occupied   \* mutant: connectionActive_ is not reset
Released == FALSE

Release ==
    /\ server = "release"
    /\ server' = "ended" /\ occupied' = Released
    /\ UNCHANGED <<app, bound, stopping, acceptor, active, socket, phone, far, sessionVars, windowVars>>

-----------------------------------------------------------------------------
(* The watchdog.  Every phase has a deadline; video keeps a stream alive. *)
Expire ==
    /\ watchdog = "on" /\ state \in {"AwaitingHello", "AwaitingTrust", "Ready", "Streaming"}
    /\ state' = "Failed" /\ watchdog' = "notify"
    /\ UNCHANGED <<listenerVars, connectionVars, allow, told, windowVars>>

SayTimeout ==
    /\ watchdog = "notify" /\ watchdog' = "close"
    /\ Notify("session.timeout")
    /\ UNCHANGED <<listenerVars, connectionVars, state, allow, told>>

CloseExpired ==
    /\ watchdog = "close" /\ watchdog' = "ended"
    /\ socket' = FALSE /\ HangUp /\ far' = FALSE
    /\ UNCHANGED <<listenerVars, server, active, state, allow, told, windowVars>>

-----------------------------------------------------------------------------
(* The window: SecurityPolicy's switch and SessionStatus::applyEvent. *)
SetAllowUnauthenticated ==
    /\ app = "exec"
    /\ allow' = ~allow
    /\ UNCHANGED <<listenerVars, connectionVars, state, watchdog, told, windowVars>>

Shown(event) ==
    CASE event = "awaiting_hello" -> "Connected"
      [] event = "awaiting_trust" -> "Pairing"
      [] event = "ready" -> "Ready"
      [] event = "streaming" -> "Streaming"
      [] event = "disconnected" -> "Waiting"
      [] event = "session.timeout" -> "TimedOut"
      [] OTHER -> label

ApplyEvent ==
    /\ app = "exec" /\ events # <<>>
    /\ events' = Tail(events)
    /\ LET event == Head(events) IN
        /\ label' = Shown(event.what)
        /\ open' = event.told
        /\ warns' = CASE event.what \in {"awaiting_hello", "disconnected"} -> FALSE
                      [] event.what = "security.unauthenticated" -> TRUE
                      [] OTHER -> warns
    /\ UNCHANGED <<listenerVars, connectionVars, sessionVars>>

-----------------------------------------------------------------------------
(* The event loop has ended: TcpListener::stop on the main thread. *)
Quit ==
    /\ app = "exec"
    /\ app' = "close" /\ stopping' = TRUE
    /\ events' = <<>> /\ label' = "Closed" /\ open' = FALSE /\ warns' = FALSE
    /\ UNCHANGED <<bound, acceptor, occupied, connectionVars, sessionVars>>

LeavesListening ==   \* mutant: the socket stays open
    /\ app = "close"
    /\ app' = "hangUp"
    /\ UNCHANGED <<bound, stopping, acceptor, occupied, connectionVars, sessionVars, windowVars>>
CloseListener ==
    /\ app = "close"
    /\ app' = "hangUp" /\ bound' = FALSE
    /\ phone' = IF phone = "dialing" /\ acceptor \notin {"claim", "spawn"} THEN "idle" ELSE phone
    /\ UNCHANGED <<stopping, acceptor, occupied, server, active, socket, far, sessionVars, windowVars>>

CloseActive ==
    /\ app = "hangUp"
    /\ app' = "joinAccept"
    /\ IF active THEN socket' = FALSE /\ HangUp /\ far' = FALSE
                 ELSE UNCHANGED <<socket, phone, far>>
    /\ UNCHANGED <<bound, stopping, acceptor, occupied, server, active, sessionVars, windowVars>>

JoinStep(from, to, joined) ==
    /\ app = from /\ joined /\ app' = to
    /\ UNCHANGED <<bound, stopping, acceptor, occupied, connectionVars, sessionVars, windowVars>>

AcceptDone == acceptor \in {"none", "ended"}
ServerDone == server \in {"none", "ended"}

JoinConnectionFirst ==   \* mutant: the connection's thread is joined first
    \/ JoinStep("joinAccept", "joinServer", ServerDone)
    \/ JoinStep("joinServer", "stopped", AcceptDone)
Join ==
    \/ JoinStep("joinAccept", "joinServer", AcceptDone)
    \/ JoinStep("joinServer", "stopped", ServerDone)

-----------------------------------------------------------------------------
Acceptor == CheckStopping \/ Accept \/ Refuse \/ Claim \/ Spawn
(* OnConnected and Quit are composed with the controls in Reception. *)
Server ==
    \/ Register \/ SayHello \/ CheckValid
    \/ \E asks \in BOOLEAN : Trust(asks)
    \/ Warn \/ SayState \/ OnDisconnected \/ SayBye \/ Unregister \/ Release
Peer == Dial \/ Lost \/ ReceiveHello \/ StreamStart \/ ProtocolFailure
WatchdogStep == SayTimeout \/ CloseExpired
Stop == CloseListener \/ CloseActive \/ Join

ReceiverNext ==
    \/ Acceptor \/ AcceptFails \/ Server \/ ReceiveEnds \/ Peer
    \/ Expire \/ WatchdogStep
    \/ SetAllowUnauthenticated \/ ApplyEvent
    \/ Stop
=============================================================================
