--------------------------- MODULE SessionController ---------------------------
(***************************************************************************)
(* The auth-gated backend session of the Windows host                      *)
(* (windows/backend/src/session_controller.cpp) under its four threads:    *)
(*                                                                         *)
(*   "net"     the listener's connection thread, which calls onConnected,  *)
(*             onFrame and onDisconnected one at a time;                   *)
(*   "ui"      the GUI thread: sendFormat, the other sends, setConsumer;   *)
(*   watchdog  the jthread that polls the deadlines every 100 ms;          *)
(*   worker    the media worker, which only asks for keyframes.            *)
(*                                                                         *)
(* One action is one critical section of mutex_, one callback under        *)
(* consumerMutex_, or one operation on the Connection, so every            *)
(* interleaving the two mutexes allow is a behaviour of Spec.  The phone   *)
(* is arbitrary: any frame may arrive at any time.  A generation stands    *)
(* for the stream configuration it carries (its codec in particular).      *)
(*                                                                         *)
(* Time: each IClock stamp is either recent or overdue.  Elapse makes a    *)
(* stamp overdue, taking a new stamp makes it recent.  A stamp is read by  *)
(* the watchdog only in the states of Watched and is always retaken on     *)
(* entry to them, so ageing only watched stamps loses no behaviour.        *)
(***************************************************************************)
EXTENDS Naturals, Sequences

CONSTANTS
    Consumers,       \* the IEncodedConsumer objects
    NoConsumer,      \* the null consumer
    InitialConsumer, \* the constructor's consumer argument
    SwapConsumers,   \* what the owner passes to setConsumer, {} if never called
    UsesSecurity,    \* built with an ISessionSecurity rather than a trust policy
    QueueLimit,      \* config_.maxQueuedAccessUnits
    MaxConnections,  \* bound: connections served
    MaxGeneration,   \* bound: live format changes per connection
    MaxFrames,       \* bound: video frames per connection
    Ageing           \* bound: the stamps whose deadlines may pass

ASSUME ConsumersAssumption ==
    /\ NoConsumer \notin Consumers
    /\ InitialConsumer \in Consumers \cup {NoConsumer}
    /\ SwapConsumers \subseteq Consumers \cup {NoConsumer}
ASSUME BoundsAssumption ==
    /\ UsesSecurity \in BOOLEAN
    /\ QueueLimit \in Nat \ {0}
    /\ MaxConnections \in Nat
    /\ MaxGeneration \in Nat \ {0}
    /\ MaxFrames \in Nat

VARIABLES
    \* guarded by mutex_
    connectionPtr,  \* connection_: the connection's number, 0 for nullptr
    state,          \* metrics_.state
    trusted,        \* metrics_.trusted
    hello,          \* hello_.has_value()
    waiting,        \* metrics_.waitingForKeyframe
    queue,          \* queue_
    pending,        \* pendingStreamConfig_ / pendingFormatGeneration, 0 for none
    streamGen,      \* metrics_.streamGeneration, which names streamConfig_
    nextGen,        \* nextFormatGeneration_
    nextToken,      \* nextQueueToken_
    draining,       \* draining_
    resetting,      \* resettingConsumer_
    received,       \* receivedVideo_
    consumer,       \* consumer_
    overdue,        \* the stamps that are past their deadline
    \* guarded by other means
    protector,      \* protector_ holds a session protector
    consumerMutex,  \* which thread is in a consumer callback
    connections,    \* metrics_.connections
    live,           \* the Connection object in scope, 0 for none
    valid,          \* its socket is open (Connection::valid)
    wd,             \* where the watchdog thread is
    wdTarget,       \* its `expired` pointer
    stopReq,        \* its stop token
    at,             \* where each of the threads "net" and "ui" is
    unit,           \* the access unit (or generation) each thread carries
    target,         \* the consumer pointer each thread has copied
    then,           \* where each thread goes next
    \* history
    sent,           \* kinds of message put on this connection's wire
    arrived,        \* video frames received on this connection
    fed             \* what each consumer was last reset to and last fed

trustVars   == <<state, trusted, hello, protector>>
queueVars   == <<waiting, queue, nextToken>>
formatVars  == <<pending, streamGen, nextGen>>
flagVars    == <<draining, resetting, received>>
sessionVars == <<trustVars, queueVars, formatVars, flagVars, overdue>>
consVars    == <<consumer, consumerMutex, fed>>
connVars    == <<connections, live, valid>>
wdVars      == <<wd, wdTarget, stopReq>>
outerVars   == <<connectionPtr, connVars, wdVars, sent, arrived>>
localVars   == <<unit, target, then>>
vars        == <<sessionVars, consVars, outerVars, localVars, at>>

-----------------------------------------------------------------------------
Threads == {"net", "ui"}
States == {"Disconnected", "AwaitingHello", "AwaitingTrust", "Ready",
           "Streaming", "Failed"}
Stamps == {"connectedAt", "trustAt", "readyAt", "pendingFormatAt",
           "streamingAt", "lastVideoAt", "lastActivity"}

(* An EncodedAccessUnit with its queue token.  pts is its arrival number on *)
(* connection conn; a frame that is not a keyframe needs the one before it. *)
Units == [conn : Nat, gen : Nat, key : BOOLEAN, pts : Nat, token : Nat]
Carrying(conn, gen) ==
    [conn |-> conn, gen |-> gen, key |-> FALSE, pts |-> 0, token |-> 0]
NoUnit == Carrying(0, 0)

(* What a consumer was last reset to, and the last unit it took since. *)
Feeds == [conn : Nat, gen : Nat, pts : Nat]

(* Where a thread that has finished its call is: the listener's loop tests  *)
(* Connection::valid, the GUI thread is in its event loop.                  *)
Home(t) == IF t = "net" THEN "check" ELSE "idle"

Goto(t, p) == at' = [at EXCEPT ![t] = p]
(* A step that only moves thread t. *)
Moves(t, p) ==
    /\ Goto(t, p)
    /\ UNCHANGED <<sessionVars, outerVars, localVars, consVars>>
Touch(stamps) == overdue' = overdue \ stamps

FlushOnly == queue' = <<>> /\ UNCHANGED waiting   \* mutant: no keyframe awaited
(* resetQueueLocked *)
ResetQueue == /\ queue' = <<>>
              /\ waiting' = TRUE

(* The send cannot succeed on a closed socket, and may fail on an open one. *)
SendResults == IF valid THEN BOOLEAN ELSE {FALSE}
(* What sendControl puts on the wire: a message of the given kind in an     *)
(* envelope, or in the clear where no protector_ is loaded.                 *)
Leaves(kind) == IF UsesSecurity /\ ~protector THEN "plain" ELSE kind
(* The guard of the sendControl that takes mutex_. *)
MaySend == connectionPtr # 0 /\ trusted /\ state \in {"Ready", "Streaming"}

Init ==
    /\ connectionPtr = 0 /\ state = "Disconnected" /\ trusted = FALSE
    /\ hello = FALSE /\ waiting = TRUE /\ queue = <<>> /\ pending = 0
    /\ streamGen = 0 /\ nextGen = 1 /\ nextToken = 1
    /\ draining = FALSE /\ resetting = FALSE /\ received = FALSE
    /\ consumer = InitialConsumer /\ overdue = {} /\ protector = FALSE
    /\ consumerMutex = "free" /\ connections = 0 /\ live = 0 /\ valid = FALSE
    /\ wd = "off" /\ wdTarget = 0 /\ stopReq = FALSE
    /\ at = [t \in Threads |-> IF t = "net" THEN "none" ELSE "idle"]
    /\ unit = [t \in Threads |-> NoUnit]
    /\ target = [t \in Threads |-> NoConsumer]
    /\ then = [t \in Threads |-> Home(t)]
    /\ sent = {} /\ arrived = 0
    /\ fed = [c \in Consumers |-> [conn |-> 0, gen |-> 0, pts |-> 0]]

-----------------------------------------------------------------------------
(* The connection thread: TcpListener::serveConnection around the handler.  *)

(* onConnected.  Its stopWatchdog joins a watchdog left over from before.   *)
OnConnected(configValid) ==
    /\ at["net"] = "none"
    /\ connections < MaxConnections
    /\ wd \in {"off", "done"}
    /\ connections' = connections + 1
    /\ live' = connections + 1
    /\ valid' = TRUE
    /\ connectionPtr' = connections + 1
    /\ state' = IF configValid THEN "AwaitingHello" ELSE "Failed"
    /\ trusted' = FALSE /\ hello' = FALSE /\ protector' = FALSE
    /\ ResetQueue /\ nextToken' = 1
    /\ pending' = 0 /\ streamGen' = 0 /\ nextGen' = 1
    /\ draining' = FALSE /\ resetting' = FALSE /\ received' = FALSE
    /\ overdue' = {}
    /\ wd' = IF configValid THEN "head" ELSE "off"
    /\ stopReq' = FALSE
    /\ Goto("net", IF configValid THEN "check" ELSE "close")
    /\ sent' = {} /\ arrived' = 0
    /\ UNCHANGED <<localVars, consVars, wdTarget>>

(* The loop's test of valid() before it receives. *)
CheckValid ==
    /\ at["net"] = "check"
    /\ Goto("net", IF valid THEN "recv" ELSE "closing")
    /\ unit' = [unit EXCEPT !["net"] = NoUnit]
    /\ target' = [target EXCEPT !["net"] = NoConsumer]
    /\ then' = [then EXCEPT !["net"] = "check"]
    /\ UNCHANGED <<sessionVars, outerVars, consVars>>

(* recv fails, the phone closes, framing is lost, or the listener stops. *)
ReceiveEnds ==
    /\ at["net"] = "recv"
    /\ Moves("net", "closing")

(* onDisconnected asks the watchdog to stop ... *)
RequestStop ==
    /\ at["net"] = "closing"
    /\ stopReq' = TRUE
    /\ Goto("net", "joining")
    /\ UNCHANGED <<sessionVars, connVars, localVars, consVars, connectionPtr,
                   wd, wdTarget, sent, arrived>>

(* ... joins it ... *)
DetachWatchdog == UNCHANGED <<wd, wdTarget>>   \* mutant: not joined
JoinWatchdog == /\ wd \in {"off", "done"}
                /\ wd' = "off" /\ wdTarget' = 0

(* ... drops the protector without mutex_, while the session is still       *)
(* trusted and its socket may be open ...                                   *)
DropProtector ==
    /\ at["net"] = "joining"
    /\ JoinWatchdog
    /\ protector' = FALSE
    /\ Goto("net", "clearing")
    /\ UNCHANGED <<state, trusted, hello, queueVars, formatVars, flagVars,
                   overdue, connVars, localVars, consVars, connectionPtr,
                   stopReq, sent, arrived>>

(* ... and clears the session in one critical section.  Nobody reaches the  *)
(* Connection any more, so its close and the end of its scope belong here.  *)
OnDisconnected ==
    /\ at["net"] = "clearing"
    /\ connectionPtr' = 0
    /\ state' = "Disconnected" /\ trusted' = FALSE /\ hello' = FALSE
    /\ pending' = 0 /\ streamGen' = 0
    /\ resetting' = FALSE /\ received' = FALSE
    /\ ResetQueue
    /\ live' = 0 /\ valid' = FALSE
    /\ Goto("net", "none")
    /\ sent' = {}
    /\ UNCHANGED <<localVars, consVars, nextToken, nextGen, draining, overdue,
                   connections, protector, wdVars, arrived>>

(* protocolFailure, in two steps: the state, then Connection::close. *)
ProtocolFailure ==
    /\ at["net"] = "fail"
    /\ state' = "Failed"
    /\ Goto("net", "close")
    /\ UNCHANGED <<outerVars, localVars, formatVars, queueVars, consVars,
                   flagVars, trusted, hello, protector, overdue>>

CloseConnection ==
    /\ at["net"] = "close"
    /\ valid' = FALSE
    /\ Goto("net", "check")
    /\ UNCHANGED <<sessionVars, wdVars, localVars, consVars, connectionPtr,
                   connections, live, sent, arrived>>

-----------------------------------------------------------------------------
(* onFrame and handleControl: the snapshot of state and trust, and where it *)
(* sends each message.                                                      *)

(* Frames onFrame refuses before it looks at their content: fragments, a    *)
(* rejected or unexpected envelope, a stray keyframe flag, a stats or       *)
(* unknown channel.                                                         *)
RejectFrame ==
    /\ at["net"] = "recv"
    /\ Moves("net", "fail")

(* Reserved audio and malformed messages change nothing and extend no       *)
(* deadline.                                                                *)
IgnoreFrame ==
    /\ at["net"] = "recv"
    /\ Moves("net", "check")

Types == {"hello", "auth_response", "format_ack", "format_reject",
          "stream_start", "telemetry", "pc_to_phone", "unknown"}

Refused(type) ==
    \/ type = "hello" /\ state # "AwaitingHello"
    \/ type # "hello" /\ state = "AwaitingHello"
    \/ type = "auth_response" /\ ~(state = "AwaitingTrust" /\ UsesSecurity)
    \/ /\ type \notin {"hello", "auth_response"}
       /\ trusted
       /\ state \notin {"Ready", "Streaming"} \/ type = "pc_to_phone"

(* Neither does anything before trust, or an unknown additive type. *)
Ignored(type) ==
    /\ ~Refused(type)
    /\ type \notin {"hello", "auth_response"}
    /\ ~trusted \/ type = "unknown"

HandleControl(type) ==
    /\ at["net"] = "recv"
    /\ Moves("net", IF Refused(type) THEN "fail"
                   ELSE IF Ignored(type) THEN "check" ELSE type)

(* caps, orientation, thermal, battery, camera_state, error *)
Telemetry ==
    /\ at["net"] = "telemetry"
    /\ Touch({"lastActivity"})
    /\ Goto("net", "check")
    /\ UNCHANGED <<outerVars, trustVars, localVars, formatVars, queueVars,
                   consVars, flagVars>>

(* stream_start: valid exactly once after ready. *)
StreamStart ==
    LET validTransition == state = "Ready" /\ pending = 0 /\ ~resetting IN
    /\ at["net"] = "stream_start"
    /\ \/ /\ validTransition
          /\ state' = "Streaming"
          /\ resetting' = TRUE
          /\ received' = FALSE
          /\ Touch({"streamingAt", "lastVideoAt", "lastActivity"})
          /\ unit' = [unit EXCEPT !["net"] = Carrying(live, streamGen)]
          /\ Goto("net", "reset")
       \/ /\ ~validTransition
          /\ Goto("net", "fail")
          /\ UNCHANGED <<state, resetting, received, overdue, unit>>
    /\ then' = [then EXCEPT !["net"] = "check"]
    /\ UNCHANGED <<outerVars, formatVars, queueVars, consVars, trusted, hello,
                   protector, draining, target>>

(* Whether an answer is for the pending change. *)
AnyAnswer(generation) == pending # 0 /\ ~resetting   \* mutant: any generation
Answers(generation) == pending # 0 /\ pending = generation /\ ~resetting

(* format_ack commits the pending generation and flushes the old one. *)
FormatAck(generation) ==
    /\ at["net"] = "format_ack"
    /\ \/ /\ Answers(generation)
          /\ ResetQueue
          /\ streamGen' = generation
          /\ pending' = 0
          /\ resetting' = TRUE
          /\ received' = FALSE
          /\ Touch({"streamingAt", "lastVideoAt", "lastActivity"})
          /\ unit' = [unit EXCEPT !["net"] = Carrying(live, generation)]
          /\ Goto("net", "reset")
       \/ /\ ~Answers(generation)
          /\ Goto("net", "fail")
          /\ UNCHANGED <<queue, waiting, streamGen, pending, resetting,
                         received, overdue, unit>>
    /\ then' = [then EXCEPT !["net"] = "askOrFail"]
    /\ UNCHANGED <<outerVars, trustVars, consVars, nextToken, nextGen,
                   draining, target>>

(* format_reject reopens the committed generation. *)
FormatReject(generation) ==
    /\ at["net"] = "format_reject"
    /\ \/ /\ Answers(generation)
          /\ ResetQueue
          /\ pending' = 0
          /\ received' = FALSE
          /\ Touch({"streamingAt", "lastVideoAt", "lastActivity"})
          /\ Goto("net", "askOrFail")
       \/ /\ ~Answers(generation)
          /\ Goto("net", "fail")
          /\ UNCHANGED <<queue, waiting, pending, received, overdue>>
    /\ UNCHANGED <<outerVars, trustVars, localVars, consVars, nextToken,
                   streamGen, nextGen, draining, resetting>>

(* The recovery keyframe request whose failure fails the session. *)
AskOrFail(ok) ==
    /\ at["net"] = "askOrFail"
    /\ ok => MaySend
    /\ sent' = IF ok THEN sent \cup {Leaves("command")} ELSE sent
    /\ Goto("net", IF ok THEN "check" ELSE "fail")
    /\ UNCHANGED <<sessionVars, connVars, wdVars, localVars, consVars,
                   connectionPtr, arrived>>

-----------------------------------------------------------------------------
(* The handshake. *)

(* handleHello up to its lock: a bad identity or version, or an             *)
(* authentication that cannot begin, fails the session.  A trust policy     *)
(* answers at once; with session security an unknown device gets no         *)
(* challenge and is left to the trust deadline.                             *)
HandleHello(policyTrusts, challenge) ==
    LET trust == ~UsesSecurity /\ policyTrusts IN
    /\ at["net"] = "hello"
    /\ challenge => UsesSecurity
    /\ hello' = TRUE
    /\ trusted' = trust
    /\ state' = IF trust THEN "Ready" ELSE "AwaitingTrust"
    /\ overdue' = overdue \ ({"lastActivity", "trustAt"}
                               \cup IF trust THEN {"readyAt"} ELSE {})
    /\ then' = [then EXCEPT !["net"] =
                  IF challenge THEN "sendChallenge"
                  ELSE IF trust THEN "sendReady" ELSE "check"]
    /\ Goto("net", "sendInfo")
    /\ UNCHANGED <<outerVars, formatVars, queueVars, consVars, flagVars,
                   protector, unit, target>>

HelloRefused ==
    /\ at["net"] = "hello"
    /\ Moves("net", "fail")

(* Each handshake message, and where the handler continues after it. *)
HandshakeSteps == {"sendInfo", "sendChallenge", "sendConfirm", "sendReady"}
Handshake == [sendInfo      |-> "server_info",
              sendChallenge |-> "auth_challenge",
              sendConfirm   |-> "auth_confirm",
              sendReady     |-> "ready"]

SendHandshake(step, ok) ==
    /\ at["net"] = step
    /\ sent' = IF ok THEN sent \cup {IF step = "sendReady" THEN Leaves("ready")
                                      ELSE Handshake[step]}
                ELSE sent
    /\ Goto("net", IF ~ok THEN "fail"
                   ELSE IF step = "sendInfo" THEN then["net"]
                   ELSE IF step = "sendConfirm" THEN "install" ELSE "check")
    /\ UNCHANGED <<sessionVars, connVars, wdVars, localVars, consVars,
                   connectionPtr, arrived>>

(* handleAuthResponse: the proof verifies, or the session fails. *)
HandleAuthResponse(proofVerifies) ==
    /\ at["net"] = "auth_response"
    /\ Moves("net", IF hello /\ proofVerifies THEN "sendConfirm" ELSE "fail")

SkipProtector == at["net"] = "install" /\ Moves("net", "trust")   \* mutant
InstallProtector ==
    /\ at["net"] = "install"
    /\ protector' = TRUE
    /\ Goto("net", "trust")
    /\ UNCHANGED <<outerVars, localVars, formatVars, queueVars, consVars,
                   flagVars, state, trusted, hello, overdue>>

GrantTrust ==
    /\ at["net"] = "trust"
    /\ trusted' = TRUE
    /\ state' = "Ready"
    /\ Touch({"readyAt", "lastActivity"})
    /\ Goto("net", "sendReady")
    /\ UNCHANGED <<outerVars, localVars, formatVars, queueVars, consVars,
                   flagVars, hello, protector>>

-----------------------------------------------------------------------------
(* handleVideo. *)

Gated == pending # 0 \/ resetting

(* The snapshot: an untrusted frame is ignored, one out of state dropped,   *)
(* and the others are inspected with the lock released.                     *)
HandleVideo(key, wellFormed) ==
    /\ at["net"] = "recv"
    /\ arrived < MaxFrames
    /\ arrived' = arrived + 1
    /\ \/ /\ trusted /\ state = "Streaming" /\ ~Gated
          /\ unit' = [unit EXCEPT !["net"] =
                        [conn |-> live, gen |-> streamGen, key |-> key,
                         pts |-> arrived + 1, token |-> 0]]
          /\ Goto("net", IF wellFormed THEN "enqueue" ELSE "invalid")
       \/ /\ ~(trusted /\ state = "Streaming" /\ ~Gated)
          /\ Goto("net", "check")
          /\ UNCHANGED unit
    /\ UNCHANGED <<sessionVars, connVars, wdVars, consVars, connectionPtr,
                   target, then, sent>>

(* Not Annex-B, no slice, a false keyframe flag or a keyframe that cannot   *)
(* stand alone: flush, and ask for a keyframe.                              *)
InvalidVideo ==
    /\ at["net"] = "invalid"
    /\ ResetQueue
    /\ Goto("net", "ask")
    /\ UNCHANGED <<outerVars, trustVars, localVars, formatVars, consVars,
                   flagVars, nextToken, overdue>>

(* The keyframe request whose result handleVideo drops. *)
AskKeyframe(ok) ==
    /\ at["net"] = "ask"
    /\ ok => MaySend
    /\ sent' = IF ok THEN sent \cup {Leaves("command")} ELSE sent
    /\ Goto("net", "check")
    /\ UNCHANGED <<sessionVars, connVars, wdVars, localVars, consVars,
                   connectionPtr, arrived>>

AwaitKeyframe ==
    /\ at["net"] = "enqueue"
    /\ waiting /\ ~unit["net"].key
    /\ Moves("net", "check")

(* bytesExceeded stands for maxQueuedBytes, which one unit alone cannot     *)
(* exceed.                                                                  *)
Overflow(bytesExceeded) ==
    Len(queue) >= QueueLimit \/ (bytesExceeded /\ queue # <<>>)

(* The second lock: accept the unit with the generation of the snapshot. *)
Enqueue(bytesExceeded) ==
    LET u == unit["net"] IN
    /\ at["net"] = "enqueue"
    /\ ~waiting \/ u.key
    /\ Touch({"lastActivity", "lastVideoAt"})
    /\ received' = TRUE
    /\ \/ /\ Overflow(bytesExceeded)
          /\ ResetQueue
          /\ Goto("net", "ask")
          /\ UNCHANGED nextToken
       \/ /\ ~Overflow(bytesExceeded)
          /\ queue' = Append(queue, [u EXCEPT !.token = nextToken])
          /\ nextToken' = nextToken + 1
          /\ waiting' = (waiting /\ ~u.key)
          /\ Goto("net", "drain")
    /\ UNCHANGED <<outerVars, trustVars, localVars, formatVars, consVars,
                   draining, resetting>>

-----------------------------------------------------------------------------
(* drainQueue and resetConsumer, run by either thread. *)

BeginDrain(t) ==
    /\ at[t] = "drain"
    /\ draining' = TRUE
    /\ Goto(t, IF draining THEN Home(t) ELSE "front")
    /\ UNCHANGED <<outerVars, trustVars, localVars, formatVars, queueVars,
                   consVars, resetting, received, overdue>>

(* Copy the front of the queue and the consumer pointer, or stop. *)
TakeFront(t) ==
    /\ at[t] = "front"
    /\ \/ /\ queue = <<>> \/ consumer = NoConsumer \/ resetting
          /\ draining' = FALSE
          /\ Goto(t, Home(t))
          /\ UNCHANGED <<unit, target>>
       \/ /\ queue # <<>> /\ consumer # NoConsumer /\ ~resetting
          /\ unit' = [unit EXCEPT ![t] = Head(queue)]
          /\ target' = [target EXCEPT ![t] = consumer]
          /\ Goto(t, "consume")
          /\ UNCHANGED draining
    /\ UNCHANGED <<outerVars, trustVars, formatVars, queueVars, consVars,
                   resetting, received, overdue, then>>

BeginConsume(t) ==
    /\ at[t] = "consume"
    /\ consumerMutex = "free"
    /\ consumerMutex' = t
    /\ Goto(t, "consuming")
    /\ UNCHANGED <<sessionVars, outerVars, localVars, consumer, fed>>

(* consume() returns; false means temporarily busy. *)
EndConsume(t, consumed) ==
    /\ at[t] = "consuming"
    /\ consumerMutex' = "free"
    /\ fed' = IF consumed
              THEN [fed EXCEPT ![target[t]] =
                      [conn |-> @.conn, gen |-> @.gen, pts |-> unit[t].pts]]
              ELSE fed
    /\ Goto(t, IF consumed THEN "pop" ELSE "busy")
    /\ UNCHANGED <<sessionVars, outerVars, localVars, consumer>>

StopDrain(t) ==
    /\ at[t] = "busy"
    /\ draining' = FALSE
    /\ Goto(t, Home(t))
    /\ UNCHANGED <<outerVars, trustVars, localVars, formatVars, queueVars,
                   consVars, resetting, received, overdue>>

PopAny(t) ==   \* mutant: without comparing tokens
    /\ at[t] = "pop"
    /\ queue' = IF queue # <<>> THEN Tail(queue) ELSE queue
    /\ Goto(t, "front")
    /\ UNCHANGED <<outerVars, trustVars, localVars, formatVars, consVars,
                   flagVars, waiting, nextToken, overdue>>

(* Remove the unit just consumed if it still is the front. *)
PopConsumed(t) ==
    /\ at[t] = "pop"
    /\ queue' = IF queue # <<>> /\ Head(queue).token = unit[t].token
                THEN Tail(queue) ELSE queue
    /\ Goto(t, "front")
    /\ UNCHANGED <<outerVars, trustVars, localVars, formatVars, consVars,
                   flagVars, waiting, nextToken, overdue>>

ResetOnce(t) ==   \* mutant: an already configured decoder is kept
    /\ at[t] = "reset"
    /\ consumerMutex = "free"
    /\ fed' = IF consumer = NoConsumer \/ fed[consumer].conn # 0 THEN fed
              ELSE [fed EXCEPT ![consumer] = [conn |-> unit[t].conn,
                                              gen |-> unit[t].gen, pts |-> 0]]
    /\ Goto(t, "resetDone")
    /\ UNCHANGED <<sessionVars, outerVars, localVars, consumer, consumerMutex>>

(* resetConsumer calls reset() on the current consumer. *)
ResetConsumer(t) ==
    /\ at[t] = "reset"
    /\ consumerMutex = "free"
    /\ fed' = IF consumer = NoConsumer THEN fed
              ELSE [fed EXCEPT ![consumer] = [conn |-> unit[t].conn,
                                              gen |-> unit[t].gen, pts |-> 0]]
    /\ Goto(t, "resetDone")
    /\ UNCHANGED <<sessionVars, outerVars, localVars, consumer, consumerMutex>>

ResetDone(t) ==
    /\ at[t] = "resetDone"
    /\ resetting' = FALSE
    /\ Goto(t, then[t])
    /\ UNCHANGED <<outerVars, trustVars, localVars, formatVars, queueVars,
                   consVars, draining, received, overdue>>

-----------------------------------------------------------------------------
(* The owner's calls. *)

(* sendPreview, sendCamera, sendControls, sendStats, requestKeyframe: from  *)
(* the GUI thread or the media worker, under mutex_.                        *)
SendCommand ==
    /\ MaySend /\ valid
    /\ sent' = sent \cup {Leaves("command")}
    /\ UNCHANGED <<sessionVars, connVars, wdVars, localVars, consVars,
                   connectionPtr, at, arrived>>

(* sendFormat: the pending generation is recorded before it is sent, and    *)
(* withdrawn if the send fails.                                             *)
SendFormat(ok) ==
    /\ at["ui"] = "idle"
    /\ MaySend /\ state = "Streaming" /\ ~Gated
    /\ nextGen <= MaxGeneration
    /\ nextGen' = nextGen + 1
    /\ pending' = IF ok THEN nextGen ELSE 0
    /\ Touch({"pendingFormatAt"})
    /\ ResetQueue
    /\ sent' = IF ok THEN sent \cup {Leaves("command")} ELSE sent
    /\ UNCHANGED <<trustVars, connVars, wdVars, localVars, consVars, flagVars,
                   connectionPtr, nextToken, streamGen, at, arrived>>

(* setConsumer: replace the pointer, reset the new consumer, drain. *)
SetConsumer(c) ==
    LET reset == c # NoConsumer /\ state = "Streaming" /\ ~Gated IN
    /\ at["ui"] = "idle"
    /\ consumerMutex = "free"
    /\ consumer' = c
    /\ resetting' = (resetting \/ reset)
    /\ unit' = [unit EXCEPT !["ui"] = Carrying(live, streamGen)]
    /\ then' = [then EXCEPT !["ui"] = "drain"]
    /\ Goto("ui", IF reset THEN "reset" ELSE "drain")
    /\ UNCHANGED <<outerVars, trustVars, formatVars, queueVars, draining,
                   received, consumerMutex, fed, overdue, target>>

-----------------------------------------------------------------------------
(* The watchdog. *)

UnwatchedReady ==   \* mutant: no deadline between READY and stream_start
    {s \in Stamps :
        \/ s = "connectedAt" /\ state = "AwaitingHello"
        \/ s = "trustAt" /\ state = "AwaitingTrust"
        \/ s = "pendingFormatAt" /\ pending # 0
        \/ /\ state = "Streaming"
           /\ s = IF received THEN "lastVideoAt" ELSE "streamingAt"
        \/ s = "lastActivity"}

UnwatchedStream ==   \* mutant: no deadline for the video of a stream
    {s \in Stamps :
        \/ s = "connectedAt" /\ state = "AwaitingHello"
        \/ s = "trustAt" /\ state = "AwaitingTrust"
        \/ s = "pendingFormatAt" /\ pending # 0
        \/ s = "readyAt" /\ state = "Ready"
        \/ s = "lastActivity"}

(* The stamps its comparisons use in the current state. *)
Watched ==
    {s \in Stamps :
        \/ s = "connectedAt" /\ state = "AwaitingHello"
        \/ s = "trustAt" /\ state = "AwaitingTrust"
        \/ s = "pendingFormatAt" /\ pending # 0
        \/ s = "readyAt" /\ state = "Ready"
        \/ /\ state = "Streaming"
           /\ s = IF received THEN "lastVideoAt" ELSE "streamingAt"
        \/ s = "lastActivity"}

Elapse(s) ==
    /\ connectionPtr # 0
    /\ s \in (Watched \cap Ageing) \ overdue
    /\ overdue' = overdue \cup {s}
    /\ UNCHANGED <<outerVars, trustVars, localVars, formatVars, queueVars,
                   consVars, flagVars, at>>

WatchdogLoop ==
    /\ wd = "head"
    /\ wd' = IF stopReq THEN "done" ELSE "asleep"
    /\ UNCHANGED <<sessionVars, connVars, localVars, consVars, connectionPtr,
                   wdTarget, stopReq, at, sent, arrived>>

WatchdogCheck ==
    /\ wd = "asleep"
    /\ \/ /\ connectionPtr = 0
          /\ wd' = "done"
          /\ UNCHANGED <<state, wdTarget>>
       \/ /\ connectionPtr # 0 /\ overdue \cap Watched # {}
          /\ wd' = "expired"
          /\ wdTarget' = connectionPtr
          /\ state' = "Failed"
       \/ /\ connectionPtr # 0 /\ overdue \cap Watched = {}
          /\ wd' = "head"
          /\ UNCHANGED <<state, wdTarget>>
    /\ UNCHANGED <<connVars, localVars, formatVars, queueVars, consVars,
                   flagVars, connectionPtr, trusted, hello, protector, overdue,
                   stopReq, at, sent, arrived>>

WatchdogLeavesOpen ==   \* mutant: the state changes, the socket stays
    /\ wd = "expired"
    /\ wd' = "done"
    /\ UNCHANGED <<sessionVars, localVars, consVars, connectionPtr, connVars,
                   wdTarget, stopReq, at, sent, arrived>>

(* expired->close(), outside the lock. *)
WatchdogClose ==
    /\ wd = "expired"
    /\ wd' = "done"
    /\ valid' = (valid /\ wdTarget # live)
    /\ UNCHANGED <<sessionVars, localVars, consVars, connectionPtr,
                   connections, live, wdTarget, stopReq, at, sent, arrived>>

-----------------------------------------------------------------------------
NetHandler ==
    \/ CheckValid \/ RequestStop \/ DropProtector \/ OnDisconnected
    \/ ProtocolFailure \/ CloseConnection
    \/ Telemetry \/ StreamStart
    \/ \E g \in 1..MaxGeneration : FormatAck(g) \/ FormatReject(g)
    \/ \E ok \in SendResults : AskOrFail(ok) \/ AskKeyframe(ok)
    \/ \E trusts, challenge \in BOOLEAN : HandleHello(trusts, challenge)
    \/ HelloRefused
    \/ \E step \in HandshakeSteps, ok \in SendResults :
         SendHandshake(step, ok)
    \/ \E proof \in BOOLEAN : HandleAuthResponse(proof)
    \/ InstallProtector \/ GrantTrust
    \/ InvalidVideo \/ AwaitKeyframe
    \/ \E big \in BOOLEAN : Enqueue(big)

Receive ==
    \/ ReceiveEnds \/ RejectFrame \/ IgnoreFrame
    \/ \E type \in Types : HandleControl(type)
    \/ \E key, wellFormed \in BOOLEAN : HandleVideo(key, wellFormed)

Delivery(t) ==
    \/ BeginDrain(t) \/ TakeFront(t) \/ BeginConsume(t)
    \/ \E consumed \in BOOLEAN : EndConsume(t, consumed)
    \/ StopDrain(t) \/ PopConsumed(t) \/ ResetConsumer(t) \/ ResetDone(t)

Owner ==
    \/ SendCommand
    \/ \E ok \in SendResults : SendFormat(ok)
    \/ \E c \in SwapConsumers : SetConsumer(c)

Watchdog == WatchdogLoop \/ WatchdogCheck \/ WatchdogClose

Next ==
    \/ \E configValid \in BOOLEAN : OnConnected(configValid)
    \/ NetHandler
    \/ Receive
    \/ \E t \in Threads : Delivery(t)
    \/ Owner
    \/ Watchdog
    \/ \E s \in Stamps : Elapse(s)

Spec == Init /\ [][Next]_vars

(* The threads run and the clock advances; the phone, the owner and the     *)
(* consumer's answers owe nothing.  A closed socket fails the blocked recv. *)
Fairness ==
    /\ WF_vars(NetHandler)
    /\ WF_vars(ReceiveEnds /\ ~valid)
    /\ \A t \in Threads : WF_vars(Delivery(t))
    /\ WF_vars(Watchdog)
    /\ \A s \in Stamps : WF_vars(Elapse(s))

FairSpec == Spec /\ Fairness

-----------------------------------------------------------------------------
NetPlaces == {"none", "check", "recv", "closing", "joining", "clearing",
              "fail", "close", "hello", "auth_response", "format_ack", "format_reject",
              "stream_start", "telemetry", "askOrFail", "ask", "install",
              "trust", "invalid", "enqueue"} \cup HandshakeSteps
DrainPlaces == {"drain", "front", "consume", "consuming", "busy", "pop"}
ResetPlaces == {"reset", "resetDone"}
UiPlaces == {"idle"}

TypeOK ==
    /\ connectionPtr \in Nat /\ state \in States /\ trusted \in BOOLEAN
    /\ hello \in BOOLEAN /\ protector \in BOOLEAN
    /\ waiting \in BOOLEAN /\ queue \in Seq(Units) /\ nextToken \in Nat
    /\ pending \in Nat /\ streamGen \in Nat /\ nextGen \in Nat
    /\ draining \in BOOLEAN /\ resetting \in BOOLEAN /\ received \in BOOLEAN
    /\ overdue \subseteq Stamps
    /\ consumer \in Consumers \cup {NoConsumer}
    /\ consumerMutex \in Threads \cup {"free"}
    /\ fed \in [Consumers -> Feeds]
    /\ connections \in Nat /\ live \in Nat /\ valid \in BOOLEAN
    /\ wd \in {"off", "head", "asleep", "expired", "done"}
    /\ wdTarget \in Nat /\ stopReq \in BOOLEAN
    /\ at \in [Threads ->
                 NetPlaces \cup DrainPlaces \cup ResetPlaces \cup UiPlaces]
    /\ unit \in [Threads -> Units]
    /\ target \in [Threads -> Consumers \cup {NoConsumer}]
    /\ then \in [Threads -> {"check", "idle", "askOrFail", "sendChallenge",
                             "sendReady", "drain"}]
    /\ sent \subseteq {"server_info", "auth_challenge", "auth_confirm",
                       "ready", "command", "plain"}
    /\ arrived \in Nat

(* No thread holds a pointer to a Connection that has left scope: the        *)
(* session's connection_ and the watchdog's captured `expired` always name   *)
(* the connection being served, because onDisconnected joins the watchdog    *)
(* and clears connection_ before serveConnection destroys the object.        *)
ConnectionInScope ==
    /\ connectionPtr # 0 => connectionPtr = live
    /\ wd = "expired" => wdTarget = live /\ live # 0

(* A consumer is only fed units of the connection and format generation it   *)
(* was last reset to ("prevents old queued H.264 from entering a newly       *)
(* rebuilt HEVC decoder").                                                   *)
DecoderGeneration ==
    \A t \in Threads :
        at[t] = "consuming" =>
            /\ fed[target[t]].conn = unit[t].conn
            /\ fed[target[t]].gen = unit[t].gen

(* What a consumer is fed can be decoded: in arrival order, each unit once,  *)
(* and a unit that is not a keyframe directly after the unit it refers to,   *)
(* whatever was dropped, flushed, refused as busy or reset in between.       *)
DecodableDelivery ==
    \A t \in Threads :
        at[t] = "consuming" =>
            LET last == fed[target[t]].pts IN
            /\ unit[t].pts > last
            /\ unit[t].key \/ (last # 0 /\ unit[t].pts = last + 1)

(* The generations of one connection: a pending change is the newest one     *)
(* requested and newer than the committed one, and only a session that has   *)
(* started streaming has one.                                                *)
GenerationOrder ==
    /\ streamGen < nextGen
    /\ pending # 0 => /\ pending = nextGen - 1
                      /\ streamGen < pending
                      /\ state \in {"Streaming", "Failed"}

(* Media waits in the queue only for a trusted peer on a live connection,    *)
(* never while a keyframe is awaited, and never beyond the bound.            *)
QueueGuarded ==
    queue # <<>> => /\ trusted /\ live # 0 /\ ~waiting
                    /\ Len(queue) <= QueueLimit

(* With session security, while a connection is served no message that       *)
(* follows the granted trust leaves in the clear, READY and the commands of  *)
(* every thread included.  The exception is a command of another thread      *)
(* between onDisconnected's protector_.store(nullptr) and its critical       *)
(* section: connection_ and the trust still stand there, and the socket may. *)
EnvelopedWhileServed == "plain" \in sent => at["net"] = "clearing"

(* Within a connection the committed generation never goes back.             *)
GenerationNeverRegresses ==
    [][live' = live /\ live # 0 => streamGen' >= streamGen]_vars

(* drainQueue's comment: it removes only the exact unit just consumed, never *)
(* the new generation's front, whoever flushed or refilled the queue while   *)
(* consume() was in flight.                                                  *)
PopsOnlyConsumed ==
    [][\A t \in Threads :
         at[t] = "pop" /\ at'[t] = "front" /\ queue' # queue
            => Head(queue) = unit[t]]_vars

(* A session that is not yet streaming ends or proceeds, whatever the phone  *)
(* keeps sending.                                                            *)
IncompleteSessionEnds ==
    state \in {"AwaitingHello", "AwaitingTrust", "Ready"}
        ~> state \notin {"AwaitingHello", "AwaitingTrust", "Ready"}

(* A live format change is answered, or its session ended, even by a phone   *)
(* that stays silent for ever.                                               *)
PendingFormatResolves == pending # 0 ~> pending = 0

(* A stream gets another video frame or ends, also when the phone keeps the  *)
(* session alive with other messages.                                        *)
VideoArrivesOrEnds ==
    \A n \in 0..MaxFrames :
        state = "Streaming" /\ arrived = n ~> state # "Streaming" \/ arrived # n

(* The watchdog's deadlines together: no phase before streaming, no wait for *)
(* video and no format change lasts for ever.                                *)
StallsEnd == IncompleteSessionEnds /\ VideoArrivesOrEnds /\ PendingFormatResolves

=============================================================================
