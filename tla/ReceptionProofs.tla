---------------------------- MODULE ReceptionProofs ----------------------------
(***************************************************************************)
(* Safety of Reception, for every length of the event queue and every      *)
(* control; the schemas of the messages that its two ends exchange; and    *)
(* the heads of their bytes, for every argument of 64 bits.                *)
(***************************************************************************)
EXTENDS MessageFields, CborHeads, SequenceTheorems, WellFoundedInduction, TLAPS

Apps == {"start", "exec", "close", "hangUp", "joinAccept", "joinServer", "stopped"}
Acceptors == {"none", "check", "accept", "claim", "spawn", "ended"}
Watchdogs == {"off", "on", "notify", "close", "ended"}

(* The places of the connection thread, first those without a watchdog *)
Quiet == {"none", "register", "connected", "sayHello", "sayBye", "unregister",
          "release", "ended"}
Watched == {"loop", "recv", "trusted", "warn", "sayReady", "sayTrust", "sayStream",
            "disconnected"}

(* Every thread is at a place of its code. *)
PlaceInv ==
    /\ app \in Apps /\ acceptor \in Acceptors /\ server \in Quiet \cup Watched
    /\ phone \in {"idle", "dialing", "on"} /\ state \in Phases /\ watchdog \in Watchdogs

(* Who holds the connection, and whom stop() has waited for *)
HoldInv ==
    /\ server \notin {"none", "ended"} => occupied
    /\ acceptor = "spawn" => occupied /\ server \in {"none", "ended"}
    /\ app = "start" => acceptor = "none" /\ server = "none"
    /\ app \in {"joinServer", "stopped"} => AcceptDone
    /\ app = "stopped" => ServerDone

(* The watchdog's life lies within the connection's, and it closes the socket; *)
(* until it interferes, the state is the one that is about to be told.         *)
WatchInv ==
    /\ server \in Quiet => watchdog = "off"
    /\ server \in Watched => watchdog # "off"
    /\ watchdog = "ended" => ~socket
    /\ server = "sayHello" => state = "AwaitingHello"
    /\ server \in {"warn", "sayReady"} /\ watchdog = "on" => state = "Ready"
    /\ server = "sayTrust" => state \in {"AwaitingTrust", "Failed"}
    /\ server = "sayTrust" /\ watchdog = "on" => state = "AwaitingTrust"
    /\ server = "sayStream" /\ watchdog = "on" => state = "Streaming"

(* Boolean state *)
FlagInv ==
    /\ bound \in BOOLEAN /\ stopping \in BOOLEAN /\ occupied \in BOOLEAN
    /\ active \in BOOLEAN /\ socket \in BOOLEAN /\ far \in BOOLEAN
    /\ allow \in BOOLEAN /\ told \in BOOLEAN /\ warns \in BOOLEAN

Queued == [what : Told, told : BOOLEAN]

(* The window before the event loop, in it and after it *)
WindowInv ==
    /\ events \in Seq(Queued) /\ label \in Labels /\ open \in BOOLEAN
    /\ app = "start" => events = <<>> /\ label = "Waiting" /\ ~warns /\ ~open
    /\ app \notin {"start", "exec"} => label = "Closed" /\ events = <<>>

(* The label an event sets; the warning sets none. *)
LabelOf(what) ==
    CASE what = "awaiting_hello" -> "Connected"
      [] what = "awaiting_trust" -> "Pairing"
      [] what = "ready" -> "Ready"
      [] what = "streaming" -> "Streaming"
      [] what = "disconnected" -> "Waiting"
      [] what = "session.timeout" -> "TimedOut"
      [] OTHER -> "none"

(* The label there will be when the queue has been worked off *)
Final(evs, lab) == IF evs = <<>> THEN lab ELSE LabelOf(evs[Len(evs)].what)

PhaseLabel(phase) ==
    CASE phase = "AwaitingHello" -> "Connected"
      [] phase = "AwaitingTrust" -> "Pairing"
      [] OTHER -> phase

(* That label is the phase's, for an open connection that did not time out,  *)
(* and "Waiting" where there is none.                                        *)
LabelInv ==
    app = "exec" =>
        /\ server \in Quiet \ {"sayBye"} => Final(events, label) = "Waiting"
        /\ server \in {"loop", "recv"} /\ socket /\ watchdog = "on" =>
             Final(events, label) = PhaseLabel(state)

(* The warning is up after the first n events of the queue. *)
Clears == {"awaiting_hello", "disconnected"}
Warned(evs, w, n) ==
    \/ w /\ \A k \in 1..n : evs[k].what \notin Clears
    \/ \E j \in 1..n : /\ evs[j].what = "security.unauthenticated"
                       /\ \A k \in (j + 1)..n : evs[k].what \notin Clears

(* An event that shows a session granted without authentication *)
Downgraded(e) == e.told /\ e.what \in {"ready", "streaming"}

(* Every such event comes when the warning is up. *)
AllWarned(evs, w) == \A i \in 1..Len(evs) : Downgraded(evs[i]) => Warned(evs, w, i - 1)

WarnInv ==
    app = "exec" =>
        /\ label \in {"Ready", "Streaming"} /\ open => warns
        /\ AllWarned(events, warns)
        /\ told /\ (server \in {"sayReady", "sayStream"}
                     \/ (server \in {"loop", "recv"} /\ state = "Ready"))
             => Warned(events, warns, Len(events))

(* A pending change is the one shown, and the phone's is, unless one is      *)
(* pending.                                                                  *)
PanelInv ==
    /\ chosen \in Values \cup {Unknown} /\ given \in Values \cup {Unknown}
    /\ pending \in Values \cup {Unknown} /\ timer \in 0..Delay
    /\ (timer > 0) = (pending # Unknown)
    /\ pending # Unknown => pending = chosen
    /\ LastChangeWins

(* The inductive invariant *)
IInv ==
    /\ PlaceInv /\ HoldInv /\ WatchInv /\ FlagInv
    /\ WindowInv /\ LabelInv /\ WarnInv /\ PanelInv

-----------------------------------------------------------------------------
(* What an event at the end of the queue means for the label and the warning *)
LEMMA AppendWindow ==
  ASSUME NEW evs \in Seq(Queued), NEW e \in Queued, NEW lab, NEW w \in BOOLEAN,
         NEW new, new = Append(evs, e)
  PROVE  /\ new \in Seq(Queued) /\ Final(new, lab) = LabelOf(e.what)
         /\ AllWarned(evs, w) /\ (Downgraded(e) => Warned(evs, w, Len(evs)))
              => AllWarned(new, w)
         /\ e.what \notin Clears /\ Warned(evs, w, Len(evs)) => Warned(new, w, Len(new))
         /\ e.what = "security.unauthenticated" => Warned(new, w, Len(new))
  <1>1. PICK n : n = Len(evs) /\ n \in Nat
    OBVIOUS
  <1>2. /\ new \in Seq(Queued) /\ Len(new) = n + 1 /\ new # <<>> /\ new[n + 1] = e
        /\ \A i \in 1..n : new[i] = evs[i]
    BY <1>1
  <1>3. PICK r : r = new
    OBVIOUS
  <1>4. /\ Len(r) = n + 1 /\ r # <<>> /\ r[n + 1] = e /\ \A i \in 1..n : r[i] = evs[i]
    BY <1>2, <1>3
  <1>5. Final(r, lab) = LabelOf(e.what)
    BY <1>4 DEF Final
  <1>6. \A m \in 0..n : Warned(evs, w, m) => Warned(r, w, m)
    BY <1>1, <1>4 DEF Warned
  <1>7. AllWarned(evs, w) /\ (Downgraded(e) => Warned(evs, w, n)) => AllWarned(r, w)
    <2> SUFFICES ASSUME AllWarned(evs, w), Downgraded(e) => Warned(evs, w, n),
                        NEW i \in 1..(n + 1), Downgraded(r[i])
                 PROVE  Warned(r, w, i - 1)
      BY <1>4 DEF AllWarned
    <2>1. CASE i = n + 1
      BY <1>1, <1>4, <1>6, <2>1
    <2>2. CASE i \in 1..n
      <3>1. i - 1 \in 0..n /\ Warned(evs, w, i - 1)
        BY <1>1, <1>4, <2>2 DEF AllWarned
      <3> QED BY <1>6, <3>1
    <2> QED BY <1>1, <2>1, <2>2
  <1>8. e.what \notin Clears /\ Warned(evs, w, n) => Warned(r, w, n + 1)
    <2> SUFFICES ASSUME e.what \notin Clears, Warned(evs, w, n) PROVE Warned(r, w, n + 1)
      OBVIOUS
    <2>1. CASE w /\ \A k \in 1..n : evs[k].what \notin Clears
      BY <1>1, <1>4, <2>1 DEF Warned
    <2>2. CASE \E j \in 1..n : /\ evs[j].what = "security.unauthenticated"
                              /\ \A k \in (j + 1)..n : evs[k].what \notin Clears
      <3>1. PICK j \in 1..n : /\ evs[j].what = "security.unauthenticated"
                              /\ \A k \in (j + 1)..n : evs[k].what \notin Clears
        BY <2>2
      <3>2. j \in 1..(n + 1) /\ r[j].what = "security.unauthenticated"
        BY <1>1, <1>4, <3>1
      <3>3. \A k \in (j + 1)..(n + 1) : r[k].what \notin Clears
        BY <1>1, <1>4, <3>1
      <3> QED BY <3>2, <3>3 DEF Warned
    <2> QED BY <2>1, <2>2 DEF Warned
  <1>9. e.what = "security.unauthenticated" => Warned(r, w, n + 1)
    <2>1. n + 1 \in 1..(n + 1) /\ \A k \in ((n + 1) + 1)..(n + 1) : FALSE
      BY <1>1
    <2> QED BY <1>4, <2>1 DEF Warned
  <1> QED BY <1>1, <1>2, <1>3, <1>5, <1>7, <1>8, <1>9

(* What applying the first event of the queue leaves *)
Applied(evs, h, rest, w, lab2, w2) ==
    /\ evs \in Seq(Queued) /\ evs # <<>> /\ h = Head(evs) /\ rest = Tail(evs)
    /\ w \in BOOLEAN /\ w2 \in BOOLEAN
    /\ h.what # "security.unauthenticated" => lab2 = LabelOf(h.what)
    /\ h.what \in Clears => ~w2
    /\ h.what = "security.unauthenticated" => w2
    /\ h.what \notin Clears \cup {"security.unauthenticated"} => w2 = w

LEMMA TailWindow ==
  ASSUME NEW evs, NEW h, NEW rest, NEW lab, NEW lab2, NEW w, NEW w2,
         Applied(evs, h, rest, w, lab2, w2)
  PROVE  /\ rest \in Seq(Queued) /\ h \in Queued
         /\ Final(evs, lab) # "none" => Final(rest, lab2) = Final(evs, lab)
         /\ AllWarned(evs, w) => AllWarned(rest, w2) /\ (Downgraded(h) => w)
         /\ Warned(evs, w, Len(evs)) => Warned(rest, w2, Len(rest))
  <1> USE DEF Applied
  <1>1. PICK n : n = Len(evs) - 1 /\ n \in Nat
    OBVIOUS
  <1>2. /\ rest \in Seq(Queued) /\ h = evs[1] /\ h \in Queued /\ Len(rest) = n
        /\ \A i \in 1..n : rest[i] = evs[i + 1]
    BY <1>1
  <1>3. PICK r : r = rest /\ Len(evs) = n + 1
    BY <1>1
  <1>4. Len(r) = n /\ (r = <<>> <=> n = 0) /\ \A i \in 1..n : r[i] = evs[i + 1]
    <2>1. \A q \in Seq(Queued) : q = <<>> <=> Len(q) = 0
      OBVIOUS
    <2> QED BY <1>2, <1>3, <2>1
  <1>5. LabelOf("security.unauthenticated") = "none"
    BY DEF LabelOf
  <1>6. Final(evs, lab) # "none" => Final(r, lab2) = Final(evs, lab)
    <2>1. CASE n = 0
      BY <1>2, <1>3, <1>4, <1>5, <2>1 DEF Final
    <2>2. CASE n # 0
      <3>1. n \in 1..n
        BY <1>1, <2>2
      <3> QED BY <1>3, <1>4, <2>2, <3>1 DEF Final
    <2> QED BY <2>1, <2>2
  <1>7. ASSUME NEW m \in 0..n, Warned(evs, w, m + 1) PROVE Warned(r, w2, m)
    <2>1. CASE w /\ \A k \in 1..(m + 1) : evs[k].what \notin Clears
      <3>1. h.what \notin Clears /\ w2
        <4>1. 1 \in 1..(m + 1)
          BY <1>1
        <4>2. h.what \notin Clears /\ w
          BY <1>2, <2>1, <4>1
        <4> QED BY <4>2, Zenon
      <3>2. \A k \in 1..m : r[k].what \notin Clears
        BY <1>1, <1>4, <2>1
      <3> QED BY <3>1, <3>2 DEF Warned
    <2>2. CASE \E j \in 1..(m + 1) :
                 /\ evs[j].what = "security.unauthenticated"
                 /\ \A k \in (j + 1)..(m + 1) : evs[k].what \notin Clears
      <3>1. PICK j \in 1..(m + 1) :
                 /\ evs[j].what = "security.unauthenticated"
                 /\ \A k \in (j + 1)..(m + 1) : evs[k].what \notin Clears
        BY <2>2
      <3>2. CASE j = 1
        <4>1. \A k \in 1..m : r[k].what \notin Clears
          BY <1>1, <1>4, <3>1, <3>2
        <4>2. w2
          BY <1>2, <3>1, <3>2
        <4> QED BY <4>1, <4>2 DEF Warned
      <3>3. CASE j # 1
        <4>1. PICK i : i = j - 1 /\ i \in 1..m
          BY <1>1, <3>1, <3>3
        <4>2. r[i].what = "security.unauthenticated"
          BY <1>1, <1>4, <3>1, <4>1
        <4>3. \A k \in (i + 1)..m : r[k].what \notin Clears
          BY <1>1, <1>4, <3>1, <4>1
        <4> QED BY <4>1, <4>2, <4>3 DEF Warned
      <3> QED BY <3>2, <3>3
    <2> QED BY <1>7, <2>1, <2>2 DEF Warned
  <1>8. AllWarned(evs, w) => AllWarned(r, w2)
    <2> SUFFICES ASSUME AllWarned(evs, w), NEW i \in 1..n, Downgraded(r[i])
                 PROVE  Warned(r, w2, i - 1)
      BY <1>4 DEF AllWarned
    <2>1. Downgraded(evs[i + 1]) /\ i + 1 \in 1..(n + 1) /\ i - 1 \in 0..n /\ (i + 1) - 1 = (i - 1) + 1
      BY <1>1, <1>4
    <2>2. Warned(evs, w, (i - 1) + 1)
      BY <1>3, <2>1 DEF AllWarned
    <2> QED BY <1>7, <2>1, <2>2
  <1>9. AllWarned(evs, w) /\ Downgraded(h) => w
    <2>1. 1 \in 1..Len(evs) /\ 1 - 1 = 0 /\ \A j \in 1..0 : FALSE
      BY <1>1, <1>3
    <2>2. Warned(evs, w, 0) => w
      BY <2>1 DEF Warned
    <2> QED BY <1>2, <2>1, <2>2 DEF AllWarned
  <1>10. Warned(evs, w, Len(evs)) => Warned(r, w2, n)
    <2>1. n \in 0..n
      BY <1>1
    <2> QED BY <1>3, <1>7, <2>1
  <1> QED BY <1>2, <1>3, <1>6, <1>8, <1>9, <1>10

-----------------------------------------------------------------------------
LEMMA PlaceNext == PlaceInv /\ [Next]_vars => PlaceInv'
  <1> SUFFICES ASSUME PlaceInv, [Next]_vars PROVE PlaceInv'
    OBVIOUS
  <1> USE DEF PlaceInv, Apps, Acceptors, Quiet, Watched, Phases, Watchdogs,
             listenerVars, connectionVars, sessionVars, windowVars
  <1>1. CASE Bind \/ BindFails
    BY <1>1 DEF Bind, BindFails
  <1>2. CASE Acceptor \/ AcceptFails
    BY <1>2 DEF Acceptor, AcceptFails, CheckStopping, Accept, Refuse, Claim, Spawn
  <1>3. CASE Register \/ SayHello \/ CheckValid \/ ReceiveEnds
    BY <1>3 DEF Register, SayHello, Tell, CheckValid, ReceiveEnds
  <1>4. CASE \E asks \in BOOLEAN : Trust(asks)
    BY <1>4 DEF Trust
  <1>5. CASE Warn \/ SayState \/ SayBye
    BY <1>5 DEF Warn, SayState, SayBye, Tell
  <1>6. CASE OnDisconnected \/ Unregister \/ Release
    BY <1>6 DEF OnDisconnected, WatchdogJoined, Unregister, HangUp, Release, Released
  <1>7. CASE Peer
    BY <1>7 DEF Peer, Dial, Lost, ReceiveHello, StreamStart, ProtocolFailure, Receives, Hello,
               HangUp
  <1>8. CASE Expire \/ WatchdogStep
    BY <1>8 DEF Expire, WatchdogStep, SayTimeout, CloseExpired, HangUp
  <1>9. CASE Stop
    BY <1>9 DEF Stop, CloseListener, CloseActive, HangUp, Join, JoinStep
  <1>10. CASE Welcome \/ Leave
    BY <1>10 DEF Welcome, OnConnected, Leave, Quit
  <1>11. CASE SetAllowUnauthenticated \/ ApplyEvent
    BY <1>11 DEF SetAllowUnauthenticated, ApplyEvent
  <1>12. CASE Panel \/ Tick \/ UNCHANGED vars
    BY <1>12 DEF Panel, Tick, vars, receiverVars
  <1> QED BY <1>1, <1>2, <1>3, <1>4, <1>5, <1>6, <1>7, <1>8, <1>9, <1>10, <1>11, <1>12
          DEF Next, ReceiverNext, Server

LEMMA HoldNext == HoldInv /\ [Next]_vars => HoldInv'
  <1> SUFFICES ASSUME HoldInv, [Next]_vars PROVE HoldInv'
    OBVIOUS
  <1> USE DEF HoldInv, AcceptDone, ServerDone, listenerVars, connectionVars, sessionVars, windowVars
  <1>1. CASE Bind \/ BindFails
    BY <1>1 DEF Bind, BindFails
  <1>2. CASE Acceptor \/ AcceptFails
    BY <1>2 DEF Acceptor, AcceptFails, CheckStopping, Accept, Refuse, Claim, Spawn
  <1>3. CASE Register \/ SayHello \/ CheckValid \/ ReceiveEnds
    BY <1>3 DEF Register, SayHello, Tell, CheckValid, ReceiveEnds
  <1>4. CASE \E asks \in BOOLEAN : Trust(asks)
    BY <1>4 DEF Trust
  <1>5. CASE Warn \/ SayState \/ SayBye
    BY <1>5 DEF Warn, SayState, SayBye, Tell
  <1>6. CASE OnDisconnected \/ Unregister \/ Release
    BY <1>6 DEF OnDisconnected, WatchdogJoined, Unregister, HangUp, Release, Released
  <1>7. CASE Peer
    BY <1>7 DEF Peer, Dial, Lost, ReceiveHello, StreamStart, ProtocolFailure, Receives, Hello,
               HangUp
  <1>8. CASE Expire \/ WatchdogStep
    BY <1>8 DEF Expire, WatchdogStep, SayTimeout, CloseExpired, HangUp
  <1>9. CASE Stop
    BY <1>9 DEF Stop, CloseListener, CloseActive, HangUp, Join, JoinStep
  <1>10. CASE Welcome \/ Leave
    BY <1>10 DEF Welcome, OnConnected, Leave, Quit
  <1>11. CASE SetAllowUnauthenticated \/ ApplyEvent
    BY <1>11 DEF SetAllowUnauthenticated, ApplyEvent
  <1>12. CASE Panel \/ Tick \/ UNCHANGED vars
    BY <1>12 DEF Panel, Tick, vars, receiverVars
  <1> QED BY <1>1, <1>2, <1>3, <1>4, <1>5, <1>6, <1>7, <1>8, <1>9, <1>10, <1>11, <1>12
          DEF Next, ReceiverNext, Server

LEMMA WatchNext == WatchInv /\ [Next]_vars => WatchInv'
  <1> SUFFICES ASSUME WatchInv, [Next]_vars PROVE WatchInv'
    OBVIOUS
  <1> USE DEF WatchInv, Quiet, Watched, listenerVars, connectionVars, sessionVars, windowVars
  <1>1. CASE Bind \/ BindFails
    BY <1>1 DEF Bind, BindFails
  <1>2. CASE Acceptor \/ AcceptFails
    BY <1>2 DEF Acceptor, AcceptFails, CheckStopping, Accept, Refuse, Claim, Spawn
  <1>3. CASE Register \/ SayHello \/ CheckValid \/ ReceiveEnds
    BY <1>3 DEF Register, SayHello, Tell, CheckValid, ReceiveEnds
  <1>4. CASE \E asks \in BOOLEAN : Trust(asks)
    BY <1>4 DEF Trust
  <1>5. CASE Warn \/ SayState \/ SayBye
    BY <1>5 DEF Warn, SayState, SayBye, Tell
  <1>6. CASE OnDisconnected \/ Unregister \/ Release
    BY <1>6 DEF OnDisconnected, WatchdogJoined, Unregister, HangUp, Release, Released
  <1>7. CASE Peer
    BY <1>7 DEF Peer, Dial, Lost, ReceiveHello, StreamStart, ProtocolFailure, Receives, Hello,
               HangUp
  <1>8. CASE Expire \/ WatchdogStep
    BY <1>8 DEF Expire, WatchdogStep, SayTimeout, CloseExpired, HangUp
  <1>9. CASE Stop
    BY <1>9 DEF Stop, CloseListener, CloseActive, HangUp, Join, JoinStep
  <1>10. CASE Welcome \/ Leave
    BY <1>10 DEF Welcome, OnConnected, Leave, Quit
  <1>11. CASE SetAllowUnauthenticated \/ ApplyEvent \/ Panel \/ Tick \/ UNCHANGED vars
    <2>1. UNCHANGED <<server, watchdog, socket, state>>
      BY <1>11 DEF SetAllowUnauthenticated, ApplyEvent, Panel, Tick, vars, receiverVars
    <2> QED BY <2>1
  <1> QED BY <1>1, <1>2, <1>3, <1>4, <1>5, <1>6, <1>7, <1>8, <1>9, <1>10, <1>11
          DEF Next, ReceiverNext, Server

LEMMA FlagNext == FlagInv /\ [Next]_vars => FlagInv'
  <1> SUFFICES ASSUME FlagInv, [Next]_vars PROVE FlagInv'
    OBVIOUS
  <1> USE DEF FlagInv, listenerVars, connectionVars, sessionVars, windowVars
  <1>1. CASE Bind \/ BindFails
    BY <1>1 DEF Bind, BindFails
  <1>2. CASE Acceptor \/ AcceptFails
    BY <1>2 DEF Acceptor, AcceptFails, CheckStopping, Accept, Refuse, Claim, Spawn
  <1>3. CASE Register \/ SayHello \/ CheckValid \/ ReceiveEnds
    BY <1>3 DEF Register, SayHello, Tell, Notify, CheckValid, ReceiveEnds
  <1>4. CASE \E asks \in BOOLEAN : Trust(asks)
    BY <1>4 DEF Trust
  <1>5. CASE Warn \/ SayState \/ SayBye
    BY <1>5 DEF Warn, SayState, SayBye, Tell, Notify
  <1>6. CASE OnDisconnected \/ Unregister \/ Release
    BY <1>6 DEF OnDisconnected, WatchdogJoined, Unregister, HangUp, Release, Released
  <1>7. CASE Peer
    BY <1>7 DEF Peer, Dial, Lost, ReceiveHello, StreamStart, ProtocolFailure, Receives, Hello,
               HangUp
  <1>8. CASE Expire \/ WatchdogStep
    BY <1>8 DEF Expire, WatchdogStep, SayTimeout, Notify, CloseExpired, HangUp
  <1>9. CASE Stop
    BY <1>9 DEF Stop, CloseListener, CloseActive, HangUp, Join, JoinStep
  <1>10. CASE Welcome \/ Leave
    BY <1>10 DEF Welcome, OnConnected, Leave, Quit
  <1>11. CASE SetAllowUnauthenticated \/ ApplyEvent
    BY <1>11 DEF SetAllowUnauthenticated, ApplyEvent
  <1>12. CASE Panel \/ Tick \/ UNCHANGED vars
    BY <1>12 DEF Panel, Tick, vars, receiverVars
  <1> QED BY <1>1, <1>2, <1>3, <1>4, <1>5, <1>6, <1>7, <1>8, <1>9, <1>10, <1>11, <1>12
          DEF Next, ReceiverNext, Server

-----------------------------------------------------------------------------
(* A notification of the event what *)
LEMMA NotifyFacts ==
  ASSUME FlagInv, WindowInv, NEW what \in Told, Notify(what)
  PROVE  /\ UNCHANGED <<label, open, warns>> /\ events' \in Seq(Queued)
         /\ app # "exec" => UNCHANGED events
         /\ app = "exec" =>
              /\ Final(events', label) = LabelOf(what)
              /\ AllWarned(events, warns)
                 /\ (told /\ what \in {"ready", "streaming"} =>
                       Warned(events, warns, Len(events))) => AllWarned(events', warns)
              /\ what \notin Clears /\ Warned(events, warns, Len(events))
                   => Warned(events', warns, Len(events'))
              /\ what = "security.unauthenticated" => Warned(events', warns, Len(events'))
  <1>1. PICK e : e = [what |-> what, told |-> told]
    OBVIOUS
  <1>2. /\ e \in Queued /\ e.what = what
        /\ Downgraded(e) <=> told /\ what \in {"ready", "streaming"}
    BY <1>1 DEF Queued, FlagInv, Downgraded
  <1>3. /\ UNCHANGED <<label, open, warns>> /\ events \in Seq(Queued) /\ warns \in BOOLEAN
        /\ app # "exec" => UNCHANGED events
        /\ app = "exec" => events' = Append(events, e)
    BY <1>1 DEF Notify, WindowInv, FlagInv
  <1>4. CASE app # "exec"
    BY <1>3, <1>4
  <1>5. CASE app = "exec"
    <2>1. PICK new : new = events' /\ new = Append(events, e)
      BY <1>3, <1>5
    <2>2. /\ new \in Seq(Queued) /\ Final(new, label) = LabelOf(what)
          /\ AllWarned(events, warns) /\ (Downgraded(e) => Warned(events, warns, Len(events)))
               => AllWarned(new, warns)
          /\ what \notin Clears /\ Warned(events, warns, Len(events))
               => Warned(new, warns, Len(new))
          /\ what = "security.unauthenticated" => Warned(new, warns, Len(new))
      BY <1>2, <1>3, <2>1, AppendWindow
    <2> QED BY <1>2, <1>3, <1>5, <2>1, <2>2
  <1> QED BY <1>4, <1>5

(* Applying an event *)
LEMMA ApplyFacts ==
  ASSUME FlagInv, WindowInv, ApplyEvent
  PROVE  /\ events' \in Seq(Queued) /\ label' \in Labels /\ open' \in BOOLEAN
         /\ Final(events, label) # "none" => Final(events', label') = Final(events, label)
         /\ AllWarned(events, warns) => AllWarned(events', warns')
         /\ Warned(events, warns, Len(events)) => Warned(events', warns', Len(events'))
         /\ AllWarned(events, warns) /\ label' \in {"Ready", "Streaming"} /\ open' => warns'
  <1>1. PICK h : h = Head(events)
    OBVIOUS
  <1>2. /\ events \in Seq(Queued) /\ events # <<>> /\ events' = Tail(events)
        /\ label' = Shown(h.what) /\ open' = h.told
        /\ warns' = CASE h.what \in {"awaiting_hello", "disconnected"} -> FALSE
                      [] h.what = "security.unauthenticated" -> TRUE
                      [] OTHER -> warns
    BY <1>1 DEF ApplyEvent, WindowInv
  <1>3. h \in Queued
    BY <1>1, <1>2
  <1>4. h.what \in Told /\ h.told \in BOOLEAN
    BY <1>3 DEF Queued
  <1>5. /\ h.what # "security.unauthenticated" => label' = LabelOf(h.what)
        /\ h.what = "security.unauthenticated" => label' = label
        /\ label' \in Labels
    BY <1>2, <1>4 DEF Shown, LabelOf, Told, Labels, WindowInv
  <1>6. /\ h.what \in Clears => ~warns'
        /\ h.what = "security.unauthenticated" => warns'
        /\ h.what \notin Clears \cup {"security.unauthenticated"} => warns' = warns
    BY <1>2 DEF Clears
  <1>7. warns \in BOOLEAN /\ warns' \in BOOLEAN
    BY <1>2, Zenon DEF FlagInv
  <1>8. PICK lab, w, rest : lab = label' /\ w = warns' /\ rest = events'
    OBVIOUS
  <1>9. /\ rest \in Seq(Queued)
        /\ Final(events, label) # "none" => Final(rest, lab) = Final(events, label)
        /\ AllWarned(events, warns) => AllWarned(rest, w) /\ (Downgraded(h) => warns)
        /\ Warned(events, warns, Len(events)) => Warned(rest, w, Len(rest))
    <2>1. Applied(events, h, rest, warns, lab, w)
      BY <1>1, <1>2, <1>5, <1>6, <1>7, <1>8 DEF Applied
    <2> QED BY <2>1, TailWindow
  <1>10. AllWarned(events, warns) /\ label' \in {"Ready", "Streaming"} /\ open' => warns'
    <2> SUFFICES ASSUME AllWarned(events, warns), label' \in {"Ready", "Streaming"}, open'
                 PROVE  warns'
      OBVIOUS
    <2>1. CASE h.what = "security.unauthenticated"
      BY <1>6, <2>1
    <2>2. CASE h.what # "security.unauthenticated"
      <3>1. h.what \in {"ready", "streaming"}
        BY <1>4, <1>5, <2>2 DEF LabelOf, Told
      <3>2. Downgraded(h)
        BY <1>2, <3>1 DEF Downgraded
      <3>3. warns
        BY <1>9, <3>2
      <3>4. warns' = warns
        BY <1>6, <3>1 DEF Clears
      <3> QED BY <3>3, <3>4, Zenon
    <2> QED BY <2>1, <2>2
  <1> QED BY <1>2, <1>4, <1>5, <1>8, <1>9, <1>10

LEMMA WindowNext == IInv /\ [Next]_vars => WindowInv'
  <1> SUFFICES ASSUME IInv, [Next]_vars PROVE WindowInv'
    OBVIOUS
  <1> USE DEF IInv, listenerVars, connectionVars, sessionVars, windowVars
  <1>1. ASSUME NEW what \in Told, Notify(what), app' = app, app # "start" PROVE WindowInv'
    BY <1>1, NotifyFacts DEF WindowInv
  <1>2. ASSUME UNCHANGED <<events, label, open, warns>>,
               app' = app \/ app' = "exec" \/ (app \notin {"start", "exec"} /\ app' # "start")
        PROVE  WindowInv'
    BY <1>2 DEF WindowInv
  <1>3. CASE ApplyEvent
    <2>1. app = "exec" /\ app' = app
      BY <1>3 DEF ApplyEvent
    <2> QED BY <1>3, <2>1, ApplyFacts DEF WindowInv
  <1>4. CASE Leave
    <2>1. app' = "close" /\ events' = <<>> /\ label' = "Closed" /\ open' = FALSE
      BY <1>4 DEF Leave, Quit
    <2>2. open' \in BOOLEAN
      BY <2>1, Zenon
    <2> QED BY <2>1, <2>2 DEF WindowInv, Labels
  <1>5. CASE SayHello \/ Warn \/ SayState \/ SayBye \/ SayTimeout
    <2>1. app' = app /\ app # "start" /\ \E what \in Told : Notify(what)
      BY <1>5 DEF SayHello, Warn, SayState, SayBye, SayTimeout, Tell, WarningFirst, Told,
                  HoldInv, WatchInv, Quiet
    <2> QED BY <1>1, <2>1
  <1>6. CASE Bind \/ BindFails \/ Acceptor \/ AcceptFails
    BY <1>2, <1>6 DEF Bind, BindFails, Acceptor, AcceptFails, CheckStopping, Accept, Refuse,
                      Claim, Spawn
  <1>7. CASE Register \/ CheckValid \/ ReceiveEnds \/ OnDisconnected \/ Unregister \/ Release
    BY <1>2, <1>7 DEF Register, CheckValid, ReceiveEnds, OnDisconnected, Unregister, Release
  <1>8. CASE Peer \/ \E asks \in BOOLEAN : Trust(asks)
    BY <1>2, <1>8 DEF Peer, Dial, Lost, ReceiveHello, StreamStart, ProtocolFailure, Trust
  <1>9. CASE Expire \/ CloseExpired \/ SetAllowUnauthenticated \/ Stop
    BY <1>2, <1>9 DEF Expire, CloseExpired, SetAllowUnauthenticated, Stop, CloseListener,
                      CloseActive, Join, JoinStep
  <1>10. CASE Welcome \/ Panel \/ Tick \/ UNCHANGED vars
    BY <1>2, <1>10 DEF Welcome, OnConnected, Panel, Tick, vars, receiverVars
  <1> QED BY <1>3, <1>4, <1>5, <1>6, <1>7, <1>8, <1>9, <1>10
          DEF Next, ReceiverNext, Server, WatchdogStep

LEMMA LabelNext == IInv /\ [Next]_vars => LabelInv'
  <1> SUFFICES ASSUME IInv, [Next]_vars, app' = "exec" PROVE LabelInv'
    BY DEF LabelInv
  <1> USE DEF IInv, listenerVars, connectionVars, sessionVars, windowVars
  <1>1. CASE Bind \/ BindFails
    <2>1. /\ app = "start" /\ server' = server /\ UNCHANGED <<events, label>>
      BY <1>1 DEF Bind, BindFails
    <2> QED BY <2>1 DEF HoldInv, WindowInv, LabelInv, Final
  <1>2. CASE Acceptor \/ AcceptFails
    BY <1>2 DEF Acceptor, AcceptFails, CheckStopping, Accept, Refuse, Claim, Spawn,
                LabelInv, Quiet
  <1>3. CASE Register \/ CheckValid \/ ReceiveEnds \/ \E asks \in BOOLEAN : Trust(asks)
    BY <1>3 DEF Register, CheckValid, ReceiveEnds, Trust, LabelInv, Quiet
  <1>4. CASE OnDisconnected \/ Unregister \/ Release
    BY <1>4 DEF OnDisconnected, Unregister, Release, LabelInv, Quiet
  <1>5. CASE Peer
    BY <1>5 DEF Peer, Dial, Lost, ReceiveHello, StreamStart, ProtocolFailure, Receives, Hello,
                LabelInv, Quiet
  <1>6. CASE Expire \/ CloseExpired
    BY <1>6 DEF Expire, CloseExpired, LabelInv, WatchInv
  <1>7. CASE SetAllowUnauthenticated \/ Panel \/ Tick \/ UNCHANGED vars
    <2>1. UNCHANGED <<app, server, watchdog, socket, state, events, label>>
      BY <1>7 DEF SetAllowUnauthenticated, Panel, Tick, vars, receiverVars
    <2> QED BY <2>1 DEF LabelInv
  <1>8. CASE Welcome \/ Leave \/ Stop
    BY <1>8 DEF Welcome, OnConnected, Leave, Quit, Stop, CloseListener, CloseActive, Join,
                JoinStep, LabelInv, Quiet
  <1>9. CASE ApplyEvent
    <2>1. UNCHANGED <<app, server, watchdog, socket, state>>
      BY <1>9 DEF ApplyEvent
    <2>2. PhaseLabel(state) # "none"
      BY DEF PlaceInv, Phases, PhaseLabel
    <2> QED BY <1>9, <2>1, <2>2, ApplyFacts DEF LabelInv
  <1>10. ASSUME NEW what \in Told, Notify(what), app = "exec"
         PROVE  Final(events', label') = LabelOf(what)
    BY <1>10, NotifyFacts
  <1>11. CASE SayHello
    <2>1. /\ app = "exec" /\ server' = "loop" /\ Notify("awaiting_hello")
          /\ state' = "AwaitingHello"
      BY <1>11 DEF SayHello, Tell, WatchInv
    <2>2. Final(events', label') = "Connected"
      BY <1>10, <2>1 DEF Told, LabelOf
    <2> QED BY <2>1, <2>2 DEF LabelInv, Quiet, PhaseLabel
  <1>12. CASE Warn
    BY <1>12 DEF Warn, Tell, LabelInv, Quiet
  <1>13. CASE SayState
    <2>1. /\ app = "exec" /\ server' = "loop" /\ UNCHANGED <<socket, watchdog, state>>
          /\ \/ server = "sayReady" /\ Notify("ready")
             \/ server = "sayTrust" /\ Notify("awaiting_trust")
             \/ server = "sayStream" /\ Notify("streaming")
      BY <1>13 DEF SayState, Tell, WarningFirst
    <2>2. watchdog = "on" => Final(events', label') = PhaseLabel(state)
      BY <1>10, <2>1 DEF Told, LabelOf, PhaseLabel, WatchInv
    <2> QED BY <2>1, <2>2 DEF LabelInv, Quiet
  <1>14. CASE SayBye
    <2>1. app = "exec" /\ server' = "unregister" /\ Notify("disconnected")
      BY <1>14 DEF SayBye, Tell
    <2>2. Final(events', label') = "Waiting"
      BY <1>10, <2>1 DEF Told, LabelOf
    <2> QED BY <2>1, <2>2 DEF LabelInv
  <1>15. CASE SayTimeout
    BY <1>15 DEF SayTimeout, LabelInv, WatchInv
  <1> QED BY <1>1, <1>2, <1>3, <1>4, <1>5, <1>6, <1>7, <1>8, <1>9, <1>11, <1>12, <1>13,
             <1>14, <1>15 DEF Next, ReceiverNext, Server, WatchdogStep

LEMMA WarnNext == IInv /\ [Next]_vars => WarnInv'
  <1> SUFFICES ASSUME IInv, [Next]_vars, app' = "exec" PROVE WarnInv'
    BY DEF WarnInv
  <1> USE DEF IInv, listenerVars, connectionVars, sessionVars, windowVars
  <1> DEFINE Owes == told /\ (server \in {"sayReady", "sayStream"}
                               \/ (server \in {"loop", "recv"} /\ state = "Ready"))
  <1>1. CASE Bind \/ BindFails
    <2>1. /\ app = "start" /\ server = "none" /\ server' = "none" /\ events' = <<>>
          /\ label' = "Waiting"
      BY <1>1 DEF Bind, BindFails, HoldInv, WindowInv
    <2>2. AllWarned(events', warns')
      BY <2>1 DEF AllWarned
    <2> QED BY <2>1, <2>2 DEF WarnInv
  <1>2. ASSUME UNCHANGED <<app, events, label, open, warns>>, Owes' => Owes PROVE WarnInv'
    BY <1>2 DEF WarnInv
  <1>3. CASE Acceptor \/ AcceptFails
    BY <1>2, <1>3 DEF Acceptor, AcceptFails, CheckStopping, Accept, Refuse, Claim, Spawn
  <1>4. CASE Register \/ CheckValid \/ ReceiveEnds \/ \E asks \in BOOLEAN : Trust(asks)
    BY <1>2, <1>4 DEF Register, CheckValid, ReceiveEnds, Trust
  <1>5. CASE OnDisconnected \/ Unregister \/ Release
    BY <1>2, <1>5 DEF OnDisconnected, Unregister, Release
  <1>6. CASE Peer
    BY <1>2, <1>6 DEF Peer, Dial, Lost, ReceiveHello, StreamStart, ProtocolFailure, Receives,
                      Hello
  <1>7. CASE Expire \/ CloseExpired
    BY <1>2, <1>7 DEF Expire, CloseExpired
  <1>8. CASE SetAllowUnauthenticated \/ Panel \/ Tick \/ UNCHANGED vars
    <2>1. UNCHANGED <<app, events, label, open, warns, told, server, state>>
      BY <1>8 DEF SetAllowUnauthenticated, Panel, Tick, vars, receiverVars
    <2> QED BY <1>2, <2>1
  <1>9. CASE Welcome \/ Leave \/ Stop
    BY <1>2, <1>9 DEF Welcome, OnConnected, Leave, Quit, Stop, CloseListener, CloseActive,
                      Join, JoinStep
  <1>10. CASE ApplyEvent
    <2>1. UNCHANGED <<app, told, server, state>>
      BY <1>10 DEF ApplyEvent
    <2> QED BY <1>10, <2>1, ApplyFacts DEF WarnInv
  <1>11. ASSUME NEW what \in Told, Notify(what), app = "exec",
                told /\ what \in {"ready", "streaming"} => Warned(events, warns, Len(events)),
                Owes' => \/ what = "security.unauthenticated"
                         \/ what \notin Clears /\ Warned(events, warns, Len(events))
         PROVE  WarnInv'
    <2>1. /\ UNCHANGED <<label, open, warns>> /\ AllWarned(events', warns)
          /\ Owes' => Warned(events', warns, Len(events'))
      BY <1>11, NotifyFacts DEF WarnInv
    <2> QED BY <1>11, <2>1 DEF WarnInv
  <1>12. CASE SayHello
    <2>1. /\ app = "exec" /\ server' = "loop" /\ Notify("awaiting_hello")
          /\ state' = "AwaitingHello"
      BY <1>12 DEF SayHello, Tell, WatchInv
    <2> QED BY <1>11, <2>1 DEF Told
  <1>13. CASE Warn
    <2>1. app = "exec" /\ Notify("security.unauthenticated")
      BY <1>13 DEF Warn, Tell, WarningFirst
    <2> QED BY <1>11, <2>1 DEF Told
  <1>14. CASE SayState
    <2>1. /\ app = "exec" /\ server' = "loop" /\ UNCHANGED <<told, state>>
          /\ \/ server = "sayReady" /\ Notify("ready")
             \/ server = "sayTrust" /\ Notify("awaiting_trust")
             \/ server = "sayStream" /\ Notify("streaming")
      BY <1>14 DEF SayState, Tell, WarningFirst
    <2>2. CASE server = "sayTrust" /\ Notify("awaiting_trust")
      BY <1>11, <2>1, <2>2 DEF Told, WatchInv
    <2>3. CASE server = "sayReady" /\ Notify("ready")
      BY <1>11, <2>1, <2>3 DEF Told, Clears, WarnInv
    <2>4. CASE server = "sayStream" /\ Notify("streaming")
      BY <1>11, <2>1, <2>4 DEF Told, Clears, WarnInv
    <2> QED BY <2>1, <2>2, <2>3, <2>4
  <1>15. CASE SayBye
    <2>1. app = "exec" /\ server' = "unregister" /\ Notify("disconnected")
      BY <1>15 DEF SayBye, Tell
    <2> QED BY <1>11, <2>1 DEF Told
  <1>16. CASE SayTimeout
    <2>1. app = "exec" /\ Notify("session.timeout") /\ UNCHANGED <<told, server, state>>
      BY <1>16 DEF SayTimeout
    <2> QED BY <1>11, <2>1 DEF Told, Clears, WarnInv
  <1> QED BY <1>1, <1>3, <1>4, <1>5, <1>6, <1>7, <1>8, <1>9, <1>10, <1>12, <1>13, <1>14,
             <1>15, <1>16 DEF Next, ReceiverNext, Server, WatchdogStep

LEMMA PanelNext == PanelInv /\ [Next]_vars => PanelInv'
  <1> SUFFICES ASSUME PanelInv, [Next]_vars PROVE PanelInv'
    OBVIOUS
  <1> USE UnknownApart, DelayAssumption DEF PanelInv, LastChangeWins, panelVars
  <1>1. CASE UNCHANGED panelVars
    BY <1>1
  <1>2. CASE Welcome
    BY <1>2 DEF Welcome
  <1>3. CASE Leave
    BY <1>3 DEF Leave, PanelCloses
  <1>4. CASE Panel
    BY <1>4 DEF Panel, SetControl, Merged, Scheduled
  <1>5. CASE Tick
    BY <1>5 DEF Tick, TimerRuns, FlushControls
  <1> QED BY <1>1, <1>2, <1>3, <1>4, <1>5 DEF Next, vars

-----------------------------------------------------------------------------
LEMMA InitInv == Init => IInv
  <1> SUFFICES ASSUME Init PROVE IInv
    OBVIOUS
  <1>1. FlagInv /\ open \in BOOLEAN
    BY Zenon DEF Init, ReceiverInit, FlagInv
  <1>2. PlaceInv /\ HoldInv /\ WatchInv
    BY DEF Init, ReceiverInit, PlaceInv, Apps, Acceptors, Quiet, Watched, Watchdogs, Phases,
           HoldInv, AcceptDone, ServerDone, WatchInv
  <1>3. WindowInv /\ LabelInv /\ WarnInv
    BY <1>1 DEF Init, ReceiverInit, WindowInv, Labels, LabelInv, WarnInv
  <1>4. PanelInv
    BY UnknownApart, DelayAssumption DEF Init, PanelInit, PanelInv, LastChangeWins
  <1> QED BY <1>1, <1>2, <1>3, <1>4 DEF IInv

LEMMA Invariance == FairSpec => []IInv
  <1>1. IInv /\ [Next]_vars => IInv'
    BY PlaceNext, HoldNext, WatchNext, FlagNext, WindowNext, LabelNext, WarnNext, PanelNext
       DEF IInv
  <1> QED BY InitInv, <1>1, PTL DEF FairSpec

(* ReceptionInv: connectionActive_ covers all of a connection's life, a      *)
(* timer runs exactly while a change is pending, and stop() leaves no thread *)
(* that could still call into what main() destroys next                      *)
(* (tcp_listener.cpp, acceptLoop, serveConnection and stop).                 *)
THEOREM ReceptionSafe == FairSpec => []ReceptionInv
  <1>1. IInv => TypeOK
    BY DEF IInv, PlaceInv, Apps, Acceptors, Watchdogs, FlagInv, WindowInv, Queued, HoldInv,
           PanelInv, TypeOK
  <1>2. IInv => SilentAfterStop
    BY DEF IInv, HoldInv, WatchInv, Quiet, AcceptDone, ServerDone, SilentAfterStop
  <1> QED BY Invariance, <1>1, <1>2, PTL DEF ReceptionInv

(* StatusTruthful: with its queue applied the label is the session's phase,  *)
(* and a session is shown as Ready or Streaming without the warning only if  *)
(* the switch was thrown on between handleHello's two reads of it, whatever  *)
(* late events of the watchdog or of an earlier connection are in the queue  *)
(* (session_status.cpp, applyEvent).                                         *)
THEOREM StatusIsTruthful == FairSpec => []StatusTruthful
  <1>1. ASSUME IInv PROVE StatusSettles
    <2> SUFFICES ASSUME app = "exec", events = <<>>, watchdog \notin {"notify", "close"}
                 PROVE  /\ server \in {"none", "ended"} => label = "Waiting"
                        /\ server = "recv" /\ socket =>
                             label = CASE state = "AwaitingHello" -> "Connected"
                                       [] state = "AwaitingTrust" -> "Pairing"
                                       [] OTHER -> state
      BY DEF StatusSettles
    <2>1. Final(events, label) = label
      BY DEF Final
    <2>2. server \in {"none", "ended"} => label = "Waiting"
      BY <1>1, <2>1 DEF IInv, LabelInv, Quiet
    <2>3. server = "recv" /\ socket => watchdog = "on"
      BY <1>1 DEF IInv, PlaceInv, Watchdogs, WatchInv, Watched
    <2>4. server = "recv" /\ socket => label = PhaseLabel(state)
      BY <1>1, <2>1, <2>3 DEF IInv, LabelInv
    <2> QED BY <2>2, <2>4 DEF PhaseLabel
  <1>2. IInv => DowngradeShown
    BY DEF IInv, PlaceInv, Apps, WindowInv, WarnInv, Slipped, DowngradeShown
  <1> QED BY Invariance, <1>1, <1>2, PTL DEF StatusTruthful

(* LastChangeWins: of the changes within an interval of PhoneController's    *)
(* controlTimer_ the last one is what the phone is told.                     *)
THEOREM LastChangeReachesPhone == FairSpec => []LastChangeWins
  BY Invariance, PTL DEF IInv, PanelInv

-----------------------------------------------------------------------------
(* The messages' schemas *)

(* A field's builder and its parser: whatever is usable of what a builder    *)
(* puts in is taken, a flag is taken whatever it is and may be missing, and  *)
(* of no other field is everything taken.                                    *)
FieldFits(f, built, allowed) ==
  /\ \E k \in built : k \in Usable
  /\ f \notin {"device_id", "codecs"} => \A k \in built : k \in Usable => k \in allowed
  /\ f = "device_id" => "deviceId" \in allowed
  /\ f = "codecs" => "codecs" \in allowed
  /\ f \in Flags => allowed = Kinds
  /\ f \notin Flags => "bytes" \notin allowed /\ "notFinite" \notin allowed
  /\ "notFinite" \in built => "notFinite" \notin allowed

SchemaFits(type) ==
  /\ DOMAIN Allowed(type) = DOMAIN Built(type)
  /\ \A f \in DOMAIN Built(type) : FieldFits(f, Built(type)[f], Allowed(type)[f])

LEMMA HelloFits == SchemaFits("hello")
  <1> DEFINE a == Allowed("hello")
             b == Built("hello")
             names == {"v", "device_id", "device_name", "platform", "model", "caps",
                       "allow_unauthenticated"}
  <1>1. a = [v |-> Unsigned, device_id |-> {"deviceId"}, device_name |-> NonEmpty,
             platform |-> NonEmpty, model |-> NonEmpty, caps |-> {"texts", "codecs"},
             allow_unauthenticated |-> Flag]
    BY DEF Allowed
  <1>2. b = [v |-> {"unsigned"}, device_id |-> Text, device_name |-> Text,
             platform |-> Text, model |-> Text, caps |-> {"texts"},
             allow_unauthenticated |-> {"boolean"}]
    BY DEF Built
  <1> HIDE DEF a, b
  <1>3. DOMAIN a = names /\ DOMAIN b = names
    BY <1>1, <1>2
  <1>4. ASSUME NEW f \in names PROVE FieldFits(f, b[f], a[f])
    BY <1>1, <1>2 DEF FieldFits, Usable, Flags, Kinds, Flag, Text, Unsigned, Number,
                      NonEmpty, Brief, Positive, InRange
  <1> QED BY <1>3, <1>4 DEF SchemaFits, a, b

LEMMA AuthResponseFits == SchemaFits("auth_response")
  <1> DEFINE a == Allowed("auth_response")
             b == Built("auth_response")
             names == {"client_nonce", "client_proof"}
  <1>1. a = [client_nonce |-> {"bytes32"}, client_proof |-> {"bytes32"}]
    BY DEF Allowed
  <1>2. b = [client_nonce |-> {"bytes32"}, client_proof |-> {"bytes32"}]
    BY DEF Built
  <1> HIDE DEF a, b
  <1>3. DOMAIN a = names /\ DOMAIN b = names
    BY <1>1, <1>2
  <1>4. ASSUME NEW f \in names PROVE FieldFits(f, b[f], a[f])
    BY <1>1, <1>2 DEF FieldFits, Usable, Flags, Kinds, Flag, Text, Unsigned, Number,
                      NonEmpty, Brief, Positive, InRange
  <1> QED BY <1>3, <1>4 DEF SchemaFits, a, b

LEMMA FormatAckFits == SchemaFits("format_ack")
  <1> DEFINE a == Allowed("format_ack")
             b == Built("format_ack")
             names == {"generation"}
  <1>1. a = [generation |-> Positive]
    BY DEF Allowed
  <1>2. b = [generation |-> Unsigned]
    BY DEF Built
  <1> HIDE DEF a, b
  <1>3. DOMAIN a = names /\ DOMAIN b = names
    BY <1>1, <1>2
  <1>4. ASSUME NEW f \in names PROVE FieldFits(f, b[f], a[f])
    BY <1>1, <1>2 DEF FieldFits, Usable, Flags, Kinds, Flag, Text, Unsigned, Number,
                      NonEmpty, Brief, Positive, InRange
  <1> QED BY <1>3, <1>4 DEF SchemaFits, a, b

LEMMA FormatRejectFits == SchemaFits("format_reject")
  <1> DEFINE a == Allowed("format_reject")
             b == Built("format_reject")
             names == {"generation", "code", "message"}
  <1>1. a = [generation |-> Positive, code |-> Brief, message |-> Brief]
    BY DEF Allowed
  <1>2. b = [generation |-> Unsigned, code |-> Text, message |-> Text]
    BY DEF Built
  <1> HIDE DEF a, b
  <1>3. DOMAIN a = names /\ DOMAIN b = names
    BY <1>1, <1>2
  <1>4. ASSUME NEW f \in names PROVE FieldFits(f, b[f], a[f])
    BY <1>1, <1>2 DEF FieldFits, Usable, Flags, Kinds, Flag, Text, Unsigned, Number,
                      NonEmpty, Brief, Positive, InRange
  <1> QED BY <1>3, <1>4 DEF SchemaFits, a, b

LEMMA OrientationFits == SchemaFits("orientation")
  <1> DEFINE a == Allowed("orientation")
             b == Built("orientation")
             names == {"deg", "locked"}
  <1>1. a = [deg |-> Number, locked |-> Flag]
    BY DEF Allowed
  <1>2. b = [deg |-> {"real", "notFinite"}, locked |-> {"boolean"}]
    BY DEF Built
  <1> HIDE DEF a, b
  <1>3. DOMAIN a = names /\ DOMAIN b = names
    BY <1>1, <1>2
  <1>4. ASSUME NEW f \in names PROVE FieldFits(f, b[f], a[f])
    BY <1>1, <1>2 DEF FieldFits, Usable, Flags, Kinds, Flag, Text, Unsigned, Number,
                      NonEmpty, Brief, Positive, InRange
  <1> QED BY <1>3, <1>4 DEF SchemaFits, a, b

LEMMA ThermalFits == SchemaFits("thermal")
  <1> DEFINE a == Allowed("thermal")
             b == Built("thermal")
             names == {"state"}
  <1>1. a = [state |-> Text]
    BY DEF Allowed
  <1>2. b = [state |-> Text]
    BY DEF Built
  <1> HIDE DEF a, b
  <1>3. DOMAIN a = names /\ DOMAIN b = names
    BY <1>1, <1>2
  <1>4. ASSUME NEW f \in names PROVE FieldFits(f, b[f], a[f])
    BY <1>1, <1>2 DEF FieldFits, Usable, Flags, Kinds, Flag, Text, Unsigned, Number,
                      NonEmpty, Brief, Positive, InRange
  <1> QED BY <1>3, <1>4 DEF SchemaFits, a, b

LEMMA BatteryFits == SchemaFits("battery")
  <1> DEFINE a == Allowed("battery")
             b == Built("battery")
             names == {"level", "charging"}
  <1>1. a = [level |-> Number, charging |-> Flag]
    BY DEF Allowed
  <1>2. b = [level |-> {"real", "notFinite"}, charging |-> {"boolean"}]
    BY DEF Built
  <1> HIDE DEF a, b
  <1>3. DOMAIN a = names /\ DOMAIN b = names
    BY <1>1, <1>2
  <1>4. ASSUME NEW f \in names PROVE FieldFits(f, b[f], a[f])
    BY <1>1, <1>2 DEF FieldFits, Usable, Flags, Kinds, Flag, Text, Unsigned, Number,
                      NonEmpty, Brief, Positive, InRange
  <1> QED BY <1>3, <1>4 DEF SchemaFits, a, b

LEMMA CameraStateFits == SchemaFits("camera_state")
  <1> DEFINE a == Allowed("camera_state")
             b == Built("camera_state")
             names == {"device_id", "position", "lens", "zoom", "focus_mode", "focus",
                       "exposure_mode", "iso", "exposure", "ev", "wb_mode", "wb",
                       "torch", "stabilization"}
  <1>1. a = [device_id |-> Text \cup {"null"}, position |-> Text, lens |-> Text,
             zoom |-> Number, focus_mode |-> Text, focus |-> Number,
             exposure_mode |-> Text, iso |-> Number, exposure |-> Number, ev |-> Number,
             wb_mode |-> Text, wb |-> Number, torch |-> {"boolean"},
             stabilization |-> Flag]
    BY DEF Allowed
  <1>2. b = [device_id |-> Text \cup {"null"}, position |-> Text, lens |-> Text,
             zoom |-> {"real", "notFinite"}, focus_mode |-> Text, focus |-> {"real",
             "notFinite"}, exposure_mode |-> Text, iso |-> {"real", "notFinite"},
             exposure |-> {"real", "notFinite"}, ev |-> {"real", "notFinite"},
             wb_mode |-> Text, wb |-> {"real", "notFinite"}, torch |-> {"boolean"},
             stabilization |-> {"boolean"}]
    BY DEF Built
  <1> HIDE DEF a, b
  <1>3. DOMAIN a = names /\ DOMAIN b = names
    BY <1>1, <1>2
  <1>4. ASSUME NEW f \in names PROVE FieldFits(f, b[f], a[f])
    BY <1>1, <1>2 DEF FieldFits, Usable, Flags, Kinds, Flag, Text, Unsigned, Number,
                      NonEmpty, Brief, Positive, InRange
  <1> QED BY <1>3, <1>4 DEF SchemaFits, a, b

LEMMA ErrorFits == SchemaFits("error")
  <1> DEFINE a == Allowed("error")
             b == Built("error")
             names == {"code", "message"}
  <1>1. a = [code |-> Text, message |-> Text]
    BY DEF Allowed
  <1>2. b = [code |-> Text, message |-> Text]
    BY DEF Built
  <1> HIDE DEF a, b
  <1>3. DOMAIN a = names /\ DOMAIN b = names
    BY <1>1, <1>2
  <1>4. ASSUME NEW f \in names PROVE FieldFits(f, b[f], a[f])
    BY <1>1, <1>2 DEF FieldFits, Usable, Flags, Kinds, Flag, Text, Unsigned, Number,
                      NonEmpty, Brief, Positive, InRange
  <1> QED BY <1>3, <1>4 DEF SchemaFits, a, b

LEMMA CapsFits == SchemaFits("caps")
  <1> DEFINE a == Allowed("caps")
             b == Built("caps")
             names == {"cameras", "codecs"}
  <1>1. a = [cameras |-> {"cameras"}, codecs |-> {"codecs"}]
    BY DEF Allowed
  <1>2. b = [cameras |-> {"cameras"}, codecs |-> {"codecs", "texts"}]
    BY DEF Built
  <1> HIDE DEF a, b
  <1>3. DOMAIN a = names /\ DOMAIN b = names
    BY <1>1, <1>2
  <1>4. ASSUME NEW f \in names PROVE FieldFits(f, b[f], a[f])
    BY <1>1, <1>2 DEF FieldFits, Usable, Flags, Kinds, Flag, Text, Unsigned, Number,
                      NonEmpty, Brief, Positive, InRange
  <1> QED BY <1>3, <1>4 DEF SchemaFits, a, b

LEMMA CameraFits == SchemaFits("camera")
  <1> DEFINE a == Allowed("camera")
             b == Built("camera")
             names == {"id", "name", "position", "lens", "formats"}
  <1>1. a = [id |-> NonEmpty, name |-> Text, position |-> Text, lens |-> Text,
             formats |-> {"formats"}]
    BY DEF Allowed
  <1>2. b = [id |-> Text, name |-> Text, position |-> Text, lens |-> Text,
             formats |-> {"formats"}]
    BY DEF Built
  <1> HIDE DEF a, b
  <1>3. DOMAIN a = names /\ DOMAIN b = names
    BY <1>1, <1>2
  <1>4. ASSUME NEW f \in names PROVE FieldFits(f, b[f], a[f])
    BY <1>1, <1>2 DEF FieldFits, Usable, Flags, Kinds, Flag, Text, Unsigned, Number,
                      NonEmpty, Brief, Positive, InRange
  <1> QED BY <1>3, <1>4 DEF SchemaFits, a, b

LEMMA FormatFits == SchemaFits("format")
  <1> DEFINE a == Allowed("format")
             b == Built("format")
             names == {"width", "height", "fps"}
  <1>1. a = [width |-> InRange, height |-> InRange, fps |-> InRange]
    BY DEF Allowed
  <1>2. b = [width |-> Unsigned, height |-> Unsigned, fps |-> Unsigned]
    BY DEF Built
  <1> HIDE DEF a, b
  <1>3. DOMAIN a = names /\ DOMAIN b = names
    BY <1>1, <1>2
  <1>4. ASSUME NEW f \in names PROVE FieldFits(f, b[f], a[f])
    BY <1>1, <1>2 DEF FieldFits, Usable, Flags, Kinds, Flag, Text, Unsigned, Number,
                      NonEmpty, Brief, Positive, InRange
  <1> QED BY <1>3, <1>4 DEF SchemaFits, a, b

LEMMA AllFit == \A type \in Types : SchemaFits(type)
  <1> SUFFICES ASSUME NEW type \in Types PROVE SchemaFits(type)
    OBVIOUS
  <1> QED
    BY HelloFits, AuthResponseFits, FormatAckFits, FormatRejectFits, OrientationFits,
       ThermalFits, BatteryFits, CameraStateFits, ErrorFits, CapsFits, CameraFits,
       FormatFits DEF Types

(* A message may leave out its flags, and a camera's state its device. *)
Omits(type, f) == f \in Flags \/ (type = "camera_state" /\ f = "device_id")

LEMMA Missing ==
  ASSUME NEW type \in Types, NEW f \in DOMAIN Built(type)
  PROVE  f \in MayMiss(type) <=> Omits(type, f)
  <1>1. DOMAIN Allowed(type) = DOMAIN Built(type) /\ FieldFits(f, Built(type)[f], Allowed(type)[f])
    BY AllFit DEF SchemaFits
  <1>2. "bytes" \in Kinds
    BY DEF Kinds
  <1>3. Allowed(type)[f] = Flag <=> f \in Flags
    BY <1>1, <1>2 DEF FieldFits, Flag
  <1>4. type = "camera_state" => "device_id" \in DOMAIN Allowed(type)
    BY DEF Allowed
  <1> QED BY <1>1, <1>3, <1>4 DEF MayMiss, Omits

(* Everything that a client in order leaves out or puts in *)
InOrder(type, fields) ==
  /\ DOMAIN fields \subseteq DOMAIN Built(type)
  /\ \A f \in DOMAIN Built(type) \ DOMAIN fields : Omits(type, f)
  /\ \A f \in DOMAIN fields :
       \/ f \in Flags /\ fields[f] \in Kinds
       \/ /\ fields[f] \in Built(type)[f] \cap Usable
          /\ f = "device_id" => fields[f] = "deviceId"
          /\ f = "codecs" => fields[f] = "codecs"

LEMMA InOrderParses ==
  ASSUME NEW type \in Types, NEW fields, InOrder(type, fields)
  PROVE  Parses(type, fields)
  <1>1. DOMAIN Allowed(type) = DOMAIN Built(type)
    BY AllFit DEF SchemaFits
  <1>2. Unknowns(type, fields) = {}
    BY <1>1 DEF InOrder, Unknowns
  <1>3. DOMAIN Allowed(type) \ MayMiss(type) \subseteq DOMAIN fields
    BY <1>1, Missing DEF InOrder
  <1>4. ASSUME NEW f \in DOMAIN fields PROVE fields[f] \in Allowed(type)[f]
    <2>1. f \in DOMAIN Built(type)
      BY DEF InOrder
    <2>2. FieldFits(f, Built(type)[f], Allowed(type)[f])
      BY <2>1, AllFit DEF SchemaFits
    <2>3. CASE f \in Flags /\ fields[f] \in Kinds
      BY <2>2, <2>3 DEF FieldFits
    <2>4. CASE /\ fields[f] \in Built(type)[f] \cap Usable
               /\ f = "device_id" => fields[f] = "deviceId"
               /\ f = "codecs" => fields[f] = "codecs"
      <3>1. CASE f = "device_id"
        BY <2>2, <2>4, <3>1 DEF FieldFits
      <3>2. CASE f = "codecs"
        BY <2>2, <2>4, <3>2 DEF FieldFits
      <3>3. CASE f \notin {"device_id", "codecs"}
        BY <2>2, <2>4, <3>3 DEF FieldFits
      <3> QED BY <3>1, <3>2, <3>3
    <2> QED BY <2>3, <2>4 DEF InOrder
  <1> QED BY <1>2, <1>3, <1>4 DEF Parses

(* What no parser takes: a field that its builder does not put in, a field   *)
(* missing that may not be, a number that is not finite.                     *)
LEMMA OutOfOrder ==
  ASSUME NEW type \in Types, NEW fields,
         \/ DOMAIN fields \ DOMAIN Built(type) # {}
         \/ \E f \in DOMAIN Built(type) \ DOMAIN fields : ~Omits(type, f)
         \/ \E f \in DOMAIN fields \cap DOMAIN Built(type) :
              "notFinite" \in Built(type)[f] /\ fields[f] = "notFinite"
  PROVE  ~Parses(type, fields)
  <1>1. /\ DOMAIN Allowed(type) = DOMAIN Built(type)
        /\ \A f \in DOMAIN Built(type) : FieldFits(f, Built(type)[f], Allowed(type)[f])
    BY AllFit DEF SchemaFits
  <1>2. CASE DOMAIN fields \ DOMAIN Built(type) # {}
    BY <1>1, <1>2 DEF Parses, Unknowns
  <1>3. CASE \E f \in DOMAIN Built(type) \ DOMAIN fields : ~Omits(type, f)
    BY <1>1, <1>3, Missing DEF Parses
  <1>4. CASE \E f \in DOMAIN fields \cap DOMAIN Built(type) :
               "notFinite" \in Built(type)[f] /\ fields[f] = "notFinite"
    BY <1>1, <1>4 DEF Parses, FieldFits
  <1> QED BY <1>2, <1>3, <1>4

(* parseHello, parseAuthResponse, parseFormatAck and the others, with hello, *)
(* authResponse, formatAck and the other builders (control.cpp): whatever    *)
(* usable values a message of a known type carries, whatever its flags hold  *)
(* and whichever of what may be missing is, it parses; and no message with   *)
(* another field, without a field that is required or with a number that is  *)
(* not finite does.                                                          *)
THEOREM AnyMessage ==
  ASSUME NEW type \in Types, NEW fields
  PROVE  /\ InOrder(type, fields) => Parses(type, fields)
         /\ Parses(type, fields) =>
              /\ DOMAIN fields \subseteq DOMAIN Built(type)
              /\ \A f \in DOMAIN Built(type) \ DOMAIN fields : Omits(type, f)
              /\ \A f \in DOMAIN fields :
                   "notFinite" \in Built(type)[f] => fields[f] # "notFinite"
  <1>1. InOrder(type, fields) => Parses(type, fields)
    BY InOrderParses
  <1>2. Parses(type, fields) => DOMAIN fields \subseteq DOMAIN Built(type)
    BY OutOfOrder
  <1>3. Parses(type, fields) =>
          \A f \in DOMAIN Built(type) \ DOMAIN fields : Omits(type, f)
    BY OutOfOrder
  <1>4. Parses(type, fields) =>
          \A f \in DOMAIN fields : "notFinite" \in Built(type)[f] => fields[f] # "notFinite"
    BY <1>2, OutOfOrder
  <1> QED BY <1>1, <1>2, <1>3, <1>4

(* A phone may send its device's id and structured codecs. *)
LEMMA DeviceBuilt ==
  ASSUME NEW type \in Types, NEW f \in DOMAIN Built(type)
  PROVE  /\ f = "device_id" => "deviceId" \in Built(type)[f] \cap Usable
         /\ f = "codecs" => "codecs" \in Built(type)[f] \cap Usable
  <1>1. {"deviceId", "codecs"} \subseteq Usable
    BY DEF Usable, Kinds, Text
  <1>2. ASSUME f \in {"device_id", "codecs"}
        PROVE  type \in {"hello", "camera_state", "caps"}
    BY <1>2 DEF Types, Built
  <1>3. ASSUME f \in {"device_id", "codecs"}
        PROVE  /\ f = "device_id" => "deviceId" \in Built(type)[f]
               /\ f = "codecs" => "codecs" \in Built(type)[f]
    <2>1. CASE type = "hello"
      BY <1>3, <2>1 DEF Built, Text
    <2>2. CASE type = "camera_state"
      BY <1>3, <2>2 DEF Built, Text
    <2>3. CASE type = "caps"
      BY <1>3, <2>3 DEF Built
    <2> QED BY <1>2, <1>3, <2>1, <2>2, <2>3
  <1> QED BY <1>1, <1>3

LEMMA BaseInOrder ==
  ASSUME NEW type \in Types
  PROVE  /\ DOMAIN Base(type) = DOMAIN Built(type)
         /\ \A f \in DOMAIN Built(type) :
              /\ f = "device_id" => Base(type)[f] = "deviceId"
              /\ f = "codecs" => Base(type)[f] = "codecs"
              /\ Base(type)[f] \in Built(type)[f] \cap Usable
  <1>1. DOMAIN Base(type) = DOMAIN Built(type)
    BY DEF Base
  <1>2. ASSUME NEW f \in DOMAIN Built(type)
        PROVE  /\ f = "device_id" => Base(type)[f] = "deviceId"
               /\ f = "codecs" => Base(type)[f] = "codecs"
               /\ Base(type)[f] \in Built(type)[f] \cap Usable
    <2>1. Base(type)[f] =
            IF f = "device_id" THEN "deviceId"
            ELSE IF f = "codecs" THEN "codecs" ELSE CHOOSE k \in Built(type)[f] : k \in Usable
      BY DEF Base
    <2>2. \E k \in Built(type)[f] : k \in Usable
      BY AllFit DEF SchemaFits, FieldFits
    <2>3. CASE f = "device_id"
      <3>1. "deviceId" \in Built(type)[f] \cap Usable
        BY <2>3, DeviceBuilt
      <3> QED BY <2>1, <2>3, <3>1
    <2>4. CASE f = "codecs"
      <3>1. "codecs" \in Built(type)[f] \cap Usable
        BY <2>4, DeviceBuilt
      <3> QED BY <2>1, <2>4, <3>1
    <2>5. CASE f \notin {"device_id", "codecs"}
      <3> DEFINE choice == CHOOSE k \in Built(type)[f] : k \in Usable
      <3>1. choice \in Built(type)[f] /\ choice \in Usable
        BY <2>2
      <3> HIDE DEF choice
      <3>2. Base(type)[f] = choice
        BY <2>1, <2>5 DEF choice
      <3> QED BY <2>5, <3>1, <3>2
    <2> QED BY <2>3, <2>4, <2>5
  <1> QED BY <1>1, <1>2

LEMMA UnderstoodAll == \A type \in Types : Understood[type]
  <1> SUFFICES ASSUME NEW type \in Types PROVE Understood[type]
    OBVIOUS
  <1> DEFINE base == Base(type)
  <1>1. /\ DOMAIN base = DOMAIN Built(type)
        /\ \A f \in DOMAIN Built(type) :
             /\ f = "device_id" => base[f] = "deviceId"
             /\ f = "codecs" => base[f] = "codecs"
             /\ base[f] \in Built(type)[f] \cap Usable
    BY BaseInOrder
  <1> HIDE DEF base
  <1>2. Parses(type, base)
    BY <1>1, InOrderParses DEF InOrder
  <1>3. ASSUME NEW f \in DOMAIN base
        PROVE  Parses(type, Without(base, f)) <=>
                 f \in Flags \/ (type = "camera_state" /\ f = "device_id")
    <2> DEFINE fields == Without(base, f)
    <2>1. DOMAIN fields = DOMAIN base \ {f} /\ \A g \in DOMAIN fields : fields[g] = base[g]
      BY DEF Without
    <2> HIDE DEF fields
    <2>2. CASE Omits(type, f)
      <3>1. InOrder(type, fields)
        BY <1>1, <2>1, <2>2 DEF InOrder
      <3> QED BY <2>2, <3>1, InOrderParses DEF fields, Omits
    <2>3. CASE ~Omits(type, f)
      <3>1. f \in DOMAIN Built(type) \ DOMAIN fields
        BY <1>1, <2>1
      <3>2. ~Parses(type, fields)
        BY <2>3, <3>1, OutOfOrder
      <3> QED BY <2>3, <3>2 DEF fields, Omits
    <2> QED BY <2>2, <2>3
  <1>4. ASSUME NEW f \in DOMAIN base, "notFinite" \in Built(type)[f]
        PROVE  ~Parses(type, With(base, f, "notFinite"))
    <2> DEFINE fields == With(base, f, "notFinite")
    <2>1. f \in DOMAIN fields /\ fields[f] = "notFinite"
      BY DEF With
    <2> HIDE DEF fields
    <2>2. ~Parses(type, fields)
      BY <1>1, <1>4, <2>1, OutOfOrder
    <2> QED BY <2>2 DEF fields
  <1>5. ASSUME NEW f \in DOMAIN base, f \in Flags
        PROVE  Parses(type, With(base, f, "null"))
    <2> DEFINE fields == With(base, f, "null")
    <2>1. /\ DOMAIN fields = DOMAIN base
          /\ fields[f] = "null"
          /\ \A g \in DOMAIN base \ {f} : fields[g] = base[g]
      BY DEF With
    <2> HIDE DEF fields
    <2>2. "null" \in Kinds
      BY DEF Kinds
    <2>3. InOrder(type, fields)
      BY <1>1, <1>5, <2>1, <2>2 DEF InOrder
    <2> QED BY <2>3, InOrderParses DEF fields
  <1>6. ASSUME NEW f \in Fields \ DOMAIN base
        PROVE  ~Parses(type, With(base, f, "null"))
    <2> DEFINE fields == With(base, f, "null")
    <2>1. f \in DOMAIN fields
      BY DEF With
    <2> HIDE DEF fields
    <2>2. ~Parses(type, fields)
      BY <1>1, <1>6, <2>1, OutOfOrder
    <2> QED BY <2>2 DEF fields
  <1>7. Understood[type] <=>
          /\ Parses(type, base)
          /\ \A f \in DOMAIN base :
               /\ Parses(type, Without(base, f)) <=>
                    f \in Flags \/ (type = "camera_state" /\ f = "device_id")
               /\ "notFinite" \in Built(type)[f] => ~Parses(type, With(base, f, "notFinite"))
               /\ f \in Flags => Parses(type, With(base, f, "null"))
          /\ \A f \in Fields \ DOMAIN base : ~Parses(type, With(base, f, "null"))
    BY DEF Understood, base
  <1> QED BY <1>2, <1>3, <1>4, <1>5, <1>6, <1>7

(* MessagesUnderstood: in whatever phase the session waits for a message     *)
(* (server.cpp, serveConnection), what the message's builder puts in is what *)
(* its parser takes, no field more and none but a flag less.                 *)
THEOREM MessagesAreUnderstood == FairSpec => []MessagesUnderstood
  <1>1. Awaited \subseteq Types
    BY DEF Awaited, Types
  <1>2. MessagesUnderstood
    BY <1>1, UnderstoodAll DEF MessagesUnderstood
  <1> QED BY <1>2, PTL

-----------------------------------------------------------------------------
(***************************************************************************)
(* The heads of CBOR.  Bytes and their digits are related by Pads: b is d  *)
(* behind zeros, and d does not begin with one.                            *)
(***************************************************************************)
Pads(b, d) ==
  /\ b \in Seq(Nat) /\ d \in Seq(Nat) /\ Len(d) <= Len(b)
  /\ \A i \in 1..Len(b) - Len(d) : b[i] = 0
  /\ \A i \in 1..Len(d) : d[i] = b[Len(b) - Len(d) + i]
  /\ d # <<>> => d[1] # 0

LEMMA LeastExists ==
  ASSUME NEW S \in SUBSET Nat, S # {}
  PROVE  Min(S) \in S /\ \A y \in S : Min(S) <= y
  <1> DEFINE R == OpToRel(<, Nat)
  <1>1. IsWellFoundedOn(R, Nat)
    BY NatLessThanWellFounded DEF R
  <1> HIDE DEF R
  <1>2. PICK x \in S : \A y \in S : ~(<<y, x>> \in R)
    BY <1>1, WFMin
  <1>3. \A y \in S : x <= y
    <2> TAKE y \in S
    <2>1. ~(<<y, x>> \in R)
      BY <1>2
    <2>2. ~(y < x)
      BY <2>1 DEF R, OpToRel
    <2> QED BY <2>2
  <1> QED BY <1>3 DEF Min

LEMMA DigitsPad ==
  ASSUME NEW b \in Seq(Nat)
  PROVE  Pads(b, Digits(b))
  <1> DEFINE n == Len(b)
             S == {i \in DOMAIN b : b[i] # 0} \cup {n + 1}
             m == Min(S)
             d == SubSeq(b, m, n)
  <1>1. n \in Nat /\ DOMAIN b = 1..n
    OBVIOUS
  <1>2. S \in SUBSET Nat /\ S # {} /\ S \subseteq 1..n + 1
    BY <1>1
  <1>3. m \in S /\ \A y \in S : m <= y
    <2> HIDE DEF S
    <2> QED BY <1>2, LeastExists
  <1>4. m \in 1..n + 1 /\ m \in Nat
    BY <1>2, <1>3
  <1>5. m # n + 1 => b[m] # 0
    <2> HIDE DEF m
    <2> QED BY <1>3
  <1>6. \A i \in 1..n : i < m => b[i] = 0
    <2> TAKE i \in 1..n
    <2> SUFFICES ASSUME b[i] # 0, i < m PROVE FALSE
      OBVIOUS
    <2> HIDE DEF m
    <2>1. i \in S
      BY <1>1
    <2>2. m <= i
      BY <1>3, <2>1
    <2> QED BY <1>4, <2>2
  <1>7. Digits(b) = d
    BY DEF Digits
  <1> HIDE DEF m, S
  <1>8. d \in Seq(Nat) /\ Len(d) = n - m + 1 /\ \A i \in 1..n - m + 1 : d[i] = b[m + i - 1]
    <2>1. \A i \in m..n : b[i] \in Nat
      <3> TAKE i \in m..n
      <3>1. i \in 1..n
        BY <1>1, <1>4
      <3> QED BY <1>1, <3>1
    <2>2. m \in Int /\ n \in Int
      BY <1>1, <1>4
    <2>3. /\ d \in Seq(Nat)
          /\ Len(d) = IF m <= n THEN n - m + 1 ELSE 0
          /\ \A i \in 1..n - m + 1 : d[i] = b[m + i - 1]
      BY <2>1, <2>2, SubSeqProperties
    <2> HIDE DEF d, n
    <2>4. (IF m <= n THEN n - m + 1 ELSE 0) = n - m + 1
      BY <1>1, <1>4
    <2> QED BY <2>3, <2>4
  <1> HIDE DEF d, n
  <1>9. Len(d) <= n /\ Len(d) \in Nat /\ n - Len(d) = m - 1
    BY <1>1, <1>4, <1>8
  <1>10. \A i \in 1..n - Len(d) : b[i] = 0
    BY <1>1, <1>4, <1>6, <1>9
  <1>11. \A i \in 1..Len(d) : d[i] = b[n - Len(d) + i]
    <2> TAKE i \in 1..Len(d)
    <2>1. i \in 1..n - m + 1 /\ n - Len(d) + i = m + i - 1
      BY <1>1, <1>4, <1>8
    <2> QED BY <1>8, <2>1
  <1>12. d # <<>> => d[1] # 0
    <2> SUFFICES ASSUME d # <<>> PROVE d[1] # 0
      OBVIOUS
    <2>1. Len(d) # 0
      BY <1>8, EmptySeq
    <2>2. 1 \in 1..n - m + 1 /\ m # n + 1 /\ m + 1 - 1 = m
      BY <1>1, <1>4, <1>8, <2>1
    <2>3. d[1] = b[m + 1 - 1]
      BY <1>8, <2>2
    <2> QED BY <1>5, <2>2, <2>3
  <1> QED BY <1>7, <1>8, <1>9, <1>10, <1>11, <1>12 DEF Pads, n

LEMMA PadsShorter ==
  ASSUME NEW b, NEW d, NEW e, Pads(b, d), Pads(b, e)
  PROVE  Len(e) <= Len(d)
  <1> DEFINE n == Len(b)
             k == Len(d)
             l == Len(e)
  <1>1. n \in Nat /\ k \in Nat /\ l \in Nat /\ k <= n /\ l <= n
    BY LenProperties DEF Pads
  <1> SUFFICES ASSUME l > k PROVE FALSE
    BY <1>1
  <1>2. e # <<>> /\ e[1] # 0
    BY <1>1, EmptySeq DEF Pads
  <1>3. e[1] = b[n - l + 1]
    <2>1. 1 \in 1..l
      BY <1>1
    <2> QED BY <2>1 DEF Pads
  <1>4. n - l + 1 \in 1..n - k
    <2> HIDE DEF n, k, l
    <2> QED BY <1>1
  <1>5. b[n - l + 1] = 0
    BY <1>4 DEF Pads
  <1> QED BY <1>2, <1>3, <1>5

LEMMA PadsUnique ==
  ASSUME NEW b, NEW d, NEW e, Pads(b, d), Pads(b, e)
  PROVE  d = e
  <1>1. Len(d) \in Nat /\ Len(e) \in Nat
    BY LenProperties DEF Pads
  <1>2. Len(d) = Len(e)
    BY <1>1, PadsShorter
  <1>3. \A i \in 1..Len(d) : d[i] = e[i]
    BY <1>2 DEF Pads
  <1> QED BY <1>2, <1>3, SeqEqual DEF Pads

LEMMA BigEndianPads ==
  ASSUME NEW arg \in Seq(Nat), arg # <<>> => arg[1] # 0, NEW width \in Nat, Len(arg) <= width
  PROVE  Len(BigEndian(arg, width)) = width /\ Pads(BigEndian(arg, width), arg)
  <1> DEFINE l == Len(arg)
             zeros == [i \in 1..width - l |-> 0]
             b == zeros \o arg
  <1>1. l \in Nat /\ width - l \in Nat
    BY LenProperties
  <1>2. zeros \in Seq(Nat) /\ Len(zeros) = width - l /\ \A i \in 1..width - l : zeros[i] = 0
    <2> HIDE DEF l
    <2> QED BY <1>1
  <1> HIDE DEF zeros
  <1>3. /\ b \in Seq(Nat) /\ Len(b) = Len(zeros) + l
        /\ \A i \in 1..Len(zeros) + l :
             b[i] = IF i <= Len(zeros) THEN zeros[i] ELSE arg[i - Len(zeros)]
    BY <1>2, ConcatProperties
  <1>4. BigEndian(arg, width) = b
    BY DEF BigEndian, zeros
  <1> HIDE DEF b, l
  <1>5. Len(b) = width
    BY <1>1, <1>2, <1>3
  <1>6. \A i \in 1..width - l : b[i] = 0
    <2> TAKE i \in 1..width - l
    <2>1. i \in 1..Len(zeros) + l /\ i <= Len(zeros)
      BY <1>1, <1>2
    <2> QED BY <1>2, <1>3, <2>1
  <1>7. \A i \in 1..l : arg[i] = b[width - l + i]
    <2> TAKE i \in 1..l
    <2> DEFINE j == width - l + i
    <2>1. j \in 1..Len(zeros) + l /\ ~(j <= Len(zeros)) /\ j - Len(zeros) = i
      BY <1>1, <1>2
    <2> HIDE DEF j
    <2>2. b[j] = arg[i]
      BY <1>3, <2>1
    <2> QED BY <2>2 DEF j
  <1> QED BY <1>3, <1>4, <1>5, <1>6, <1>7 DEF Pads, l

LEMMA PadsBigEndian ==
  ASSUME NEW b, NEW d, Pads(b, d)
  PROVE  b = BigEndian(d, Len(b))
  <1> DEFINE n == Len(b)
             e == BigEndian(d, n)
             l == Len(d)
  <1>1. n \in Nat /\ l \in Nat /\ b \in Seq(Nat) /\ d \in Seq(Nat) /\ l <= n
    BY LenProperties DEF Pads
  <1>2. Len(e) = n /\ Pads(e, d)
    BY <1>1, BigEndianPads DEF Pads
  <1> HIDE DEF e
  <1>3. \A i \in 1..n : b[i] = e[i]
    <2> TAKE i \in 1..n
    <2>1. CASE i <= n - l
      <3>1. i \in 1..n - l
        BY <1>1, <2>1
      <3> QED BY <1>2, <3>1 DEF Pads
    <2>2. CASE i > n - l
      <3>1. PICK j \in 1..l : i = n - l + j
        <4> DEFINE j == i - (n - l)
        <4>1. j \in 1..l /\ i = n - l + j
          <5> HIDE DEF n, l
          <5> QED BY <1>1, <2>2
        <4> QED BY <4>1
      <3>2. d[j] = b[i]
        BY <3>1 DEF Pads
      <3>3. d[j] = e[i]
        BY <1>2, <3>1 DEF Pads
      <3> QED BY <3>2, <3>3
    <2> HIDE DEF l
    <2> QED BY <1>1, <2>1, <2>2
  <1>4. e \in Seq(Nat)
    BY <1>2 DEF Pads
  <1>5. b = e
    BY <1>1, <1>2, <1>3, <1>4, SeqEqual
  <1> QED BY <1>5 DEF e

(* What the argument of a head may be: 64 bits, and no zero in front *)
Argument(arg) == arg \in Seq(Nat) /\ Len(arg) <= 8 /\ (arg # <<>> => arg[1] # 0)

Forms == 24..27

LEMMA Widths == Width(24) = 1 /\ Width(25) = 2 /\ Width(26) = 4 /\ Width(27) = 8
  BY DEF Width

LEMMA WidthType == \A form \in Forms : Width(form) \in Nat /\ Width(form) <= 8
  <1> TAKE form \in Forms
  <1>1. form = 24 \/ form = 25 \/ form = 26 \/ form = 27
    BY DEF Forms
  <1>2. form = 24 => Width(form) = 1
    BY Widths
  <1>3. form = 25 => Width(form) = 2
    BY Widths
  <1>4. form = 26 => Width(form) = 4
    BY Widths
  <1>5. form = 27 => Width(form) = 8
    BY Widths
  <1> QED BY <1>1, <1>2, <1>3, <1>4, <1>5

(* Just one form is wide enough and not too wide. *)
LEMMA FormExists ==
  ASSUME NEW arg, Argument(arg), ~Below24(arg)
  PROVE  \E form \in Forms : Len(arg) <= Width(form) /\ Minimal(arg, Width(form))
  <1> DEFINE l == Len(arg)
  <1>1. l \in Nat /\ l <= 8
    BY LenProperties DEF Argument
  <1>2. Minimal(arg, Width(24))
    BY Widths DEF Minimal
  <1>3. l > 1 => Minimal(arg, Width(25))
    BY <1>1, Widths DEF Minimal
  <1>4. l > 2 => Minimal(arg, Width(26))
    BY <1>1, Widths DEF Minimal
  <1>5. l > 4 => Minimal(arg, Width(27))
    BY <1>1, Widths DEF Minimal
  <1> HIDE DEF l
  <1>6. l <= 1 \/ (l > 1 /\ l <= 2) \/ (l > 2 /\ l <= 4) \/ (l > 4 /\ l <= 8)
    BY <1>1
  <1>7. /\ l <= 1 => l <= Width(24)
        /\ l <= 2 => l <= Width(25)
        /\ l <= 4 => l <= Width(26)
        /\ l <= 8 => l <= Width(27)
    BY Widths
  <1>8. 24 \in Forms /\ 25 \in Forms /\ 26 \in Forms /\ 27 \in Forms
    BY DEF Forms
  <1> QED BY <1>2, <1>3, <1>4, <1>5, <1>6, <1>7, <1>8 DEF l

LEMMA LongHead ==
  ASSUME NEW major, NEW arg, Argument(arg), ~Below24(arg), NEW form \in Forms,
         Len(arg) <= Width(form), Minimal(arg, Width(form))
  PROVE  AppendHead(major, arg) = <<32 * major + form>> \o BigEndian(arg, Width(form))
  <1> DEFINE l == Len(arg)
             S == {a \in 24..27 : l <= Width(a)}
  <1>1. l \in Nat
    BY LenProperties DEF Argument
  <1>2. form \in S
    BY DEF Forms
  <1>3. \A a \in S : form <= a
    <2> TAKE a \in S
    <2>1. CASE form = 24
      BY <2>1
    <2>2. CASE form = 25
      <3>1. l > 1
        BY <2>2, Widths DEF Minimal
      <3>2. a # 24
        <4> HIDE DEF l
        <4> QED BY <1>1, <3>1, Widths
      <3> QED BY <2>2, <3>2
    <2>3. CASE form = 26
      <3>1. l > 2
        BY <2>3, Widths DEF Minimal
      <3>2. a # 24 /\ a # 25
        <4> HIDE DEF l
        <4> QED BY <1>1, <3>1, Widths
      <3> QED BY <2>3, <3>2
    <2>4. CASE form = 27
      <3>1. l > 4
        BY <2>4, Widths DEF Minimal
      <3>2. a # 24 /\ a # 25 /\ a # 26
        <4> HIDE DEF l
        <4> QED BY <1>1, <3>1, Widths
      <3> QED BY <2>4, <3>2
    <2> QED BY <2>1, <2>2, <2>3, <2>4 DEF Forms
  <1>4. S \in SUBSET Int
    OBVIOUS
  <1>5. Min(S) = form
    <2> HIDE DEF S
    <2>1. \A x \in S : (\A y \in S : x <= y) => x = form
      BY <1>2, <1>3, <1>4
    <2> QED BY <1>2, <1>3, <2>1 DEF Min
  <1> QED BY <1>5 DEF AppendHead

(* An argument below 24 and the one byte that it is *)
LEMMA ShortArgument ==
  ASSUME NEW arg, Argument(arg), Below24(arg)
  PROVE  CountOf(arg) \in 0..23 /\ Pads(<<CountOf(arg)>>, arg)
  <1>1. CASE arg = <<>>
    <2>1. CountOf(arg) = 0
      BY <1>1 DEF CountOf
    <2> QED BY <1>1, <2>1 DEF Pads
  <1>2. CASE arg # <<>>
    <2>1. Len(arg) = 1 /\ arg[1] < 24 /\ arg[1] # 0 /\ arg \in Seq(Nat)
      BY <1>2 DEF Below24, Argument
    <2>2. arg[1] \in Nat
      <3>1. arg \in [1..1 -> Nat]
        BY <2>1, LenProperties
      <3> QED BY <3>1
    <2>3. CountOf(arg) = arg[1]
      BY <1>2, <2>1 DEF CountOf
    <2>4. <<CountOf(arg)>> \in Seq(Nat) /\ Len(<<CountOf(arg)>>) = 1
      BY <2>2, <2>3
    <2> DEFINE b == <<CountOf(arg)>>
    <2>5. Len(b) - Len(arg) = 0 /\ b[1] = arg[1]
      BY <2>1, <2>3, <2>4
    <2> HIDE DEF b
    <2>6. \A i \in 1..Len(arg) : arg[i] = b[0 + i]
      <3> TAKE i \in 1..Len(arg)
      <3>1. i = 1
        BY <2>1
      <3> QED BY <2>5, <3>1
    <2>7. Pads(b, arg)
      BY <2>1, <2>4, <2>5, <2>6 DEF Pads, b
    <2>8. CountOf(arg) \in 0..23
      <3> DEFINE k == arg[1]
      <3>1. k \in Nat /\ k < 24 /\ CountOf(arg) = k
        BY <2>1, <2>2, <2>3
      <3> HIDE DEF k
      <3> QED BY <3>1
    <2> QED BY <2>7, <2>8 DEF b
  <1> QED BY <1>1, <1>2

LEMMA ByteArgument ==
  ASSUME NEW k \in 0..23
  PROVE  /\ Argument(Digits(<<k>>)) /\ Below24(Digits(<<k>>)) /\ CountOf(Digits(<<k>>)) = k
  <1> DEFINE d == Digits(<<k>>)
  <1>1. <<k>> \in Seq(Nat) /\ Len(<<k>>) = 1 /\ <<k>>[1] = k
    OBVIOUS
  <1>2. Pads(<<k>>, d)
    BY <1>1, DigitsPad
  <1> HIDE DEF d
  <1>3. d \in Seq(Nat) /\ Len(d) \in Nat /\ Len(d) <= 1 /\ (d # <<>> => d[1] # 0)
    BY <1>1, <1>2, LenProperties DEF Pads
  <1>4. CASE Len(d) = 0
    <2>1. d = <<>>
      BY <1>3, <1>4, EmptySeq
    <2>2. k = 0
      <3>1. 1 \in 1..Len(<<k>>) - Len(d)
        BY <1>1, <1>4
      <3> QED BY <1>1, <1>2, <3>1 DEF Pads
    <2>3. Argument(d)
      BY <1>3 DEF Argument
    <2>4. Below24(d)
      BY <2>1 DEF Below24
    <2>5. CountOf(d) = k
      BY <2>1, <2>2 DEF CountOf
    <2> QED BY <2>3, <2>4, <2>5 DEF d
  <1>5. CASE Len(d) = 1
    <2>1. d # <<>>
      BY <1>5, EmptySeq
    <2>2. d[1] = k
      <3>1. 1 \in 1..Len(d) /\ Len(<<k>>) - Len(d) + 1 = 1
        BY <1>1, <1>5
      <3> QED BY <1>1, <1>2, <3>1 DEF Pads
    <2>3. Argument(d)
      BY <1>3 DEF Argument
    <2>4. Below24(d)
      BY <1>5, <2>2 DEF Below24
    <2>5. CountOf(d) = k
      BY <1>5, <2>1, <2>2 DEF CountOf
    <2> QED BY <2>3, <2>4, <2>5 DEF d
  <1> QED BY <1>3, <1>4, <1>5

LEMMA PaddedArgument ==
  ASSUME NEW b, NEW d, Pads(b, d), Len(b) <= 8
  PROVE  Argument(d)
  <1>1. Len(b) \in Nat /\ Len(d) \in Nat
    BY LenProperties DEF Pads
  <1> QED BY <1>1 DEF Pads, Argument

(* A head of the short form is read back, and so is one of each longer form. *)
LEMMA ReadShort ==
  ASSUME NEW data, NEW at, NEW k \in 0..23
  PROVE  ReadArgument(data, at, k) = Read(Digits(<<k>>), at)
  BY DEF ReadArgument

LEMMA ReadLong ==
  ASSUME NEW data, NEW at, NEW form \in Forms
  PROVE  LET width == Width(form)
             arg == Digits(Taken(data, at, width))
         IN ReadArgument(data, at, form) =
              IF ~Available(data, at, width) THEN Failed("Truncated")
              ELSE IF Minimal(arg, width) THEN Read(arg, at + width)
              ELSE Failed("NonMinimalInteger")
  <1>1. ~(form < 24) /\ ~(form > 27)
    BY DEF Forms
  <1> QED BY <1>1, Zenon DEF ReadArgument

LEMMA ReadOther ==
  ASSUME NEW data, NEW at, NEW additional \in 28..31
  PROVE  ReadArgument(data, at, additional) = Failed("InvalidAdditionalInformation")
  <1>1. ~(additional < 24) /\ additional > 27
    OBVIOUS
  <1> QED BY <1>1, Zenon DEF ReadArgument

LEMMA TakenBytes ==
  ASSUME NEW data \in Seq(Nat), NEW at \in Nat, NEW n \in Nat, n <= Len(data) - at
  PROVE  /\ Taken(data, at, n) \in Seq(Nat) /\ Len(Taken(data, at, n)) = n
         /\ \A i \in 1..n : Taken(data, at, n)[i] = data[at + i]
  <1> DEFINE l == Len(data)
             t == SubSeq(data, at + 1, at + n)
  <1>1. l \in Nat /\ data \in [1..l -> Nat] /\ at + 1 \in Int /\ at + n \in Int
    BY LenProperties
  <1>2. \A i \in at + 1..at + n : data[i] \in Nat
    <2> TAKE i \in at + 1..at + n
    <2>1. i \in 1..l
      BY <1>1
    <2> QED BY <1>1, <2>1
  <1>3. /\ t \in Seq(Nat)
        /\ Len(t) = IF at + 1 <= at + n THEN at + n - (at + 1) + 1 ELSE 0
        /\ \A i \in 1..at + n - (at + 1) + 1 : t[i] = data[at + 1 + i - 1]
    BY <1>1, <1>2, SubSeqProperties
  <1> HIDE DEF t
  <1>4. Len(t) = n
    BY <1>3
  <1>5. \A i \in 1..n : t[i] = data[at + i]
    <2> TAKE i \in 1..n
    <2>1. i \in 1..at + n - (at + 1) + 1 /\ at + 1 + i - 1 = at + i
      OBVIOUS
    <2> QED BY <1>3, <2>1
  <1> QED BY <1>3, <1>4, <1>5 DEF Taken, t

(* head is in data behind its first at bytes. *)
Lies(data, at, head) ==
  at + Len(head) <= Len(data) /\ \A i \in 1..Len(head) : data[at + i] = head[i]

LEMMA LongBytes ==
  ASSUME NEW first \in Nat, NEW arg, Argument(arg), NEW width \in Nat, Len(arg) <= width
  PROVE  LET head == <<first>> \o BigEndian(arg, width)
         IN /\ head \in Seq(Nat) /\ Len(head) = width + 1 /\ head[1] = first
            /\ \A i \in 1..width : head[1 + i] = BigEndian(arg, width)[i]
  <1> DEFINE b == BigEndian(arg, width)
             f == <<first>>
             h == f \o b
  <1>1. b \in Seq(Nat) /\ Len(b) = width
    BY BigEndianPads DEF Argument, Pads
  <1>2. f \in Seq(Nat) /\ Len(f) = 1 /\ f[1] = first
    OBVIOUS
  <1> HIDE DEF b, f
  <1>3. /\ h \in Seq(Nat) /\ Len(h) = 1 + width
        /\ \A i \in 1..1 + width : h[i] = IF i <= 1 THEN f[i] ELSE b[i - 1]
    <2>1. /\ h \in Seq(Nat) /\ Len(h) = Len(f) + Len(b)
          /\ \A i \in 1..Len(f) + Len(b) :
               h[i] = IF i <= Len(f) THEN f[i] ELSE b[i - Len(f)]
      BY <1>1, <1>2, ConcatProperties
    <2> HIDE DEF h
    <2> QED BY <1>1, <1>2, <2>1
  <1> HIDE DEF h
  <1>4. h[1] = first
    <2>1. 1 \in 1..1 + width
      OBVIOUS
    <2> QED BY <1>2, <1>3, <2>1
  <1>5. \A i \in 1..width : h[1 + i] = b[i]
    <2> TAKE i \in 1..width
    <2>1. 1 + i \in 1..1 + width /\ ~(1 + i <= 1) /\ 1 + i - 1 = i
      OBVIOUS
    <2> QED BY <1>3, <2>1
  <1>6. Len(h) = width + 1
    BY <1>3
  <1> QED BY <1>3, <1>4, <1>5, <1>6 DEF h, f, b

LEMMA HeadRead ==
  ASSUME NEW major \in 0..7, NEW arg, Argument(arg), NEW data \in Seq(Nat), NEW at \in Nat,
         Lies(data, at, AppendHead(major, arg))
  PROVE  LET head == AppendHead(major, arg)
         IN /\ data[at + 1] \div 32 = major
            /\ ReadArgument(data, at + 1, data[at + 1] % 32) = Read(arg, at + Len(head))
  <1> DEFINE head == AppendHead(major, arg)
  <1>1. CASE Below24(arg)
    <2> DEFINE k == CountOf(arg)
    <2>1. k \in 0..23 /\ Pads(<<k>>, arg)
      BY <1>1, ShortArgument
    <2>2. head = <<32 * major + k>>
      BY <1>1 DEF AppendHead
    <2>3. Len(head) = 1 /\ head[1] = 32 * major + k
      <3> HIDE DEF head
      <3> QED BY <2>2
    <2> HIDE DEF head, k
    <2>4. data[at + 1] = 32 * major + k
      <3>1. 1 \in 1..Len(head)
        BY <2>3
      <3> QED BY <2>3, <3>1 DEF Lies, head
    <2>5. data[at + 1] \div 32 = major /\ data[at + 1] % 32 = k
      <3>1. (32 * major + k) \div 32 = major /\ (32 * major + k) % 32 = k
        <4>1. k \in 0..23
          BY <2>1
        <4> QED BY <4>1
      <3> QED BY <2>4, <3>1
    <2>6. Digits(<<k>>) = arg
      <3>1. <<k>> \in Seq(Nat)
        BY <2>1
      <3>2. Pads(<<k>>, Digits(<<k>>))
        BY <3>1, DigitsPad
      <3> QED BY <2>1, <3>2, PadsUnique
    <2>7. ReadArgument(data, at + 1, k) = Read(arg, at + 1)
      BY <2>1, <2>6, ReadShort
    <2> QED BY <2>3, <2>5, <2>7 DEF head
  <1>2. CASE ~Below24(arg)
    <2>1. PICK form \in Forms : Len(arg) <= Width(form) /\ Minimal(arg, Width(form))
      BY <1>2, FormExists
    <2> DEFINE w == Width(form)
               b == BigEndian(arg, w)
    <2>2. w \in Nat
      BY WidthType
    <2>3. head = <<32 * major + form>> \o b
      BY <1>2, <2>1, LongHead
    <2>4. 32 * major + form \in Nat
      BY DEF Forms
    <2>5. Len(arg) <= w /\ Minimal(arg, w)
      BY <2>1
    <2> HIDE DEF w
    <2>6. /\ Len(head) = w + 1 /\ head[1] = 32 * major + form
          /\ \A i \in 1..w : head[1 + i] = b[i]
      <3> DEFINE first == 32 * major + form
      <3> HIDE DEF first
      <3>1. first \in Nat
        BY <2>4 DEF first
      <3>2. LET h == <<first>> \o BigEndian(arg, w)
            IN /\ h \in Seq(Nat) /\ Len(h) = w + 1 /\ h[1] = first
               /\ \A i \in 1..w : h[1 + i] = BigEndian(arg, w)[i]
        BY <2>2, <2>5, <3>1, LongBytes
      <3>3. head = <<first>> \o b
        BY <2>3 DEF first
      <3> HIDE DEF head
      <3> QED BY <3>2, <3>3 DEF first
    <2>7. Len(b) = w /\ Pads(b, arg)
      BY <2>2, <2>5, BigEndianPads DEF Argument
    <2> HIDE DEF b, head
    <2>8. data[at + 1] = 32 * major + form
      <3>1. 1 \in 1..Len(head)
        BY <2>2, <2>6
      <3> QED BY <2>6, <3>1 DEF Lies, head
    <2>9. data[at + 1] \div 32 = major /\ data[at + 1] % 32 = form
      <3>1. (32 * major + form) \div 32 = major /\ (32 * major + form) % 32 = form
        BY DEF Forms
      <3> QED BY <2>8, <3>1
    <2>10. Len(data) \in Nat /\ w <= Len(data) - (at + 1)
      <3>1. Len(data) \in Nat /\ at + Len(head) <= Len(data)
        BY LenProperties DEF Lies, head
      <3> QED BY <2>2, <2>6, <3>1
    <2> DEFINE t == Taken(data, at + 1, w)
    <2>11. t \in Seq(Nat) /\ Len(t) = w /\ \A i \in 1..w : t[i] = data[at + 1 + i]
      <3>1. at + 1 \in Nat
        OBVIOUS
      <3> QED BY <2>2, <2>10, <3>1, TakenBytes
    <2> HIDE DEF t
    <2>12. \A i \in 1..w : t[i] = b[i]
      <3> TAKE i \in 1..w
      <3>1. 1 + i \in 1..Len(head) /\ at + (1 + i) = at + 1 + i
        BY <2>2, <2>6
      <3>2. data[at + (1 + i)] = head[1 + i]
        BY <3>1 DEF Lies, head
      <3> QED BY <2>6, <2>11, <3>1, <3>2
    <2>13. t = b
      <3>1. b \in Seq(Nat)
        BY <2>7 DEF Pads
      <3> QED BY <2>7, <2>11, <2>12, <3>1, SeqEqual
    <2>14. Digits(t) = arg
      <3>1. Pads(t, Digits(t))
        BY <2>11, DigitsPad
      <3> QED BY <2>7, <2>13, <3>1, PadsUnique
    <2>15. Available(data, at + 1, w)
      BY <2>10 DEF Available
    <2>16. ReadArgument(data, at + 1, form) = Read(arg, at + 1 + w)
      BY <2>5, <2>14, <2>15, ReadLong, Zenon DEF t, w
    <2>17. at + 1 + w = at + Len(head)
      BY <2>2, <2>6
    <2> QED BY <2>9, <2>16, <2>17 DEF head
  <1> QED BY <1>1, <1>2

LEMMA HeadBytes ==
  ASSUME NEW major \in 0..7, NEW arg, Argument(arg)
  PROVE  AppendHead(major, arg) \in Seq(Nat)
  <1>1. CASE Below24(arg)
    <2> DEFINE first == 32 * major + CountOf(arg)
    <2>1. first \in Nat
      <3> DEFINE k == CountOf(arg)
      <3>1. k \in 0..23
        BY <1>1, ShortArgument
      <3> HIDE DEF k
      <3>2. 32 * major + k \in Nat
        BY <3>1
      <3> QED BY <3>2 DEF k
    <2>2. AppendHead(major, arg) = <<first>>
      BY <1>1 DEF AppendHead
    <2> HIDE DEF first
    <2> QED BY <2>1, <2>2
  <1>2. CASE ~Below24(arg)
    <2>1. PICK form \in Forms : Len(arg) <= Width(form) /\ Minimal(arg, Width(form))
      BY <1>2, FormExists
    <2> DEFINE w == Width(form)
               first == 32 * major + form
    <2>2. w \in Nat /\ first \in Nat
      BY WidthType DEF Forms
    <2>3. AppendHead(major, arg) = <<first>> \o BigEndian(arg, w)
      BY <1>2, <2>1, LongHead
    <2>4. Len(arg) <= w
      BY <2>1
    <2> HIDE DEF w, first
    <2>5. <<first>> \o BigEndian(arg, w) \in Seq(Nat)
      <3>1. LET head == <<first>> \o BigEndian(arg, w) IN head \in Seq(Nat)
        BY <2>2, <2>4, LongBytes
      <3> QED BY <3>1
    <2> QED BY <2>3, <2>5
  <1> QED BY <1>1, <1>2

(* appendHead and readArgument, cbor.cpp, in any bytes around them: what the *)
(* head of an item was written with is what is read from it, for every major *)
(* type and every argument of 64 bits, and reading stops where the head      *)
(* ends.                                                                     *)
THEOREM HeadsReadBack ==
  ASSUME NEW major \in 0..7, NEW arg, Argument(arg),
         NEW before \in Seq(Nat), NEW behind \in Seq(Nat)
  PROVE  LET head == AppendHead(major, arg)
             data == before \o head \o behind
             at == Len(before)
         IN /\ data[at + 1] \div 32 = major
            /\ ReadArgument(data, at + 1, data[at + 1] % 32) = Read(arg, at + Len(head))
  <1> DEFINE head == AppendHead(major, arg)
             front == before \o head
             data == front \o behind
             at == Len(before)
  <1>1. head \in Seq(Nat)
    BY HeadBytes
  <1> HIDE DEF head
  <1>2. /\ front \in Seq(Nat) /\ Len(front) = Len(before) + Len(head)
        /\ \A i \in 1..Len(before) + Len(head) :
             front[i] = IF i <= Len(before) THEN before[i] ELSE head[i - Len(before)]
    BY <1>1, ConcatProperties
  <1> HIDE DEF front
  <1>3. /\ data \in Seq(Nat) /\ Len(data) = Len(front) + Len(behind)
        /\ \A i \in 1..Len(front) + Len(behind) :
             data[i] = IF i <= Len(front) THEN front[i] ELSE behind[i - Len(front)]
    <2>1. front \in Seq(Nat)
      BY <1>2
    <2> QED BY <2>1, ConcatProperties
  <1> HIDE DEF data
  <1>4. at \in Nat /\ Len(head) \in Nat /\ Len(front) \in Nat /\ Len(behind) \in Nat
    BY <1>1, <1>2, LenProperties
  <1>5. Lies(data, at, head)
    <2>1. at + Len(head) <= Len(data)
      BY <1>2, <1>3, <1>4
    <2>2. \A i \in 1..Len(head) : data[at + i] = head[i]
      <3> TAKE i \in 1..Len(head)
      <3> DEFINE j == at + i
      <3>1. /\ j \in 1..Len(before) + Len(head) /\ j \in 1..Len(front) + Len(behind)
            /\ ~(j <= Len(before)) /\ j <= Len(front) /\ j - Len(before) = i
        BY <1>2, <1>4
      <3> HIDE DEF j
      <3>2. data[j] = front[j]
        BY <1>3, <3>1
      <3>3. front[j] = head[i]
        BY <1>2, <3>1
      <3> QED BY <3>2, <3>3 DEF j
    <2> QED BY <2>1, <2>2 DEF Lies
  <1>6. /\ data[at + 1] \div 32 = major
        /\ ReadArgument(data, at + 1, data[at + 1] % 32) = Read(arg, at + Len(head))
    <2> HIDE DEF at
    <2> QED BY <1>3, <1>4, <1>5, HeadRead DEF head
  <1> QED BY <1>6 DEF head, front, data

LEMMA WideArgument ==
  ASSUME NEW arg, Argument(arg), NEW form \in Forms, Minimal(arg, Width(form))
  PROVE  ~Below24(arg)
  <1> DEFINE l == Len(arg)
  <1>1. CASE form = 24
    BY <1>1, Widths DEF Minimal
  <1>2. CASE form # 24
    <2>1. l > 1
      BY <1>2, Widths DEF Minimal, Forms
    <2>2. l # 1 /\ l # 0
      <3> HIDE DEF l
      <3> QED BY <2>1
    <2> QED BY <2>2 DEF Below24
  <1> QED BY <1>1, <1>2

(* readArgument, cbor.cpp: "integer and length arguments must use the        *)
(* shortest possible head".  Whatever the bytes, a head that is read without *)
(* an error is the one that appendHead writes for what was read; so no two   *)
(* heads are read as the same, and nothing is read past the end.             *)
THEOREM HeadsAreCanonical ==
  ASSUME NEW data \in Seq(Nat), NEW at \in Nat, at < Len(data),
         ReadArgument(data, at + 1, data[at + 1] % 32).error = "None"
  PROVE  LET r == ReadArgument(data, at + 1, data[at + 1] % 32)
         IN /\ Argument(r.value) /\ r.at \in at + 1..Len(data)
            /\ Taken(data, at, r.at - at) = AppendHead(data[at + 1] \div 32, r.value)
  <1> DEFINE byte == data[at + 1]
             k == byte % 32
             major == byte \div 32
             r == ReadArgument(data, at + 1, k)
             size == Len(data)
  <1>1. size \in Nat /\ size - at >= 1
    BY LenProperties
  <1>2. byte \in Nat
    <2>1. at + 1 \in 1..size /\ data \in [1..size -> Nat]
      BY <1>1, LenProperties
    <2> QED BY <2>1
  <1> HIDE DEF byte
  <1>3. k \in 0..31 /\ major \in Nat /\ byte = 32 * major + k
    BY <1>2
  <1>4. r.error = "None"
    BY DEF byte
  <1> HIDE DEF k, major
  <1>5. CASE k \in 0..23
    <2> DEFINE d == Digits(<<k>>)
               t == Taken(data, at, 1)
    <2>1. r.value = d /\ r.at = at + 1
      <3>1. r = Read(d, at + 1)
        BY <1>5, ReadShort
      <3> HIDE DEF r, d
      <3> QED BY <3>1 DEF Read
    <2>2. Argument(d) /\ Below24(d) /\ CountOf(d) = k
      BY <1>5, ByteArgument
    <2> HIDE DEF r, d
    <2>3. AppendHead(major, d) = <<byte>>
      <3>1. AppendHead(major, d) = <<32 * major + k>>
        BY <2>2 DEF AppendHead
      <3> QED BY <1>3, <3>1
    <2>4. t \in Seq(Nat) /\ Len(t) = 1 /\ \A i \in 1..1 : t[i] = data[at + i]
      <3>1. 1 \in Nat /\ 1 <= size - at
        BY <1>1
      <3> QED BY <3>1, TakenBytes
    <2> HIDE DEF t
    <2>5. t = <<byte>>
      <3> DEFINE f == <<byte>>
      <3>1. f \in Seq(Nat) /\ Len(f) = 1 /\ f[1] = byte
        BY <1>2
      <3> HIDE DEF f
      <3>2. \A i \in 1..1 : t[i] = f[i]
        <4> TAKE i \in 1..1
        <4>1. i = 1
          OBVIOUS
        <4> QED BY <2>4, <3>1, <4>1 DEF byte
      <3>3. t = f
        BY <2>4, <3>1, <3>2, SeqEqual
      <3> QED BY <3>3 DEF f
    <2>6. r.at - at = 1
      BY <2>1
    <2>7. r.at \in at + 1..size
      BY <1>1, <2>1
    <2>8. Taken(data, at, r.at - at) = AppendHead(major, r.value)
      BY <2>1, <2>3, <2>5, <2>6 DEF t
    <2> QED BY <2>1, <2>2, <2>7, <2>8 DEF r, k, major, byte
  <1>6. CASE k \in Forms
    <2> DEFINE w == Width(k)
               t == Taken(data, at + 1, w)
               d == Digits(t)
    <2>1. r = IF ~Available(data, at + 1, w) THEN Failed("Truncated")
              ELSE IF Minimal(d, w) THEN Read(d, at + 1 + w)
              ELSE Failed("NonMinimalInteger")
      BY <1>6, ReadLong, Zenon
    <2>2. w \in Nat /\ w <= 8
      BY <1>6, WidthType
    <2> HIDE DEF r, d
    <2>3. Available(data, at + 1, w) /\ Minimal(d, w) /\ r = Read(d, at + 1 + w)
      <3>1. Failed("Truncated").error # "None" /\ Failed("NonMinimalInteger").error # "None"
        BY DEF Failed
      <3>2. Available(data, at + 1, w)
        BY <1>4, <2>1, <3>1
      <3>3. Minimal(d, w)
        BY <1>4, <2>1, <3>1, <3>2
      <3> QED BY <2>1, <3>2, <3>3
    <2>4. w <= size - (at + 1)
      BY <2>3 DEF Available
    <2>5. t \in Seq(Nat) /\ Len(t) = w /\ \A i \in 1..w : t[i] = data[at + 1 + i]
      <3>1. at + 1 \in Nat
        OBVIOUS
      <3> HIDE DEF w
      <3> QED BY <2>2, <2>4, <3>1, TakenBytes
    <2>6. Pads(t, d) /\ t = BigEndian(d, w) /\ Argument(d) /\ Len(d) <= w
      <3> HIDE DEF t, w
      <3>1. Pads(t, d)
        BY <2>5, DigitsPad DEF d
      <3>2. Len(d) <= w
        BY <2>5, <3>1 DEF Pads
      <3> QED BY <2>2, <2>5, <3>1, <3>2, PadsBigEndian, PaddedArgument
    <2>7. ~Below24(d)
      <3> HIDE DEF t
      <3> QED BY <1>6, <2>3, <2>6, WideArgument
    <2> DEFINE h == AppendHead(major, d)
               u == Taken(data, at, w + 1)
    <2>8. h = <<byte>> \o BigEndian(d, w)
      <3>1. h = <<32 * major + k>> \o BigEndian(d, w)
        BY <1>6, <2>3, <2>6, <2>7, LongHead
      <3> HIDE DEF h
      <3> QED BY <1>3, <3>1
    <2>9. /\ h \in Seq(Nat) /\ Len(h) = w + 1 /\ h[1] = byte
          /\ \A i \in 1..w : h[1 + i] = BigEndian(d, w)[i]
      <3> HIDE DEF w, t
      <3>1. LET e == <<byte>> \o BigEndian(d, w)
            IN /\ e \in Seq(Nat) /\ Len(e) = w + 1 /\ e[1] = byte
               /\ \A i \in 1..w : e[1 + i] = BigEndian(d, w)[i]
        BY <1>2, <2>2, <2>6, LongBytes
      <3> HIDE DEF h
      <3> QED BY <2>8, <3>1
    <2> HIDE DEF h, t, w
    <2>10. u \in Seq(Nat) /\ Len(u) = w + 1 /\ \A i \in 1..w + 1 : u[i] = data[at + i]
      <3>1. w + 1 \in Nat /\ w + 1 <= size - at
        BY <1>1, <2>2, <2>4
      <3> QED BY <3>1, TakenBytes
    <2> HIDE DEF u
    <2>11. \A i \in 1..w + 1 : u[i] = h[i]
      <3> TAKE i \in 1..w + 1
      <3>1. CASE i = 1
        BY <2>9, <2>10, <3>1 DEF byte
      <3>2. CASE i # 1
        <4>1. PICK j \in 1..w : i = 1 + j
          <5>1. i - 1 \in 1..w /\ i = 1 + (i - 1)
            BY <2>2, <3>2
          <5> QED BY <5>1
        <4>2. at + i = at + 1 + j
          BY <2>2, <4>1
        <4>3. u[i] = t[j]
          BY <2>5, <2>10, <4>1, <4>2
        <4>4. h[i] = t[j]
          BY <2>6, <2>9, <4>1
        <4> QED BY <4>3, <4>4
      <3> QED BY <3>1, <3>2
    <2>12. u = h
      BY <2>9, <2>10, <2>11, SeqEqual
    <2>13. r.value = d /\ r.at = at + 1 + w
      BY <2>3 DEF Read
    <2>14. r.at \in at + 1..size /\ r.at - at = w + 1
      BY <1>1, <2>2, <2>4, <2>13
    <2>15. Taken(data, at, r.at - at) = AppendHead(major, r.value)
      BY <2>12, <2>13, <2>14 DEF u, h
    <2> QED BY <2>6, <2>13, <2>14, <2>15 DEF r, k, major, byte
  <1>7. CASE k \in 28..31
    <2>1. r = Failed("InvalidAdditionalInformation")
      BY <1>7, ReadOther
    <2>2. Failed("InvalidAdditionalInformation").error # "None"
      BY DEF Failed
    <2> HIDE DEF r
    <2> QED BY <1>4, <2>1, <2>2
  <1> HIDE DEF r
  <1> QED BY <1>3, <1>5, <1>6, <1>7 DEF Forms

(* The number of three bytes *)
Weighs(n, x, y, z) == n = 65536 * x + 256 * y + z

(* arg is the argument of n, and of bytes. *)
StandsFor(arg, n) ==
  Argument(arg) /\ CountOf(arg) = n /\ \A i \in 1..Len(arg) : arg[i] \in 0..255

LEMMA ThreeBytes ==
  ASSUME NEW x \in 0..255, NEW y \in 0..255, NEW z \in 0..255
  PROVE  \A j \in 1..3 : <<x, y, z>>[j] \in 0..255
  <1> TAKE j \in 1..3
  <1>1. CASE j = 1
    BY <1>1
  <1>2. CASE j = 2
    BY <1>2
  <1>3. CASE j = 3
    BY <1>3
  <1> QED BY <1>1, <1>2, <1>3

LEMMA ThreeDigits ==
  ASSUME NEW x \in 0..255, NEW y \in 0..255, NEW z \in 0..255, NEW d, Pads(<<x, y, z>>, d),
         NEW n, Weighs(n, x, y, z)
  PROVE  StandsFor(d, n)
  <1> DEFINE b == <<x, y, z>>
             l == Len(d)
  <1>1. x \in Nat /\ y \in Nat /\ z \in Nat
    OBVIOUS
  <1>2. b \in Seq(Nat) /\ Len(b) = 3 /\ b[1] = x /\ b[2] = y /\ b[3] = z
    BY <1>1
  <1>3. Pads(b, d)
    OBVIOUS
  <1> HIDE DEF b
  <1>4. Argument(d)
    <2>1. Len(b) <= 8
      BY <1>2
    <2> QED BY <1>3, <2>1, PaddedArgument
  <1>5. l \in Nat /\ l <= 3
    BY <1>2, <1>3, LenProperties DEF Pads
  <1>6. /\ \A i \in 1..3 - l : b[i] = 0
        /\ \A i \in 1..l : d[i] = b[3 - l + i]
    BY <1>2, <1>3 DEF Pads
  <1>7. l # 0 => d # <<>>
    BY EmptySeq
  <1> HIDE DEF l
  <1>8. ASSUME l = 0 PROVE CountOf(d) = n
    <2>1. b[1] = 0 /\ b[2] = 0 /\ b[3] = 0
      BY <1>6, <1>8
    <2>2. d = <<>>
      BY <1>3, <1>8, EmptySeq DEF Pads, l
    <2>3. CountOf(d) = 0
      BY <2>2 DEF CountOf
    <2> QED BY <1>1, <1>2, <2>1, <2>3 DEF Weighs
  <1>9. ASSUME l = 1 PROVE CountOf(d) = n
    <2>1. b[1] = 0 /\ b[2] = 0 /\ d[1] = b[3]
      BY <1>6, <1>9
    <2>2. CountOf(d) = d[1]
      BY <1>7, <1>9 DEF CountOf, l
    <2> QED BY <1>1, <1>2, <2>1, <2>2 DEF Weighs
  <1>10. ASSUME l = 2 PROVE CountOf(d) = n
    <2>1. b[1] = 0 /\ d[1] = b[2] /\ d[2] = b[3]
      BY <1>6, <1>10
    <2>2. CountOf(d) = 256 * d[1] + d[2]
      BY <1>7, <1>10 DEF CountOf, l
    <2> QED BY <1>1, <1>2, <2>1, <2>2 DEF Weighs
  <1>11. ASSUME l = 3 PROVE CountOf(d) = n
    <2>1. d[1] = b[1] /\ d[2] = b[2] /\ d[3] = b[3]
      BY <1>6, <1>11
    <2>2. CountOf(d) = 65536 * d[1] + 256 * d[2] + d[3]
      BY <1>7, <1>11 DEF CountOf, l
    <2> QED BY <1>1, <1>2, <2>1, <2>2 DEF Weighs
  <1>12. \A i \in 1..l : d[i] \in 0..255
    <2>1. \A j \in 1..3 : b[j] \in 0..255
      BY ThreeBytes DEF b
    <2> TAKE i \in 1..l
    <2>2. 3 - l + i \in 1..3
      BY <1>5
    <2> QED BY <1>6, <2>1, <2>2
  <1>13. Argument(d) /\ CountOf(d) = n
    <2>1. l = 0 \/ l = 1 \/ l = 2 \/ l = 3
      BY <1>5
    <2> QED BY <1>4, <1>8, <1>9, <1>10, <1>11, <2>1
  <1> QED BY <1>12, <1>13 DEF l, StandsFor

(* The first number that needs more than three bytes *)
LengthLimit == 256 * 65536

(* encode writes a length as an argument, and decode counts with it: they    *)
(* agree on every length that the limits of a control message allow.         *)
THEOREM LengthsReadBack ==
  ASSUME NEW n \in Nat, n < LengthLimit
  PROVE  StandsFor(ArgumentOf(n), n)
  <1> DEFINE x == n \div 65536
             y == (n \div 256) % 256
             z == n % 256
  <1>1. x \in 0..255 /\ y \in 0..255 /\ z \in 0..255 /\ Weighs(n, x, y, z)
    BY DEF Weighs, LengthLimit
  <1> DEFINE b == <<x, y, z>>
             d == ArgumentOf(n)
  <1>2. d = Digits(b)
    BY DEF ArgumentOf
  <1> HIDE DEF x, y, z
  <1>3. b \in Seq(Nat)
    BY <1>1
  <1>4. Pads(b, d)
    <2> HIDE DEF b, d
    <2> QED BY <1>2, <1>3, DigitsPad
  <1> HIDE DEF d
  <1>5. StandsFor(d, n)
    BY <1>1, <1>4, ThreeDigits
  <1> QED BY <1>5 DEF d

================================================================================
