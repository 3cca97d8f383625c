------------------------ MODULE SessionControllerProofs ------------------------
(***************************************************************************)
(* Safety of SessionController for every set of consumers, every queue     *)
(* limit and every number of connections, generations and frames.          *)
(***************************************************************************)
EXTENDS SessionController, TLAPS

LEMMA InitType == Init => TypeOK
  <1> USE ConsumersAssumption, BoundsAssumption
      DEF Init, Threads, Home
  <1> SUFFICES ASSUME Init PROVE TypeOK
    OBVIOUS
  <1>1. NoUnit \in Units
    BY DEF NoUnit, Carrying, Units
  <1>2. /\ at \in [Threads -> NetPlaces \cup DrainPlaces \cup ResetPlaces \cup UiPlaces]
        /\ unit \in [Threads -> Units]
        /\ target \in [Threads -> Consumers \cup {NoConsumer}]
    BY <1>1 DEF NetPlaces, UiPlaces
  <1>3. then \in [Threads -> {"check", "idle", "askOrFail", "sendChallenge",
                              "sendReady", "drain"}]
    OBVIOUS
  <1>4. /\ fed \in [Consumers -> Feeds]
        /\ consumer \in Consumers \cup {NoConsumer}
    BY DEF Feeds
  <1>5. /\ trusted \in BOOLEAN /\ hello \in BOOLEAN /\ protector \in BOOLEAN
        /\ waiting \in BOOLEAN /\ draining \in BOOLEAN /\ resetting \in BOOLEAN
        /\ received \in BOOLEAN /\ valid \in BOOLEAN /\ stopReq \in BOOLEAN
    BY Zenon
  <1>7. queue \in Seq(Units) /\ overdue \subseteq Stamps
    OBVIOUS
  <1> QED BY <1>2, <1>3, <1>4, <1>5, <1>7 DEF TypeOK, States

LEMMA CarryingType ==
  ASSUME NEW c \in Nat, NEW g \in Nat
  PROVE  Carrying(c, g) \in Units
  BY DEF Carrying, Units

LEMMA NoUnitType == NoUnit \in Units
  BY CarryingType DEF NoUnit

LEMMA TokenType ==
  ASSUME NEW u \in Units, NEW n \in Nat
  PROVE  [u EXCEPT !.token = n] \in Units
  BY DEF Units

LEMMA FedType ==
  ASSUME NEW f \in [Consumers -> Feeds],
         NEW c, NEW p \in Nat
  PROVE  [f EXCEPT ![c] = [conn |-> @.conn, gen |-> @.gen, pts |-> p]]
            \in [Consumers -> Feeds]
  BY DEF Feeds

LEMMA QueueType ==
  ASSUME NEW q \in Seq(Units), NEW r, r = <<>> \/ r = q
  PROVE  r \in Seq(Units)
  <1>1. <<>> \in Seq(Units)
    OBVIOUS
  <1> QED BY <1>1, Zenon

LEMMA AppendType ==
  ASSUME NEW q \in Seq(Units), NEW u \in Units, NEW r, r = <<>> \/ r = Append(q, u)
  PROVE  r \in Seq(Units)
  <1>1. <<>> \in Seq(Units)
    OBVIOUS
  <1>2. Append(q, u) \in Seq(Units)
    OBVIOUS
  <1> QED BY <1>1, <1>2, Zenon

LEMMA LeavesKinds == {Leaves("ready"), Leaves("command")} \subseteq {"ready", "command", "plain"}
  BY DEF Leaves

LEMMA SentKinds ==
  ASSUME sent \subseteq {"server_info", "auth_challenge", "auth_confirm", "ready", "command", "plain"},
         sent' \in {sent, sent \cup {Leaves("command")}}
  PROVE  sent' \subseteq {"server_info", "auth_challenge", "auth_confirm", "ready", "command", "plain"}
  BY LeavesKinds

LEMMA HandshakeKinds ==
  ASSUME NEW step \in HandshakeSteps
  PROVE  Handshake[step] \in {"server_info", "auth_challenge", "auth_confirm", "ready"}
  BY DEF HandshakeSteps, Handshake

LEMMA NextType == TypeOK /\ [Next]_vars => TypeOK'
  <1> SUFFICES ASSUME TypeOK, [Next]_vars PROVE TypeOK'
    OBVIOUS
  <1> USE DEF TypeOK, Threads, sessionVars, trustVars, queueVars, formatVars,
              flagVars, consVars, connVars, wdVars, outerVars, localVars
  <1>1. ASSUME NEW configValid \in BOOLEAN, OnConnected(configValid) PROVE TypeOK'
    <2>1. trusted' \in BOOLEAN /\ hello' \in BOOLEAN /\ protector' \in BOOLEAN /\ waiting' \in BOOLEAN /\ draining' \in BOOLEAN /\ resetting' \in BOOLEAN /\ received' \in BOOLEAN /\ valid' \in BOOLEAN /\ stopReq' \in BOOLEAN
      BY <1>1, Zenon DEF OnConnected, ResetQueue
    <2>2. queue' \in Seq(Units)
      BY <1>1 DEF OnConnected, ResetQueue
    <2> QED BY <1>1, <2>1, <2>2 DEF OnConnected, ResetQueue, Goto, States, NetPlaces
  <1>2. ASSUME CheckValid PROVE TypeOK'
    BY <1>2, NoUnitType DEF CheckValid, Goto, NetPlaces
  <1>3. ASSUME RequestStop PROVE TypeOK'
    BY <1>3 DEF RequestStop, Goto, NetPlaces
  <1>4. ASSUME OnDisconnected PROVE TypeOK'
    <2>1. trusted' \in BOOLEAN /\ hello' \in BOOLEAN /\ waiting' \in BOOLEAN /\ resetting' \in BOOLEAN /\ received' \in BOOLEAN /\ valid' \in BOOLEAN
      BY <1>4, Zenon DEF OnDisconnected, ResetQueue
    <2>2. queue' \in Seq(Units)
      BY <1>4 DEF OnDisconnected, ResetQueue
    <2> QED BY <1>4, <2>1, <2>2 DEF OnDisconnected, ResetQueue, Goto, States, NetPlaces
  <1>4b. ASSUME DropProtector PROVE TypeOK'
    <2>1. protector' \in BOOLEAN
      BY <1>4b, Zenon DEF DropProtector
    <2> QED BY <1>4b, <2>1 DEF DropProtector, JoinWatchdog, Goto, NetPlaces
  <1>5. ASSUME ProtocolFailure PROVE TypeOK'
    BY <1>5 DEF ProtocolFailure, Goto, States, NetPlaces
  <1>6. ASSUME CloseConnection PROVE TypeOK'
    <2>1. valid' \in BOOLEAN
      BY <1>6, Zenon DEF CloseConnection
    <2> QED BY <1>6, <2>1 DEF CloseConnection, Goto, NetPlaces
  <1>7. ASSUME Telemetry PROVE TypeOK'
    BY <1>7 DEF Telemetry, Goto, Touch, NetPlaces
  <1>8. ASSUME StreamStart PROVE TypeOK'
    <2>1. resetting' \in BOOLEAN /\ received' \in BOOLEAN
      BY <1>8, Zenon DEF StreamStart
    <2>2. unit' \in [Threads -> Units]
      BY <1>8, CarryingType DEF StreamStart
    <2>3. at' \in [Threads -> NetPlaces \cup DrainPlaces \cup ResetPlaces \cup UiPlaces]
      BY <1>8 DEF StreamStart, Goto, NetPlaces, ResetPlaces
    <2> QED BY <1>8, <2>1, <2>2, <2>3 DEF StreamStart, Touch, States
  <1>9. ASSUME NEW g \in 1..MaxGeneration, FormatAck(g) PROVE TypeOK'
    <2>1. resetting' \in BOOLEAN /\ received' \in BOOLEAN /\ waiting' \in BOOLEAN
      BY <1>9, Zenon DEF FormatAck, Answers, ResetQueue
    <2>2. Carrying(live, g) \in Units
      BY <1>9, CarryingType, BoundsAssumption
    <2>3. unit' \in [Threads -> Units]
      BY <1>9, <2>2 DEF FormatAck, Answers
    <2>4. queue' = <<>> \/ queue' = queue
      BY <1>9, Zenon DEF FormatAck, Answers, ResetQueue
    <2>5. queue' \in Seq(Units)
      BY <1>9, <2>4, QueueType
    <2>6. overdue' \subseteq Stamps
      BY <1>9 DEF FormatAck, Answers, Touch
    <2>7. pending' \in Nat /\ streamGen' \in Nat
      BY <1>9 DEF FormatAck, Answers
    <2>8. at' \in [Threads -> NetPlaces \cup DrainPlaces \cup ResetPlaces \cup UiPlaces]
      BY <1>9 DEF FormatAck, Answers, Goto, NetPlaces, ResetPlaces
    <2> QED BY <1>9, <2>1, <2>2, <2>3, <2>4, <2>5, <2>6, <2>7, <2>8 DEF FormatAck, Answers
  <1>10. ASSUME NEW g \in 1..MaxGeneration, FormatReject(g) PROVE TypeOK'
    <2>1. received' \in BOOLEAN /\ waiting' \in BOOLEAN
      BY <1>10, Zenon DEF FormatReject, Answers, ResetQueue
    <2>2. queue' = <<>> \/ queue' = queue
      BY <1>10, Zenon DEF FormatReject, Answers, ResetQueue
    <2>3. queue' \in Seq(Units)
      BY <1>10, <2>2, QueueType
    <2> QED BY <1>10, <2>1, <2>2, <2>3 DEF FormatReject, Answers, ResetQueue, Goto, Touch, NetPlaces
  <1>11. ASSUME NEW ok \in SendResults, AskOrFail(ok) PROVE TypeOK'
    BY <1>11, SentKinds DEF AskOrFail, Goto, NetPlaces
  <1>12. ASSUME NEW trusts \in BOOLEAN, NEW challenge \in BOOLEAN, HandleHello(trusts, challenge) PROVE TypeOK'
    BY <1>12 DEF HandleHello, Goto, NetPlaces, HandshakeSteps, States
  <1>13. ASSUME HelloRefused PROVE TypeOK'
    BY <1>13 DEF HelloRefused, Moves, Goto, NetPlaces
  <1>14. ASSUME NEW step \in HandshakeSteps, NEW ok \in SendResults, SendHandshake(step, ok) PROVE TypeOK'
    <2>1. Handshake[step] \in {"server_info", "auth_challenge", "auth_confirm", "ready"}
      BY <1>14, HandshakeKinds
    <2>2. sent' = sent \/ sent' = sent \cup {Handshake[step]} \/ sent' = sent \cup {Leaves("ready")}
      BY <1>14, Zenon DEF SendHandshake
    <2>3. sent' \subseteq {"server_info", "auth_challenge", "auth_confirm", "ready", "command", "plain"}
      BY <1>14, <2>1, <2>2, LeavesKinds
    <2>4. at' \in [Threads -> NetPlaces \cup DrainPlaces \cup ResetPlaces \cup UiPlaces]
      BY <1>14 DEF SendHandshake, Goto, HandshakeSteps, NetPlaces, DrainPlaces, UiPlaces
    <2> QED BY <1>14, <2>1, <2>2, <2>3, <2>4 DEF SendHandshake
  <1>15. ASSUME NEW proof \in BOOLEAN, HandleAuthResponse(proof) PROVE TypeOK'
    BY <1>15 DEF HandleAuthResponse, Moves, Goto, NetPlaces, HandshakeSteps
  <1>16. ASSUME InstallProtector PROVE TypeOK'
    BY <1>16 DEF InstallProtector, Goto, NetPlaces
  <1>17. ASSUME GrantTrust PROVE TypeOK'
    BY <1>17 DEF GrantTrust, Goto, Touch, NetPlaces, HandshakeSteps, States
  <1>18. ASSUME InvalidVideo PROVE TypeOK'
    BY <1>18 DEF InvalidVideo, ResetQueue, Goto, NetPlaces
  <1>19. ASSUME NEW ok \in SendResults, AskKeyframe(ok) PROVE TypeOK'
    BY <1>19, SentKinds DEF AskKeyframe, Goto, NetPlaces
  <1>20. ASSUME AwaitKeyframe PROVE TypeOK'
    BY <1>20 DEF AwaitKeyframe, Moves, Goto, NetPlaces
  <1>21. ASSUME NEW big \in BOOLEAN, Enqueue(big) PROVE TypeOK'
    <2>1. waiting' \in BOOLEAN /\ received' \in BOOLEAN
      BY <1>21, Zenon DEF Enqueue, Overflow, ResetQueue
    <2>2. [unit["net"] EXCEPT !.token = nextToken] \in Units
      BY <1>21, TokenType
    <2>3. queue' = <<>> \/ queue' = Append(queue, [unit["net"] EXCEPT !.token = nextToken])
      BY <1>21, Zenon DEF Enqueue, Overflow, ResetQueue
    <2>4. queue' \in Seq(Units)
      BY <1>21, <2>2, <2>3, AppendType
    <2> QED BY <1>21, <2>1, <2>2, <2>3, <2>4 DEF Enqueue, Overflow, ResetQueue, Goto, Touch, NetPlaces, DrainPlaces
  <1>22. ASSUME ReceiveEnds PROVE TypeOK'
    BY <1>22 DEF ReceiveEnds, Moves, Goto, NetPlaces
  <1>23. ASSUME RejectFrame PROVE TypeOK'
    BY <1>23 DEF RejectFrame, Moves, Goto, NetPlaces
  <1>24. ASSUME IgnoreFrame PROVE TypeOK'
    BY <1>24 DEF IgnoreFrame, Moves, Goto, NetPlaces
  <1>25. ASSUME NEW type \in Types, HandleControl(type) PROVE TypeOK'
    BY <1>25 DEF HandleControl, Types, Moves, Goto, Refused, Ignored, NetPlaces
  <1>26. ASSUME NEW key \in BOOLEAN, NEW wellFormed \in BOOLEAN, HandleVideo(key, wellFormed) PROVE TypeOK'
    <2>1. unit' \in [Threads -> Units]
      BY <1>26 DEF HandleVideo, Units
    <2> QED BY <1>26, <2>1 DEF HandleVideo, Goto, NetPlaces
  <1>27. ASSUME NEW t \in Threads, BeginDrain(t) PROVE TypeOK'
    BY <1>27 DEF BeginDrain, Goto, Home, NetPlaces, UiPlaces, DrainPlaces
  <1>28. ASSUME NEW t \in Threads, TakeFront(t) PROVE TypeOK'
    <2>1. draining' \in BOOLEAN
      BY <1>28, Zenon DEF TakeFront
    <2>2. unit' \in [Threads -> Units]
      BY <1>28 DEF TakeFront
    <2>3. target' \in [Threads -> Consumers \cup {NoConsumer}]
      BY <1>28 DEF TakeFront
    <2> QED BY <1>28, <2>1, <2>2, <2>3 DEF TakeFront, Goto, Home, NetPlaces, UiPlaces, DrainPlaces
  <1>29. ASSUME NEW t \in Threads, BeginConsume(t) PROVE TypeOK'
    BY <1>29 DEF BeginConsume, Goto, DrainPlaces
  <1>30. ASSUME NEW t \in Threads, NEW consumed \in BOOLEAN, EndConsume(t, consumed) PROVE TypeOK'
    <2>1. consumerMutex' \in Threads \cup {"free"}
      BY <1>30 DEF EndConsume
    <2>2. at' \in [Threads -> NetPlaces \cup DrainPlaces \cup ResetPlaces \cup UiPlaces]
      BY <1>30 DEF EndConsume, Goto, DrainPlaces
    <2>3. unit[t].pts \in Nat
      BY <1>30 DEF Units
    <2>4. fed' \in [Consumers -> Feeds]
      BY <1>30, <2>3, FedType DEF EndConsume
    <2>5. UNCHANGED <<sessionVars, outerVars, localVars, consumer>>
      BY <1>30 DEF EndConsume
    <2> QED BY <2>1, <2>2, <2>4, <2>5
  <1>31. ASSUME NEW t \in Threads, StopDrain(t) PROVE TypeOK'
    <2>1. draining' \in BOOLEAN
      BY <1>31, Zenon DEF StopDrain
    <2> QED BY <1>31, <2>1 DEF StopDrain, Goto, Home, NetPlaces, UiPlaces
  <1>32. ASSUME NEW t \in Threads, PopConsumed(t) PROVE TypeOK'
    BY <1>32 DEF PopConsumed, Goto, DrainPlaces
  <1>33. ASSUME NEW t \in Threads, ResetConsumer(t) PROVE TypeOK'
    <2>1. [conn |-> unit[t].conn, gen |-> unit[t].gen, pts |-> 0] \in Feeds
      BY <1>33 DEF Units, Feeds
    <2> QED BY <1>33, <2>1 DEF ResetConsumer, Goto, ResetPlaces
  <1>34. ASSUME NEW t \in Threads, ResetDone(t) PROVE TypeOK'
    <2>1. resetting' \in BOOLEAN
      BY <1>34, Zenon DEF ResetDone
    <2> QED BY <1>34, <2>1 DEF ResetDone, Goto, NetPlaces, UiPlaces, DrainPlaces, HandshakeSteps
  <1>35. ASSUME SendCommand PROVE TypeOK'
    BY <1>35, SentKinds DEF SendCommand
  <1>36. ASSUME NEW ok \in SendResults, SendFormat(ok) PROVE TypeOK'
    BY <1>36, SentKinds DEF SendFormat, ResetQueue, Touch
  <1>37. ASSUME NEW c \in SwapConsumers, SetConsumer(c) PROVE TypeOK'
    <2>1. resetting' \in BOOLEAN
      BY <1>37, Zenon DEF SetConsumer
    <2>2. unit' \in [Threads -> Units]
      BY <1>37, CarryingType DEF SetConsumer
    <2>3. consumer' \in Consumers \cup {NoConsumer}
      BY <1>37, ConsumersAssumption DEF SetConsumer
    <2>4. at' \in [Threads -> NetPlaces \cup DrainPlaces \cup ResetPlaces \cup UiPlaces]
      BY <1>37 DEF SetConsumer, Goto, DrainPlaces, ResetPlaces
    <2> QED BY <1>37, <2>1, <2>2, <2>3, <2>4 DEF SetConsumer
  <1>38. ASSUME NEW s \in Stamps, Elapse(s) PROVE TypeOK'
    BY <1>38 DEF Elapse, Watched
  <1>39. ASSUME WatchdogLoop PROVE TypeOK'
    BY <1>39 DEF WatchdogLoop
  <1>40. ASSUME WatchdogCheck PROVE TypeOK'
    BY <1>40 DEF WatchdogCheck, States
  <1>41. ASSUME WatchdogClose PROVE TypeOK'
    BY <1>41 DEF WatchdogClose
  <1>42. ASSUME UNCHANGED vars PROVE TypeOK'
    BY <1>42 DEF vars
  <1> QED
    BY <1>1, <1>2, <1>3, <1>4, <1>4b, <1>5, <1>6, <1>7, <1>8, <1>9, <1>10, <1>11, <1>12, <1>13, <1>14, <1>15, <1>16, <1>17, <1>18, <1>19, <1>20, <1>21, <1>22, <1>23, <1>24, <1>25, <1>26, <1>27, <1>28, <1>29, <1>30, <1>31, <1>32, <1>33, <1>34, <1>35, <1>36, <1>37, <1>38, <1>39, <1>40, <1>41, <1>42
    DEF Next, NetHandler, Receive, Delivery, Owner, Watchdog

(* Every variable keeps its type: in particular the queue holds only access  *)
(* units and each thread is always at a place of the code it can be at.      *)
THEOREM TypeCorrect == Spec => []TypeOK
  <1>1. Init => TypeOK
    BY InitType
  <1>2. TypeOK /\ [Next]_vars => TypeOK'
    BY NextType
  <1> QED BY <1>1, <1>2, PTL DEF Spec

-----------------------------------------------------------------------------
(* The Connection object.  The watchdog is off while no connection is in    *)
(* scope, and the pointer it captured is the one being served.              *)
ScopeInv ==
    /\ at["net"] = "none" <=> live = 0
    /\ connectionPtr = live
    /\ at["net"] \in {"none", "clearing"} => wd = "off"
    /\ wd = "expired" => wdTarget = live

(* What every step other than those of OnConnected, DropProtector,          *)
(* OnDisconnected and the watchdog leaves alone.                                                    *)
OutsideScope ==
    /\ UNCHANGED <<live, connectionPtr, wd, wdTarget>>
    /\ at'["net"] = "none" <=> at["net"] = "none"
    /\ at'["net"] = "clearing" <=> at["net"] = "clearing"

LEMMA NextScope == TypeOK /\ ScopeInv /\ [Next]_vars => ScopeInv'
  <1> SUFFICES ASSUME TypeOK, ScopeInv, [Next]_vars PROVE ScopeInv'
    OBVIOUS
  <1>a. /\ at \in [Threads -> NetPlaces \cup DrainPlaces \cup ResetPlaces \cup UiPlaces]
        /\ then \in [Threads -> {"check", "idle", "askOrFail", "sendChallenge",
                                 "sendReady", "drain"}]
        /\ connections \in Nat
    BY DEF TypeOK
  <1>b. ASSUME OutsideScope PROVE ScopeInv'
    BY <1>b DEF OutsideScope, ScopeInv
  <1> USE DEF Threads, sessionVars, trustVars, queueVars, formatVars,
              flagVars, consVars, connVars, wdVars, outerVars, localVars
  <1>1. ASSUME NEW configValid \in BOOLEAN, OnConnected(configValid) PROVE ScopeInv'
    BY <1>1, <1>a DEF OnConnected, Goto, ScopeInv
  <1>2. ASSUME OnDisconnected PROVE ScopeInv'
    BY <1>2, <1>a DEF OnDisconnected, Goto, ScopeInv
  <1>2b. ASSUME DropProtector PROVE ScopeInv'
    BY <1>2b, <1>a DEF ScopeInv, DropProtector, JoinWatchdog, Goto
  <1>3. ASSUME WatchdogLoop PROVE ScopeInv'
    BY <1>3 DEF WatchdogLoop, ScopeInv
  <1>4. ASSUME WatchdogCheck PROVE ScopeInv'
    BY <1>4 DEF WatchdogCheck, ScopeInv
  <1>5. ASSUME WatchdogClose PROVE ScopeInv'
    BY <1>5 DEF WatchdogClose, ScopeInv
  <1>6. ASSUME CheckValid PROVE OutsideScope
    BY <1>6, <1>a DEF OutsideScope, CheckValid, Goto
  <1>7. ASSUME RequestStop PROVE OutsideScope
    BY <1>7, <1>a DEF OutsideScope, RequestStop, Goto
  <1>8. ASSUME ProtocolFailure PROVE OutsideScope
    BY <1>8, <1>a DEF OutsideScope, ProtocolFailure, Goto
  <1>9. ASSUME CloseConnection PROVE OutsideScope
    BY <1>9, <1>a DEF OutsideScope, CloseConnection, Goto
  <1>10. ASSUME Telemetry PROVE OutsideScope
    BY <1>10, <1>a DEF OutsideScope, Telemetry, Goto
  <1>11. ASSUME StreamStart PROVE OutsideScope
    BY <1>11, <1>a DEF OutsideScope, StreamStart, Goto
  <1>12. ASSUME NEW g \in 1..MaxGeneration, FormatAck(g) PROVE OutsideScope
    BY <1>12, <1>a DEF OutsideScope, FormatAck, Answers, Goto
  <1>13. ASSUME NEW g \in 1..MaxGeneration, FormatReject(g) PROVE OutsideScope
    BY <1>13, <1>a DEF OutsideScope, FormatReject, Answers, Goto
  <1>14. ASSUME NEW ok \in SendResults, AskOrFail(ok) PROVE OutsideScope
    BY <1>14, <1>a DEF OutsideScope, AskOrFail, Goto
  <1>15. ASSUME NEW trusts \in BOOLEAN, NEW challenge \in BOOLEAN, HandleHello(trusts, challenge) PROVE OutsideScope
    BY <1>15, <1>a DEF OutsideScope, HandleHello, Goto
  <1>16. ASSUME HelloRefused PROVE OutsideScope
    BY <1>16, <1>a DEF OutsideScope, HelloRefused, Goto, Moves
  <1>17. ASSUME NEW step \in HandshakeSteps, NEW ok \in SendResults, SendHandshake(step, ok) PROVE OutsideScope
    BY <1>17, <1>a DEF OutsideScope, SendHandshake, Goto, HandshakeSteps
  <1>18. ASSUME NEW proof \in BOOLEAN, HandleAuthResponse(proof) PROVE OutsideScope
    BY <1>18, <1>a DEF OutsideScope, HandleAuthResponse, Goto, Moves
  <1>19. ASSUME InstallProtector PROVE OutsideScope
    BY <1>19, <1>a DEF OutsideScope, InstallProtector, Goto
  <1>20. ASSUME GrantTrust PROVE OutsideScope
    BY <1>20, <1>a DEF OutsideScope, GrantTrust, Goto
  <1>21. ASSUME InvalidVideo PROVE OutsideScope
    BY <1>21, <1>a DEF OutsideScope, InvalidVideo, Goto
  <1>22. ASSUME NEW ok \in SendResults, AskKeyframe(ok) PROVE OutsideScope
    BY <1>22, <1>a DEF OutsideScope, AskKeyframe, Goto
  <1>23. ASSUME AwaitKeyframe PROVE OutsideScope
    BY <1>23, <1>a DEF OutsideScope, AwaitKeyframe, Goto, Moves
  <1>24. ASSUME NEW big \in BOOLEAN, Enqueue(big) PROVE OutsideScope
    BY <1>24, <1>a DEF OutsideScope, Enqueue, Overflow, Goto
  <1>25. ASSUME ReceiveEnds PROVE OutsideScope
    BY <1>25, <1>a DEF OutsideScope, ReceiveEnds, Goto, Moves
  <1>26. ASSUME RejectFrame PROVE OutsideScope
    BY <1>26, <1>a DEF OutsideScope, RejectFrame, Goto, Moves
  <1>27. ASSUME IgnoreFrame PROVE OutsideScope
    BY <1>27, <1>a DEF OutsideScope, IgnoreFrame, Goto, Moves
  <1>28. ASSUME NEW type \in Types, HandleControl(type) PROVE OutsideScope
    BY <1>28, <1>a DEF OutsideScope, HandleControl, Goto, Moves, Types
  <1>29. ASSUME NEW key \in BOOLEAN, NEW wellFormed \in BOOLEAN, HandleVideo(key, wellFormed) PROVE OutsideScope
    BY <1>29, <1>a DEF OutsideScope, HandleVideo, Goto
  <1>30. ASSUME NEW t \in Threads, BeginDrain(t) PROVE OutsideScope
    BY <1>30, <1>a DEF OutsideScope, BeginDrain, Goto, Home
  <1>31. ASSUME NEW t \in Threads, TakeFront(t) PROVE OutsideScope
    BY <1>31, <1>a DEF OutsideScope, TakeFront, Goto, Home
  <1>32. ASSUME NEW t \in Threads, BeginConsume(t) PROVE OutsideScope
    BY <1>32, <1>a DEF OutsideScope, BeginConsume, Goto
  <1>33. ASSUME NEW t \in Threads, NEW consumed \in BOOLEAN, EndConsume(t, consumed) PROVE OutsideScope
    BY <1>33, <1>a DEF OutsideScope, EndConsume, Goto
  <1>34. ASSUME NEW t \in Threads, StopDrain(t) PROVE OutsideScope
    BY <1>34, <1>a DEF OutsideScope, StopDrain, Goto, Home
  <1>35. ASSUME NEW t \in Threads, PopConsumed(t) PROVE OutsideScope
    BY <1>35, <1>a DEF OutsideScope, PopConsumed, Goto
  <1>36. ASSUME NEW t \in Threads, ResetConsumer(t) PROVE OutsideScope
    BY <1>36, <1>a DEF OutsideScope, ResetConsumer, Goto
  <1>37. ASSUME NEW t \in Threads, ResetDone(t) PROVE OutsideScope
    BY <1>37, <1>a DEF OutsideScope, ResetDone, Goto
  <1>38. ASSUME SendCommand PROVE OutsideScope
    BY <1>38, <1>a DEF OutsideScope, SendCommand, Goto
  <1>39. ASSUME NEW ok \in SendResults, SendFormat(ok) PROVE OutsideScope
    BY <1>39, <1>a DEF OutsideScope, SendFormat, Goto
  <1>40. ASSUME NEW c \in SwapConsumers, SetConsumer(c) PROVE OutsideScope
    BY <1>40, <1>a DEF OutsideScope, SetConsumer, Goto
  <1>41. ASSUME NEW s \in Stamps, Elapse(s) PROVE OutsideScope
    BY <1>41, <1>a DEF OutsideScope, Elapse, Goto
  <1>42. ASSUME UNCHANGED vars PROVE OutsideScope
    BY <1>42, <1>a DEF OutsideScope, Goto, vars
  <1> QED
    BY <1>b, <1>1, <1>2, <1>2b, <1>3, <1>4, <1>5, <1>6, <1>7, <1>8, <1>9, <1>10, <1>11,
       <1>12, <1>13, <1>14, <1>15, <1>16, <1>17, <1>18, <1>19, <1>20, <1>21,
       <1>22, <1>23, <1>24, <1>25, <1>26, <1>27, <1>28, <1>29, <1>30, <1>31,
       <1>32, <1>33, <1>34, <1>35, <1>36, <1>37, <1>38, <1>39, <1>40, <1>41,
       <1>42
    DEF Next, NetHandler, Receive, Delivery, Owner, Watchdog

-----------------------------------------------------------------------------
(* Trust and the generations.  Where the connection thread is decides what   *)
(* trust it has seen: the handshake's places are reached only before trust   *)
(* is granted, the media and format places only after.                       *)
BeforeTrust == {"none", "hello", "auth_response", "sendConfirm", "install", "trust"}
AfterTrust == {"stream_start", "format_ack", "format_reject", "askOrFail", "enqueue",
               "invalid", "ask", "reset", "resetDone"}

TrustInv ==
    /\ state \in {"AwaitingHello", "AwaitingTrust"} => ~trusted
    /\ at["net"] \in BeforeTrust => ~trusted
    /\ at["net"] \in AfterTrust => trusted
    /\ at["net"] = "sendInfo" => then["net"] # "askOrFail"
    /\ queue # <<>> => trusted
    /\ pending # 0 => trusted

(* With session security, the session and each place that sends READY are    *)
(* reached only with the protector installed, and it goes only for           *)
(* onDisconnected to clear the session.                                      *)
ProtectorInv ==
    /\ UsesSecurity =>
        /\ trusted => protector \/ at["net"] = "clearing"
        /\ at["net"] \in {"trust", "sendReady"} => protector
        /\ at["net"] = "sendInfo" => then["net"] # "sendReady"
        /\ at["net"] \in {"reset", "resetDone"} => then["net"] # "sendReady"
    /\ "plain" \in sent => at["net"] = "clearing"

QueueInv == queue # <<>> => ~waiting /\ Len(queue) <= QueueLimit

LEMMA NextTrust == TypeOK /\ TrustInv /\ [Next]_vars => TrustInv'
  <1> SUFFICES ASSUME TypeOK, TrustInv, [Next]_vars PROVE TrustInv'
    OBVIOUS
  <1>a. /\ at \in [Threads -> NetPlaces \cup DrainPlaces \cup ResetPlaces \cup UiPlaces]
        /\ then \in [Threads -> {"check", "idle", "askOrFail", "sendChallenge",
                                 "sendReady", "drain"}]
        /\ pending \in Nat /\ streamGen \in Nat /\ nextGen \in Nat
        /\ queue \in Seq(Units) /\ unit \in [Threads -> Units]
    BY DEF TypeOK
  <1> USE DEF Threads, sessionVars, trustVars, queueVars, formatVars,
              flagVars, consVars, connVars, wdVars, outerVars, localVars
  <1>1. ASSUME NEW configValid \in BOOLEAN, OnConnected(configValid) PROVE TrustInv'
    BY <1>1, <1>a DEF TrustInv, BeforeTrust, AfterTrust, OnConnected, Goto, ResetQueue
  <1>2. ASSUME OnDisconnected PROVE TrustInv'
    BY <1>2, <1>a DEF TrustInv, BeforeTrust, AfterTrust, OnDisconnected, Goto, ResetQueue
  <1>2b. ASSUME DropProtector PROVE TrustInv'
    BY <1>2b, <1>a DEF TrustInv, BeforeTrust, AfterTrust, DropProtector, JoinWatchdog, Goto
  <1>3. ASSUME WatchdogLoop PROVE TrustInv'
    BY <1>3, <1>a DEF TrustInv, BeforeTrust, AfterTrust, WatchdogLoop, Goto
  <1>4. ASSUME WatchdogCheck PROVE TrustInv'
    BY <1>4, <1>a DEF TrustInv, BeforeTrust, AfterTrust, WatchdogCheck, Goto
  <1>5. ASSUME WatchdogClose PROVE TrustInv'
    BY <1>5, <1>a DEF TrustInv, BeforeTrust, AfterTrust, WatchdogClose, Goto
  <1>6. ASSUME CheckValid PROVE TrustInv'
    BY <1>6, <1>a DEF TrustInv, BeforeTrust, AfterTrust, CheckValid, Goto
  <1>7. ASSUME RequestStop PROVE TrustInv'
    BY <1>7, <1>a DEF TrustInv, BeforeTrust, AfterTrust, RequestStop, Goto
  <1>8. ASSUME ProtocolFailure PROVE TrustInv'
    BY <1>8, <1>a DEF TrustInv, BeforeTrust, AfterTrust, ProtocolFailure, Goto
  <1>9. ASSUME CloseConnection PROVE TrustInv'
    BY <1>9, <1>a DEF TrustInv, BeforeTrust, AfterTrust, CloseConnection, Goto
  <1>10. ASSUME Telemetry PROVE TrustInv'
    BY <1>10, <1>a DEF TrustInv, BeforeTrust, AfterTrust, Telemetry, Goto
  <1>11. ASSUME StreamStart PROVE TrustInv'
    BY <1>11, <1>a DEF TrustInv, BeforeTrust, AfterTrust, StreamStart, Goto
  <1>12. ASSUME NEW g \in 1..MaxGeneration, FormatAck(g) PROVE TrustInv'
    BY <1>12, <1>a DEF TrustInv, BeforeTrust, AfterTrust, FormatAck, Answers, Goto, ResetQueue
  <1>13. ASSUME NEW g \in 1..MaxGeneration, FormatReject(g) PROVE TrustInv'
    BY <1>13, <1>a DEF TrustInv, BeforeTrust, AfterTrust, FormatReject, Answers, Goto, ResetQueue
  <1>14. ASSUME NEW ok \in SendResults, AskOrFail(ok) PROVE TrustInv'
    BY <1>14, <1>a DEF TrustInv, BeforeTrust, AfterTrust, AskOrFail, Goto
  <1>15. ASSUME NEW trusts \in BOOLEAN, NEW challenge \in BOOLEAN, HandleHello(trusts, challenge) PROVE TrustInv'
    BY <1>15, <1>a DEF TrustInv, BeforeTrust, AfterTrust, HandleHello, Goto
  <1>16. ASSUME HelloRefused PROVE TrustInv'
    BY <1>16, <1>a DEF TrustInv, BeforeTrust, AfterTrust, HelloRefused, Goto, Moves
  <1>17. ASSUME NEW step \in HandshakeSteps, NEW ok \in SendResults, SendHandshake(step, ok) PROVE TrustInv'
    BY <1>17, <1>a DEF TrustInv, BeforeTrust, AfterTrust, SendHandshake, Goto, HandshakeSteps, Handshake
  <1>18. ASSUME NEW proof \in BOOLEAN, HandleAuthResponse(proof) PROVE TrustInv'
    BY <1>18, <1>a DEF TrustInv, BeforeTrust, AfterTrust, HandleAuthResponse, Goto, Moves
  <1>19. ASSUME InstallProtector PROVE TrustInv'
    BY <1>19, <1>a DEF TrustInv, BeforeTrust, AfterTrust, InstallProtector, Goto
  <1>20. ASSUME GrantTrust PROVE TrustInv'
    BY <1>20, <1>a DEF TrustInv, BeforeTrust, AfterTrust, GrantTrust, Goto
  <1>21. ASSUME InvalidVideo PROVE TrustInv'
    BY <1>21, <1>a DEF TrustInv, BeforeTrust, AfterTrust, InvalidVideo, Goto, ResetQueue
  <1>22. ASSUME NEW ok \in SendResults, AskKeyframe(ok) PROVE TrustInv'
    BY <1>22, <1>a DEF TrustInv, BeforeTrust, AfterTrust, AskKeyframe, Goto
  <1>23. ASSUME AwaitKeyframe PROVE TrustInv'
    BY <1>23, <1>a DEF TrustInv, BeforeTrust, AfterTrust, AwaitKeyframe, Goto, Moves
  <1>24. ASSUME NEW big \in BOOLEAN, Enqueue(big) PROVE TrustInv'
    BY <1>24, <1>a DEF TrustInv, BeforeTrust, AfterTrust, Enqueue, Overflow, Goto, ResetQueue
  <1>25. ASSUME ReceiveEnds PROVE TrustInv'
    BY <1>25, <1>a DEF TrustInv, BeforeTrust, AfterTrust, ReceiveEnds, Goto, Moves
  <1>26. ASSUME RejectFrame PROVE TrustInv'
    BY <1>26, <1>a DEF TrustInv, BeforeTrust, AfterTrust, RejectFrame, Goto, Moves
  <1>27. ASSUME IgnoreFrame PROVE TrustInv'
    BY <1>27, <1>a DEF TrustInv, BeforeTrust, AfterTrust, IgnoreFrame, Goto, Moves
  <1>28. ASSUME NEW type \in Types, HandleControl(type) PROVE TrustInv'
    BY <1>28, <1>a DEF TrustInv, BeforeTrust, AfterTrust, HandleControl, Goto, Moves, Types, Refused, Ignored
  <1>29. ASSUME NEW key \in BOOLEAN, NEW wellFormed \in BOOLEAN, HandleVideo(key, wellFormed) PROVE TrustInv'
    BY <1>29, <1>a DEF TrustInv, BeforeTrust, AfterTrust, HandleVideo, Goto, Gated
  <1>30. ASSUME NEW t \in Threads, BeginDrain(t) PROVE TrustInv'
    BY <1>30, <1>a DEF TrustInv, BeforeTrust, AfterTrust, BeginDrain, Goto, Home
  <1>31. ASSUME NEW t \in Threads, TakeFront(t) PROVE TrustInv'
    BY <1>31, <1>a DEF TrustInv, BeforeTrust, AfterTrust, TakeFront, Goto, Home
  <1>32. ASSUME NEW t \in Threads, BeginConsume(t) PROVE TrustInv'
    BY <1>32, <1>a DEF TrustInv, BeforeTrust, AfterTrust, BeginConsume, Goto
  <1>33. ASSUME NEW t \in Threads, NEW consumed \in BOOLEAN, EndConsume(t, consumed) PROVE TrustInv'
    BY <1>33, <1>a DEF TrustInv, BeforeTrust, AfterTrust, EndConsume, Goto
  <1>34. ASSUME NEW t \in Threads, StopDrain(t) PROVE TrustInv'
    BY <1>34, <1>a DEF TrustInv, BeforeTrust, AfterTrust, StopDrain, Goto, Home
  <1>35. ASSUME NEW t \in Threads, PopConsumed(t) PROVE TrustInv'
    BY <1>35, <1>a DEF TrustInv, BeforeTrust, AfterTrust, PopConsumed, Goto
  <1>36. ASSUME NEW t \in Threads, ResetConsumer(t) PROVE TrustInv'
    BY <1>36, <1>a DEF TrustInv, BeforeTrust, AfterTrust, ResetConsumer, Goto
  <1>37. ASSUME NEW t \in Threads, ResetDone(t) PROVE TrustInv'
    BY <1>37, <1>a DEF TrustInv, BeforeTrust, AfterTrust, ResetDone, Goto
  <1>38. ASSUME SendCommand PROVE TrustInv'
    BY <1>38, <1>a DEF TrustInv, BeforeTrust, AfterTrust, SendCommand, Goto, MaySend
  <1>39. ASSUME NEW ok \in SendResults, SendFormat(ok) PROVE TrustInv'
    BY <1>39, <1>a DEF TrustInv, BeforeTrust, AfterTrust, SendFormat, Goto, ResetQueue, MaySend
  <1>40. ASSUME NEW c \in SwapConsumers, SetConsumer(c) PROVE TrustInv'
    BY <1>40, <1>a DEF TrustInv, BeforeTrust, AfterTrust, SetConsumer, Goto
  <1>41. ASSUME NEW s \in Stamps, Elapse(s) PROVE TrustInv'
    BY <1>41, <1>a DEF TrustInv, BeforeTrust, AfterTrust, Elapse, Goto
  <1>42. ASSUME UNCHANGED vars PROVE TrustInv'
    BY <1>42, <1>a DEF TrustInv, BeforeTrust, AfterTrust, Goto, vars
  <1> QED
    BY <1>1, <1>2, <1>2b, <1>3, <1>4, <1>5, <1>6, <1>7, <1>8, <1>9, <1>10, <1>11,
       <1>12, <1>13, <1>14, <1>15, <1>16, <1>17, <1>18, <1>19, <1>20, <1>21,
       <1>22, <1>23, <1>24, <1>25, <1>26, <1>27, <1>28, <1>29, <1>30, <1>31,
       <1>32, <1>33, <1>34, <1>35, <1>36, <1>37, <1>38, <1>39, <1>40, <1>41,
       <1>42
    DEF Next, NetHandler, Receive, Delivery, Owner, Watchdog

LEMMA NextProtector == TypeOK /\ TrustInv /\ ProtectorInv /\ [Next]_vars => ProtectorInv'
  <1> SUFFICES ASSUME TypeOK, TrustInv, ProtectorInv, [Next]_vars PROVE ProtectorInv'
    OBVIOUS
  <1>a. /\ at \in [Threads -> NetPlaces \cup DrainPlaces \cup ResetPlaces \cup UiPlaces]
        /\ then \in [Threads -> {"check", "idle", "askOrFail", "sendChallenge",
                                 "sendReady", "drain"}]
        /\ pending \in Nat /\ streamGen \in Nat /\ nextGen \in Nat
        /\ queue \in Seq(Units) /\ unit \in [Threads -> Units]
    BY DEF TypeOK
  <1> USE DEF Threads, sessionVars, trustVars, queueVars, formatVars,
              flagVars, consVars, connVars, wdVars, outerVars, localVars
  <1>1. ASSUME NEW configValid \in BOOLEAN, OnConnected(configValid) PROVE ProtectorInv'
    BY <1>1, <1>a DEF TrustInv, BeforeTrust, AfterTrust, ProtectorInv, OnConnected, Goto, ResetQueue
  <1>2. ASSUME OnDisconnected PROVE ProtectorInv'
    BY <1>2, <1>a DEF TrustInv, BeforeTrust, AfterTrust, ProtectorInv, OnDisconnected, Goto, ResetQueue
  <1>2b. ASSUME DropProtector PROVE ProtectorInv'
    BY <1>2b, <1>a DEF TrustInv, BeforeTrust, AfterTrust, ProtectorInv, DropProtector, JoinWatchdog, Goto
  <1>3. ASSUME WatchdogLoop PROVE ProtectorInv'
    BY <1>3, <1>a DEF TrustInv, BeforeTrust, AfterTrust, ProtectorInv, WatchdogLoop, Goto
  <1>4. ASSUME WatchdogCheck PROVE ProtectorInv'
    BY <1>4, <1>a DEF TrustInv, BeforeTrust, AfterTrust, ProtectorInv, WatchdogCheck, Goto
  <1>5. ASSUME WatchdogClose PROVE ProtectorInv'
    BY <1>5, <1>a DEF TrustInv, BeforeTrust, AfterTrust, ProtectorInv, WatchdogClose, Goto
  <1>6. ASSUME CheckValid PROVE ProtectorInv'
    BY <1>6, <1>a DEF TrustInv, BeforeTrust, AfterTrust, ProtectorInv, CheckValid, Goto
  <1>7. ASSUME RequestStop PROVE ProtectorInv'
    BY <1>7, <1>a DEF TrustInv, BeforeTrust, AfterTrust, ProtectorInv, RequestStop, Goto
  <1>8. ASSUME ProtocolFailure PROVE ProtectorInv'
    BY <1>8, <1>a DEF TrustInv, BeforeTrust, AfterTrust, ProtectorInv, ProtocolFailure, Goto
  <1>9. ASSUME CloseConnection PROVE ProtectorInv'
    BY <1>9, <1>a DEF TrustInv, BeforeTrust, AfterTrust, ProtectorInv, CloseConnection, Goto
  <1>10. ASSUME Telemetry PROVE ProtectorInv'
    BY <1>10, <1>a DEF TrustInv, BeforeTrust, AfterTrust, ProtectorInv, Telemetry, Goto
  <1>11. ASSUME StreamStart PROVE ProtectorInv'
    BY <1>11, <1>a DEF TrustInv, BeforeTrust, AfterTrust, ProtectorInv, StreamStart, Goto
  <1>12. ASSUME NEW g \in 1..MaxGeneration, FormatAck(g) PROVE ProtectorInv'
    BY <1>12, <1>a DEF TrustInv, BeforeTrust, AfterTrust, ProtectorInv, FormatAck, Answers, Goto, ResetQueue
  <1>13. ASSUME NEW g \in 1..MaxGeneration, FormatReject(g) PROVE ProtectorInv'
    BY <1>13, <1>a DEF TrustInv, BeforeTrust, AfterTrust, ProtectorInv, FormatReject, Answers, Goto, ResetQueue
  <1>14. ASSUME NEW ok \in SendResults, AskOrFail(ok) PROVE ProtectorInv'
    BY <1>14, <1>a DEF TrustInv, BeforeTrust, AfterTrust, ProtectorInv, AskOrFail, Goto, Leaves, MaySend
  <1>15. ASSUME NEW trusts \in BOOLEAN, NEW challenge \in BOOLEAN, HandleHello(trusts, challenge) PROVE ProtectorInv'
    BY <1>15, <1>a DEF TrustInv, BeforeTrust, AfterTrust, ProtectorInv, HandleHello, Goto
  <1>16. ASSUME HelloRefused PROVE ProtectorInv'
    BY <1>16, <1>a DEF TrustInv, BeforeTrust, AfterTrust, ProtectorInv, HelloRefused, Goto, Moves
  <1>17. ASSUME NEW step \in HandshakeSteps, NEW ok \in SendResults, SendHandshake(step, ok) PROVE ProtectorInv'
    BY <1>17, <1>a DEF TrustInv, BeforeTrust, AfterTrust, ProtectorInv, SendHandshake, Goto, HandshakeSteps, Handshake, Leaves
  <1>18. ASSUME NEW proof \in BOOLEAN, HandleAuthResponse(proof) PROVE ProtectorInv'
    BY <1>18, <1>a DEF TrustInv, BeforeTrust, AfterTrust, ProtectorInv, HandleAuthResponse, Goto, Moves
  <1>19. ASSUME InstallProtector PROVE ProtectorInv'
    BY <1>19, <1>a DEF TrustInv, BeforeTrust, AfterTrust, ProtectorInv, InstallProtector, Goto
  <1>20. ASSUME GrantTrust PROVE ProtectorInv'
    BY <1>20, <1>a DEF TrustInv, BeforeTrust, AfterTrust, ProtectorInv, GrantTrust, Goto
  <1>21. ASSUME InvalidVideo PROVE ProtectorInv'
    BY <1>21, <1>a DEF TrustInv, BeforeTrust, AfterTrust, ProtectorInv, InvalidVideo, Goto, ResetQueue
  <1>22. ASSUME NEW ok \in SendResults, AskKeyframe(ok) PROVE ProtectorInv'
    BY <1>22, <1>a DEF TrustInv, BeforeTrust, AfterTrust, ProtectorInv, AskKeyframe, Goto, Leaves, MaySend
  <1>23. ASSUME AwaitKeyframe PROVE ProtectorInv'
    BY <1>23, <1>a DEF TrustInv, BeforeTrust, AfterTrust, ProtectorInv, AwaitKeyframe, Goto, Moves
  <1>24. ASSUME NEW big \in BOOLEAN, Enqueue(big) PROVE ProtectorInv'
    BY <1>24, <1>a DEF TrustInv, BeforeTrust, AfterTrust, ProtectorInv, Enqueue, Overflow, Goto, ResetQueue
  <1>25. ASSUME ReceiveEnds PROVE ProtectorInv'
    BY <1>25, <1>a DEF TrustInv, BeforeTrust, AfterTrust, ProtectorInv, ReceiveEnds, Goto, Moves
  <1>26. ASSUME RejectFrame PROVE ProtectorInv'
    BY <1>26, <1>a DEF TrustInv, BeforeTrust, AfterTrust, ProtectorInv, RejectFrame, Goto, Moves
  <1>27. ASSUME IgnoreFrame PROVE ProtectorInv'
    BY <1>27, <1>a DEF TrustInv, BeforeTrust, AfterTrust, ProtectorInv, IgnoreFrame, Goto, Moves
  <1>28. ASSUME NEW type \in Types, HandleControl(type) PROVE ProtectorInv'
    BY <1>28, <1>a DEF TrustInv, BeforeTrust, AfterTrust, ProtectorInv, HandleControl, Goto, Moves, Types, Refused, Ignored
  <1>29. ASSUME NEW key \in BOOLEAN, NEW wellFormed \in BOOLEAN, HandleVideo(key, wellFormed) PROVE ProtectorInv'
    BY <1>29, <1>a DEF TrustInv, BeforeTrust, AfterTrust, ProtectorInv, HandleVideo, Goto, Gated
  <1>30. ASSUME NEW t \in Threads, BeginDrain(t) PROVE ProtectorInv'
    BY <1>30, <1>a DEF TrustInv, BeforeTrust, AfterTrust, ProtectorInv, BeginDrain, Goto, Home
  <1>31. ASSUME NEW t \in Threads, TakeFront(t) PROVE ProtectorInv'
    BY <1>31, <1>a DEF TrustInv, BeforeTrust, AfterTrust, ProtectorInv, TakeFront, Goto, Home
  <1>32. ASSUME NEW t \in Threads, BeginConsume(t) PROVE ProtectorInv'
    BY <1>32, <1>a DEF TrustInv, BeforeTrust, AfterTrust, ProtectorInv, BeginConsume, Goto
  <1>33. ASSUME NEW t \in Threads, NEW consumed \in BOOLEAN, EndConsume(t, consumed) PROVE ProtectorInv'
    BY <1>33, <1>a DEF TrustInv, BeforeTrust, AfterTrust, ProtectorInv, EndConsume, Goto
  <1>34. ASSUME NEW t \in Threads, StopDrain(t) PROVE ProtectorInv'
    BY <1>34, <1>a DEF TrustInv, BeforeTrust, AfterTrust, ProtectorInv, StopDrain, Goto, Home
  <1>35. ASSUME NEW t \in Threads, PopConsumed(t) PROVE ProtectorInv'
    BY <1>35, <1>a DEF TrustInv, BeforeTrust, AfterTrust, ProtectorInv, PopConsumed, Goto
  <1>36. ASSUME NEW t \in Threads, ResetConsumer(t) PROVE ProtectorInv'
    BY <1>36, <1>a DEF TrustInv, BeforeTrust, AfterTrust, ProtectorInv, ResetConsumer, Goto
  <1>37. ASSUME NEW t \in Threads, ResetDone(t) PROVE ProtectorInv'
    BY <1>37, <1>a DEF TrustInv, BeforeTrust, AfterTrust, ProtectorInv, ResetDone, Goto
  <1>38. ASSUME SendCommand PROVE ProtectorInv'
    BY <1>38, <1>a DEF TrustInv, BeforeTrust, AfterTrust, ProtectorInv, SendCommand, Goto, Leaves, MaySend
  <1>39. ASSUME NEW ok \in SendResults, SendFormat(ok) PROVE ProtectorInv'
    BY <1>39, <1>a DEF TrustInv, BeforeTrust, AfterTrust, ProtectorInv, SendFormat, Goto, ResetQueue, Leaves, MaySend
  <1>40. ASSUME NEW c \in SwapConsumers, SetConsumer(c) PROVE ProtectorInv'
    BY <1>40, <1>a DEF TrustInv, BeforeTrust, AfterTrust, ProtectorInv, SetConsumer, Goto
  <1>41. ASSUME NEW s \in Stamps, Elapse(s) PROVE ProtectorInv'
    BY <1>41, <1>a DEF TrustInv, BeforeTrust, AfterTrust, ProtectorInv, Elapse, Goto
  <1>42. ASSUME UNCHANGED vars PROVE ProtectorInv'
    BY <1>42, <1>a DEF TrustInv, BeforeTrust, AfterTrust, ProtectorInv, Goto, vars
  <1> QED
    BY <1>1, <1>2, <1>2b, <1>3, <1>4, <1>5, <1>6, <1>7, <1>8, <1>9, <1>10, <1>11,
       <1>12, <1>13, <1>14, <1>15, <1>16, <1>17, <1>18, <1>19, <1>20, <1>21,
       <1>22, <1>23, <1>24, <1>25, <1>26, <1>27, <1>28, <1>29, <1>30, <1>31,
       <1>32, <1>33, <1>34, <1>35, <1>36, <1>37, <1>38, <1>39, <1>40, <1>41,
       <1>42
    DEF Next, NetHandler, Receive, Delivery, Owner, Watchdog

LEMMA NextGenerations == TypeOK /\ TrustInv /\ GenerationOrder /\ [Next]_vars => GenerationOrder'
  <1> SUFFICES ASSUME TypeOK, TrustInv, GenerationOrder, [Next]_vars PROVE GenerationOrder'
    OBVIOUS
  <1>a. /\ at \in [Threads -> NetPlaces \cup DrainPlaces \cup ResetPlaces \cup UiPlaces]
        /\ then \in [Threads -> {"check", "idle", "askOrFail", "sendChallenge",
                                 "sendReady", "drain"}]
        /\ pending \in Nat /\ streamGen \in Nat /\ nextGen \in Nat
        /\ queue \in Seq(Units) /\ unit \in [Threads -> Units]
    BY DEF TypeOK
  <1> USE DEF Threads, sessionVars, trustVars, queueVars, formatVars,
              flagVars, consVars, connVars, wdVars, outerVars, localVars
  <1>1. ASSUME NEW configValid \in BOOLEAN, OnConnected(configValid) PROVE GenerationOrder'
    BY <1>1, <1>a DEF TrustInv, BeforeTrust, GenerationOrder, OnConnected, Goto, ResetQueue
  <1>2. ASSUME OnDisconnected PROVE GenerationOrder'
    BY <1>2, <1>a DEF TrustInv, BeforeTrust, GenerationOrder, OnDisconnected, Goto, ResetQueue
  <1>2b. ASSUME DropProtector PROVE GenerationOrder'
    BY <1>2b, <1>a DEF TrustInv, BeforeTrust, GenerationOrder, DropProtector, JoinWatchdog, Goto
  <1>3. ASSUME WatchdogLoop PROVE GenerationOrder'
    BY <1>3, <1>a DEF TrustInv, BeforeTrust, GenerationOrder, WatchdogLoop, Goto
  <1>4. ASSUME WatchdogCheck PROVE GenerationOrder'
    BY <1>4, <1>a DEF TrustInv, BeforeTrust, GenerationOrder, WatchdogCheck, Goto
  <1>5. ASSUME WatchdogClose PROVE GenerationOrder'
    BY <1>5, <1>a DEF TrustInv, BeforeTrust, GenerationOrder, WatchdogClose, Goto
  <1>6. ASSUME CheckValid PROVE GenerationOrder'
    BY <1>6, <1>a DEF TrustInv, BeforeTrust, GenerationOrder, CheckValid, Goto
  <1>7. ASSUME RequestStop PROVE GenerationOrder'
    BY <1>7, <1>a DEF TrustInv, BeforeTrust, GenerationOrder, RequestStop, Goto
  <1>8. ASSUME ProtocolFailure PROVE GenerationOrder'
    BY <1>8, <1>a DEF TrustInv, BeforeTrust, GenerationOrder, ProtocolFailure, Goto
  <1>9. ASSUME CloseConnection PROVE GenerationOrder'
    BY <1>9, <1>a DEF TrustInv, BeforeTrust, GenerationOrder, CloseConnection, Goto
  <1>10. ASSUME Telemetry PROVE GenerationOrder'
    BY <1>10, <1>a DEF TrustInv, BeforeTrust, GenerationOrder, Telemetry, Goto
  <1>11. ASSUME StreamStart PROVE GenerationOrder'
    BY <1>11, <1>a DEF TrustInv, BeforeTrust, GenerationOrder, StreamStart, Goto
  <1>12. ASSUME NEW g \in 1..MaxGeneration, FormatAck(g) PROVE GenerationOrder'
    BY <1>12, <1>a DEF TrustInv, BeforeTrust, GenerationOrder, FormatAck, Answers, Goto, ResetQueue
  <1>13. ASSUME NEW g \in 1..MaxGeneration, FormatReject(g) PROVE GenerationOrder'
    BY <1>13, <1>a DEF TrustInv, BeforeTrust, GenerationOrder, FormatReject, Answers, Goto, ResetQueue
  <1>14. ASSUME NEW ok \in SendResults, AskOrFail(ok) PROVE GenerationOrder'
    BY <1>14, <1>a DEF TrustInv, BeforeTrust, GenerationOrder, AskOrFail, Goto
  <1>15. ASSUME NEW trusts \in BOOLEAN, NEW challenge \in BOOLEAN, HandleHello(trusts, challenge) PROVE GenerationOrder'
    BY <1>15, <1>a DEF TrustInv, BeforeTrust, GenerationOrder, HandleHello, Goto
  <1>16. ASSUME HelloRefused PROVE GenerationOrder'
    BY <1>16, <1>a DEF TrustInv, BeforeTrust, GenerationOrder, HelloRefused, Goto, Moves
  <1>17. ASSUME NEW step \in HandshakeSteps, NEW ok \in SendResults, SendHandshake(step, ok) PROVE GenerationOrder'
    BY <1>17, <1>a DEF TrustInv, BeforeTrust, GenerationOrder, SendHandshake, Goto, HandshakeSteps, Handshake
  <1>18. ASSUME NEW proof \in BOOLEAN, HandleAuthResponse(proof) PROVE GenerationOrder'
    BY <1>18, <1>a DEF TrustInv, BeforeTrust, GenerationOrder, HandleAuthResponse, Goto, Moves
  <1>19. ASSUME InstallProtector PROVE GenerationOrder'
    BY <1>19, <1>a DEF TrustInv, BeforeTrust, GenerationOrder, InstallProtector, Goto
  <1>20. ASSUME GrantTrust PROVE GenerationOrder'
    BY <1>20, <1>a DEF TrustInv, BeforeTrust, GenerationOrder, GrantTrust, Goto
  <1>21. ASSUME InvalidVideo PROVE GenerationOrder'
    BY <1>21, <1>a DEF TrustInv, BeforeTrust, GenerationOrder, InvalidVideo, Goto, ResetQueue
  <1>22. ASSUME NEW ok \in SendResults, AskKeyframe(ok) PROVE GenerationOrder'
    BY <1>22, <1>a DEF TrustInv, BeforeTrust, GenerationOrder, AskKeyframe, Goto
  <1>23. ASSUME AwaitKeyframe PROVE GenerationOrder'
    BY <1>23, <1>a DEF TrustInv, BeforeTrust, GenerationOrder, AwaitKeyframe, Goto, Moves
  <1>24. ASSUME NEW big \in BOOLEAN, Enqueue(big) PROVE GenerationOrder'
    BY <1>24, <1>a DEF TrustInv, BeforeTrust, GenerationOrder, Enqueue, Overflow, Goto, ResetQueue
  <1>25. ASSUME ReceiveEnds PROVE GenerationOrder'
    BY <1>25, <1>a DEF TrustInv, BeforeTrust, GenerationOrder, ReceiveEnds, Goto, Moves
  <1>26. ASSUME RejectFrame PROVE GenerationOrder'
    BY <1>26, <1>a DEF TrustInv, BeforeTrust, GenerationOrder, RejectFrame, Goto, Moves
  <1>27. ASSUME IgnoreFrame PROVE GenerationOrder'
    BY <1>27, <1>a DEF TrustInv, BeforeTrust, GenerationOrder, IgnoreFrame, Goto, Moves
  <1>28. ASSUME NEW type \in Types, HandleControl(type) PROVE GenerationOrder'
    BY <1>28, <1>a DEF TrustInv, BeforeTrust, GenerationOrder, HandleControl, Goto, Moves, Types, Refused, Ignored
  <1>29. ASSUME NEW key \in BOOLEAN, NEW wellFormed \in BOOLEAN, HandleVideo(key, wellFormed) PROVE GenerationOrder'
    BY <1>29, <1>a DEF TrustInv, BeforeTrust, GenerationOrder, HandleVideo, Goto, Gated
  <1>30. ASSUME NEW t \in Threads, BeginDrain(t) PROVE GenerationOrder'
    BY <1>30, <1>a DEF TrustInv, BeforeTrust, GenerationOrder, BeginDrain, Goto, Home
  <1>31. ASSUME NEW t \in Threads, TakeFront(t) PROVE GenerationOrder'
    BY <1>31, <1>a DEF TrustInv, BeforeTrust, GenerationOrder, TakeFront, Goto, Home
  <1>32. ASSUME NEW t \in Threads, BeginConsume(t) PROVE GenerationOrder'
    BY <1>32, <1>a DEF TrustInv, BeforeTrust, GenerationOrder, BeginConsume, Goto
  <1>33. ASSUME NEW t \in Threads, NEW consumed \in BOOLEAN, EndConsume(t, consumed) PROVE GenerationOrder'
    BY <1>33, <1>a DEF TrustInv, BeforeTrust, GenerationOrder, EndConsume, Goto
  <1>34. ASSUME NEW t \in Threads, StopDrain(t) PROVE GenerationOrder'
    BY <1>34, <1>a DEF TrustInv, BeforeTrust, GenerationOrder, StopDrain, Goto, Home
  <1>35. ASSUME NEW t \in Threads, PopConsumed(t) PROVE GenerationOrder'
    BY <1>35, <1>a DEF TrustInv, BeforeTrust, GenerationOrder, PopConsumed, Goto
  <1>36. ASSUME NEW t \in Threads, ResetConsumer(t) PROVE GenerationOrder'
    BY <1>36, <1>a DEF TrustInv, BeforeTrust, GenerationOrder, ResetConsumer, Goto
  <1>37. ASSUME NEW t \in Threads, ResetDone(t) PROVE GenerationOrder'
    BY <1>37, <1>a DEF TrustInv, BeforeTrust, GenerationOrder, ResetDone, Goto
  <1>38. ASSUME SendCommand PROVE GenerationOrder'
    BY <1>38, <1>a DEF TrustInv, BeforeTrust, GenerationOrder, SendCommand, Goto, MaySend
  <1>39. ASSUME NEW ok \in SendResults, SendFormat(ok) PROVE GenerationOrder'
    BY <1>39, <1>a DEF TrustInv, BeforeTrust, GenerationOrder, SendFormat, Goto, ResetQueue, MaySend
  <1>40. ASSUME NEW c \in SwapConsumers, SetConsumer(c) PROVE GenerationOrder'
    BY <1>40, <1>a DEF TrustInv, BeforeTrust, GenerationOrder, SetConsumer, Goto
  <1>41. ASSUME NEW s \in Stamps, Elapse(s) PROVE GenerationOrder'
    BY <1>41, <1>a DEF TrustInv, BeforeTrust, GenerationOrder, Elapse, Goto
  <1>42. ASSUME UNCHANGED vars PROVE GenerationOrder'
    BY <1>42, <1>a DEF TrustInv, BeforeTrust, GenerationOrder, Goto, vars
  <1> QED
    BY <1>1, <1>2, <1>2b, <1>3, <1>4, <1>5, <1>6, <1>7, <1>8, <1>9, <1>10, <1>11,
       <1>12, <1>13, <1>14, <1>15, <1>16, <1>17, <1>18, <1>19, <1>20, <1>21,
       <1>22, <1>23, <1>24, <1>25, <1>26, <1>27, <1>28, <1>29, <1>30, <1>31,
       <1>32, <1>33, <1>34, <1>35, <1>36, <1>37, <1>38, <1>39, <1>40, <1>41,
       <1>42
    DEF Next, NetHandler, Receive, Delivery, Owner, Watchdog

LEMMA NextQueue == TypeOK /\ QueueInv /\ [Next]_vars => QueueInv'
  <1> SUFFICES ASSUME TypeOK, QueueInv, [Next]_vars PROVE QueueInv'
    OBVIOUS
  <1>a. /\ at \in [Threads -> NetPlaces \cup DrainPlaces \cup ResetPlaces \cup UiPlaces]
        /\ then \in [Threads -> {"check", "idle", "askOrFail", "sendChallenge",
                                 "sendReady", "drain"}]
        /\ pending \in Nat /\ streamGen \in Nat /\ nextGen \in Nat
        /\ queue \in Seq(Units) /\ unit \in [Threads -> Units]
    BY DEF TypeOK
  <1> USE DEF Threads, sessionVars, trustVars, queueVars, formatVars,
              flagVars, consVars, connVars, wdVars, outerVars, localVars
  <1>1. ASSUME NEW configValid \in BOOLEAN, OnConnected(configValid) PROVE QueueInv'
    BY <1>1, <1>a DEF QueueInv, OnConnected, Goto, ResetQueue
  <1>2. ASSUME OnDisconnected PROVE QueueInv'
    BY <1>2, <1>a DEF QueueInv, OnDisconnected, Goto, ResetQueue
  <1>2b. ASSUME DropProtector PROVE QueueInv'
    BY <1>2b, <1>a DEF QueueInv, DropProtector, JoinWatchdog, Goto
  <1>3. ASSUME WatchdogLoop PROVE QueueInv'
    BY <1>3, <1>a DEF QueueInv, WatchdogLoop, Goto
  <1>4. ASSUME WatchdogCheck PROVE QueueInv'
    BY <1>4, <1>a DEF QueueInv, WatchdogCheck, Goto
  <1>5. ASSUME WatchdogClose PROVE QueueInv'
    BY <1>5, <1>a DEF QueueInv, WatchdogClose, Goto
  <1>6. ASSUME CheckValid PROVE QueueInv'
    BY <1>6, <1>a DEF QueueInv, CheckValid, Goto
  <1>7. ASSUME RequestStop PROVE QueueInv'
    BY <1>7, <1>a DEF QueueInv, RequestStop, Goto
  <1>8. ASSUME ProtocolFailure PROVE QueueInv'
    BY <1>8, <1>a DEF QueueInv, ProtocolFailure, Goto
  <1>9. ASSUME CloseConnection PROVE QueueInv'
    BY <1>9, <1>a DEF QueueInv, CloseConnection, Goto
  <1>10. ASSUME Telemetry PROVE QueueInv'
    BY <1>10, <1>a DEF QueueInv, Telemetry, Goto
  <1>11. ASSUME StreamStart PROVE QueueInv'
    BY <1>11, <1>a DEF QueueInv, StreamStart, Goto
  <1>12. ASSUME NEW g \in 1..MaxGeneration, FormatAck(g) PROVE QueueInv'
    BY <1>12, <1>a DEF QueueInv, FormatAck, Answers, Goto, ResetQueue
  <1>13. ASSUME NEW g \in 1..MaxGeneration, FormatReject(g) PROVE QueueInv'
    BY <1>13, <1>a DEF QueueInv, FormatReject, Answers, Goto, ResetQueue
  <1>14. ASSUME NEW ok \in SendResults, AskOrFail(ok) PROVE QueueInv'
    BY <1>14, <1>a DEF QueueInv, AskOrFail, Goto
  <1>15. ASSUME NEW trusts \in BOOLEAN, NEW challenge \in BOOLEAN, HandleHello(trusts, challenge) PROVE QueueInv'
    BY <1>15, <1>a DEF QueueInv, HandleHello, Goto
  <1>16. ASSUME HelloRefused PROVE QueueInv'
    BY <1>16, <1>a DEF QueueInv, HelloRefused, Goto, Moves
  <1>17. ASSUME NEW step \in HandshakeSteps, NEW ok \in SendResults, SendHandshake(step, ok) PROVE QueueInv'
    BY <1>17, <1>a DEF QueueInv, SendHandshake, Goto, HandshakeSteps, Handshake
  <1>18. ASSUME NEW proof \in BOOLEAN, HandleAuthResponse(proof) PROVE QueueInv'
    BY <1>18, <1>a DEF QueueInv, HandleAuthResponse, Goto, Moves
  <1>19. ASSUME InstallProtector PROVE QueueInv'
    BY <1>19, <1>a DEF QueueInv, InstallProtector, Goto
  <1>20. ASSUME GrantTrust PROVE QueueInv'
    BY <1>20, <1>a DEF QueueInv, GrantTrust, Goto
  <1>21. ASSUME InvalidVideo PROVE QueueInv'
    BY <1>21, <1>a DEF QueueInv, InvalidVideo, Goto, ResetQueue
  <1>22. ASSUME NEW ok \in SendResults, AskKeyframe(ok) PROVE QueueInv'
    BY <1>22, <1>a DEF QueueInv, AskKeyframe, Goto
  <1>23. ASSUME AwaitKeyframe PROVE QueueInv'
    BY <1>23, <1>a DEF QueueInv, AwaitKeyframe, Goto, Moves
  <1>24. ASSUME NEW big \in BOOLEAN, Enqueue(big) PROVE QueueInv'
    <2>1. CASE queue' = <<>>
      BY <2>1 DEF QueueInv
    <2>2. CASE queue' # <<>>
      <3>1. /\ queue' = Append(queue, [unit["net"] EXCEPT !.token = nextToken])
            /\ ~(Len(queue) >= QueueLimit)
            /\ waiting' = (waiting /\ ~unit["net"].key)
            /\ ~waiting \/ unit["net"].key
        BY <1>24, <2>2, Zenon DEF Enqueue, Overflow, ResetQueue
      <3>2. Len(queue') = Len(queue) + 1
        BY <1>a, <3>1
      <3>3. ~waiting'
        BY <3>1, Zenon
      <3> QED BY <1>a, <3>1, <3>2, <3>3, BoundsAssumption DEF QueueInv
    <2> QED BY <2>1, <2>2
  <1>25. ASSUME ReceiveEnds PROVE QueueInv'
    BY <1>25, <1>a DEF QueueInv, ReceiveEnds, Goto, Moves
  <1>26. ASSUME RejectFrame PROVE QueueInv'
    BY <1>26, <1>a DEF QueueInv, RejectFrame, Goto, Moves
  <1>27. ASSUME IgnoreFrame PROVE QueueInv'
    BY <1>27, <1>a DEF QueueInv, IgnoreFrame, Goto, Moves
  <1>28. ASSUME NEW type \in Types, HandleControl(type) PROVE QueueInv'
    BY <1>28, <1>a DEF QueueInv, HandleControl, Goto, Moves, Types, Refused, Ignored
  <1>29. ASSUME NEW key \in BOOLEAN, NEW wellFormed \in BOOLEAN, HandleVideo(key, wellFormed) PROVE QueueInv'
    BY <1>29, <1>a DEF QueueInv, HandleVideo, Goto, Gated
  <1>30. ASSUME NEW t \in Threads, BeginDrain(t) PROVE QueueInv'
    BY <1>30, <1>a DEF QueueInv, BeginDrain, Goto, Home
  <1>31. ASSUME NEW t \in Threads, TakeFront(t) PROVE QueueInv'
    BY <1>31, <1>a DEF QueueInv, TakeFront, Goto, Home
  <1>32. ASSUME NEW t \in Threads, BeginConsume(t) PROVE QueueInv'
    BY <1>32, <1>a DEF QueueInv, BeginConsume, Goto
  <1>33. ASSUME NEW t \in Threads, NEW consumed \in BOOLEAN, EndConsume(t, consumed) PROVE QueueInv'
    BY <1>33, <1>a DEF QueueInv, EndConsume, Goto
  <1>34. ASSUME NEW t \in Threads, StopDrain(t) PROVE QueueInv'
    BY <1>34, <1>a DEF QueueInv, StopDrain, Goto, Home
  <1>35. ASSUME NEW t \in Threads, PopConsumed(t) PROVE QueueInv'
    <2>1. CASE queue' = queue
      BY <1>35, <2>1 DEF PopConsumed, QueueInv
    <2>2. CASE queue' # queue
      <3>1. queue # <<>> /\ queue' = Tail(queue)
        BY <1>35, <2>2 DEF PopConsumed
      <3>2. Len(queue') = Len(queue) - 1
        BY <1>a, <3>1
      <3> QED BY <1>35, <1>a, <3>1, <3>2, BoundsAssumption DEF PopConsumed, QueueInv
    <2> QED BY <2>1, <2>2
  <1>36. ASSUME NEW t \in Threads, ResetConsumer(t) PROVE QueueInv'
    BY <1>36, <1>a DEF QueueInv, ResetConsumer, Goto
  <1>37. ASSUME NEW t \in Threads, ResetDone(t) PROVE QueueInv'
    BY <1>37, <1>a DEF QueueInv, ResetDone, Goto
  <1>38. ASSUME SendCommand PROVE QueueInv'
    BY <1>38, <1>a DEF QueueInv, SendCommand, Goto, MaySend
  <1>39. ASSUME NEW ok \in SendResults, SendFormat(ok) PROVE QueueInv'
    BY <1>39, <1>a DEF QueueInv, SendFormat, Goto, ResetQueue, MaySend
  <1>40. ASSUME NEW c \in SwapConsumers, SetConsumer(c) PROVE QueueInv'
    BY <1>40, <1>a DEF QueueInv, SetConsumer, Goto
  <1>41. ASSUME NEW s \in Stamps, Elapse(s) PROVE QueueInv'
    BY <1>41, <1>a DEF QueueInv, Elapse, Goto
  <1>42. ASSUME UNCHANGED vars PROVE QueueInv'
    BY <1>42, <1>a DEF QueueInv, Goto, vars
  <1> QED
    BY <1>1, <1>2, <1>2b, <1>3, <1>4, <1>5, <1>6, <1>7, <1>8, <1>9, <1>10, <1>11,
       <1>12, <1>13, <1>14, <1>15, <1>16, <1>17, <1>18, <1>19, <1>20, <1>21,
       <1>22, <1>23, <1>24, <1>25, <1>26, <1>27, <1>28, <1>29, <1>30, <1>31,
       <1>32, <1>33, <1>34, <1>35, <1>36, <1>37, <1>38, <1>39, <1>40, <1>41,
       <1>42
    DEF Next, NetHandler, Receive, Delivery, Owner, Watchdog

(* The conjunction the theorems below rest on. *)
SessionInv ==
    TypeOK /\ ScopeInv /\ TrustInv /\ ProtectorInv /\ GenerationOrder /\ QueueInv

LEMMA SessionInvariant == Spec => []SessionInv
  <1>1. Init => SessionInv
    <2> SUFFICES ASSUME Init PROVE SessionInv
      OBVIOUS
    <2>1. TypeOK
      BY InitType
    <2>2. ScopeInv
      BY DEF Init, ScopeInv, Threads
    <2>3. TrustInv /\ ProtectorInv
      BY DEF Init, TrustInv, ProtectorInv, BeforeTrust, AfterTrust, Threads
    <2>4. GenerationOrder /\ QueueInv
      BY DEF Init, GenerationOrder, QueueInv
    <2> QED BY <2>1, <2>2, <2>3, <2>4 DEF SessionInv
  <1>2. SessionInv /\ [Next]_vars => SessionInv'
    BY NextType, NextScope, NextTrust, NextProtector, NextGenerations, NextQueue
    DEF SessionInv
  <1> QED BY <1>1, <1>2, PTL DEF Spec

(* No thread holds a pointer to a Connection that has left scope: the        *)
(* session's connection_ and the watchdog's `expired` name the connection    *)
(* being served.                                                             *)
THEOREM ConnectionSafe == Spec => []ConnectionInScope
  <1>1. SessionInv => ConnectionInScope
    BY DEF SessionInv, ScopeInv, ConnectionInScope
  <1> QED BY <1>1, SessionInvariant, PTL

(* With session security, while a connection is served no READY and no       *)
(* command leaves in the clear, whichever thread sends it: only between      *)
(* onDisconnected's store of the null protector and its critical section can *)
(* another thread's command do so.                                           *)
THEOREM EnvelopedUntilDisconnect == Spec => []EnvelopedWhileServed
  <1>1. SessionInv => EnvelopedWhileServed
    BY DEF SessionInv, ProtectorInv, EnvelopedWhileServed
  <1> QED BY <1>1, SessionInvariant, PTL

(* The pending generation is the newest requested, newer than the committed  *)
(* one, and belongs to a session that has streamed.                          *)
THEOREM GenerationsOrdered == Spec => []GenerationOrder
  <1>1. SessionInv => GenerationOrder
    BY DEF SessionInv
  <1> QED BY <1>1, SessionInvariant, PTL

(* The encoded queue holds media of a trusted peer on a live connection      *)
(* only, never while a keyframe is awaited and never beyond its bound.       *)
THEOREM QueueSafe == Spec => []QueueGuarded
  <1>1. SessionInv => QueueGuarded
    BY DEF SessionInv, ScopeInv, TrustInv, BeforeTrust, QueueInv, QueueGuarded
  <1> QED BY <1>1, SessionInvariant, PTL

(* Within one connection no step, of any thread, takes the committed         *)
(* generation back.                                                          *)
THEOREM GenerationMonotone == Spec => GenerationNeverRegresses
  <1>1. SessionInv /\ [Next]_vars => [live' = live /\ live # 0 => streamGen' >= streamGen]_vars
    <2> SUFFICES ASSUME SessionInv, [Next]_vars, live' = live, live # 0
                 PROVE  streamGen' >= streamGen
      OBVIOUS
    <2>a. streamGen \in Nat /\ pending \in Nat
      BY DEF SessionInv, TypeOK
    <2>1. ASSUME NEW configValid \in BOOLEAN, OnConnected(configValid) PROVE FALSE
      BY <2>1 DEF OnConnected, SessionInv, ScopeInv
    <2>2. ASSUME OnDisconnected PROVE FALSE
      BY <2>2 DEF OnDisconnected
    <2>3. ASSUME NEW g \in 1..MaxGeneration, FormatAck(g) PROVE streamGen' >= streamGen
      BY <2>3, <2>a DEF FormatAck, Answers, SessionInv, GenerationOrder
    <2>4. ASSUME streamGen' = streamGen PROVE streamGen' >= streamGen
      BY <2>4, <2>a
    <2> USE DEF Threads, sessionVars, trustVars, queueVars, formatVars,
                flagVars, consVars, connVars, wdVars, outerVars, localVars
    <2>5. ASSUME WatchdogLoop PROVE streamGen' = streamGen
      BY <2>5 DEF WatchdogLoop
    <2>6. ASSUME WatchdogCheck PROVE streamGen' = streamGen
      BY <2>6 DEF WatchdogCheck
    <2>7. ASSUME WatchdogClose PROVE streamGen' = streamGen
      BY <2>7 DEF WatchdogClose
    <2>8. ASSUME CheckValid PROVE streamGen' = streamGen
      BY <2>8 DEF CheckValid
    <2>9. ASSUME RequestStop PROVE streamGen' = streamGen
      BY <2>9 DEF RequestStop
    <2>9b. ASSUME DropProtector PROVE streamGen' = streamGen
      BY <2>9b DEF DropProtector
    <2>10. ASSUME ProtocolFailure PROVE streamGen' = streamGen
      BY <2>10 DEF ProtocolFailure
    <2>11. ASSUME CloseConnection PROVE streamGen' = streamGen
      BY <2>11 DEF CloseConnection
    <2>12. ASSUME Telemetry PROVE streamGen' = streamGen
      BY <2>12 DEF Telemetry
    <2>13. ASSUME StreamStart PROVE streamGen' = streamGen
      BY <2>13 DEF StreamStart
    <2>14. ASSUME NEW g \in 1..MaxGeneration, FormatReject(g) PROVE streamGen' = streamGen
      BY <2>14 DEF FormatReject, Answers
    <2>15. ASSUME NEW ok \in SendResults, AskOrFail(ok) PROVE streamGen' = streamGen
      BY <2>15 DEF AskOrFail
    <2>16. ASSUME NEW trusts \in BOOLEAN, NEW challenge \in BOOLEAN, HandleHello(trusts, challenge) PROVE streamGen' = streamGen
      BY <2>16 DEF HandleHello
    <2>17. ASSUME HelloRefused PROVE streamGen' = streamGen
      BY <2>17 DEF HelloRefused, Moves
    <2>18. ASSUME NEW step \in HandshakeSteps, NEW ok \in SendResults, SendHandshake(step, ok) PROVE streamGen' = streamGen
      BY <2>18 DEF SendHandshake
    <2>19. ASSUME NEW proof \in BOOLEAN, HandleAuthResponse(proof) PROVE streamGen' = streamGen
      BY <2>19 DEF HandleAuthResponse, Moves
    <2>20. ASSUME InstallProtector PROVE streamGen' = streamGen
      BY <2>20 DEF InstallProtector
    <2>21. ASSUME GrantTrust PROVE streamGen' = streamGen
      BY <2>21 DEF GrantTrust
    <2>22. ASSUME InvalidVideo PROVE streamGen' = streamGen
      BY <2>22 DEF InvalidVideo
    <2>23. ASSUME NEW ok \in SendResults, AskKeyframe(ok) PROVE streamGen' = streamGen
      BY <2>23 DEF AskKeyframe
    <2>24. ASSUME AwaitKeyframe PROVE streamGen' = streamGen
      BY <2>24 DEF AwaitKeyframe, Moves
    <2>25. ASSUME NEW big \in BOOLEAN, Enqueue(big) PROVE streamGen' = streamGen
      BY <2>25 DEF Enqueue, Overflow
    <2>26. ASSUME ReceiveEnds PROVE streamGen' = streamGen
      BY <2>26 DEF ReceiveEnds, Moves
    <2>27. ASSUME RejectFrame PROVE streamGen' = streamGen
      BY <2>27 DEF RejectFrame, Moves
    <2>28. ASSUME IgnoreFrame PROVE streamGen' = streamGen
      BY <2>28 DEF IgnoreFrame, Moves
    <2>29. ASSUME NEW type \in Types, HandleControl(type) PROVE streamGen' = streamGen
      BY <2>29 DEF HandleControl, Moves
    <2>30. ASSUME NEW key \in BOOLEAN, NEW wellFormed \in BOOLEAN, HandleVideo(key, wellFormed) PROVE streamGen' = streamGen
      BY <2>30 DEF HandleVideo
    <2>31. ASSUME NEW t \in Threads, BeginDrain(t) PROVE streamGen' = streamGen
      BY <2>31 DEF BeginDrain
    <2>32. ASSUME NEW t \in Threads, TakeFront(t) PROVE streamGen' = streamGen
      BY <2>32 DEF TakeFront
    <2>33. ASSUME NEW t \in Threads, BeginConsume(t) PROVE streamGen' = streamGen
      BY <2>33 DEF BeginConsume
    <2>34. ASSUME NEW t \in Threads, NEW consumed \in BOOLEAN, EndConsume(t, consumed) PROVE streamGen' = streamGen
      BY <2>34 DEF EndConsume
    <2>35. ASSUME NEW t \in Threads, StopDrain(t) PROVE streamGen' = streamGen
      BY <2>35 DEF StopDrain
    <2>36. ASSUME NEW t \in Threads, PopConsumed(t) PROVE streamGen' = streamGen
      BY <2>36 DEF PopConsumed
    <2>37. ASSUME NEW t \in Threads, ResetConsumer(t) PROVE streamGen' = streamGen
      BY <2>37 DEF ResetConsumer
    <2>38. ASSUME NEW t \in Threads, ResetDone(t) PROVE streamGen' = streamGen
      BY <2>38 DEF ResetDone
    <2>39. ASSUME SendCommand PROVE streamGen' = streamGen
      BY <2>39 DEF SendCommand
    <2>40. ASSUME NEW ok \in SendResults, SendFormat(ok) PROVE streamGen' = streamGen
      BY <2>40 DEF SendFormat
    <2>41. ASSUME NEW c \in SwapConsumers, SetConsumer(c) PROVE streamGen' = streamGen
      BY <2>41 DEF SetConsumer
    <2>42. ASSUME NEW s \in Stamps, Elapse(s) PROVE streamGen' = streamGen
      BY <2>42 DEF Elapse
    <2>43. ASSUME UNCHANGED vars PROVE streamGen' = streamGen
      BY <2>43 DEF vars
    <2> QED
      BY <2>1, <2>2, <2>3, <2>4, <2>5, <2>6, <2>7, <2>8, <2>9, <2>9b, <2>10, <2>11,
         <2>12, <2>13, <2>14, <2>15, <2>16, <2>17, <2>18, <2>19, <2>20, <2>21,
         <2>22, <2>23, <2>24, <2>25, <2>26, <2>27, <2>28, <2>29, <2>30, <2>31,
         <2>32, <2>33, <2>34, <2>35, <2>36, <2>37, <2>38, <2>39, <2>40, <2>41,
         <2>42, <2>43
      DEF Next, NetHandler, Receive, Delivery, Owner, Watchdog
  <1> QED BY <1>1, SessionInvariant, PTL DEF Spec, GenerationNeverRegresses

-----------------------------------------------------------------------------
(* Delivery.  Without consumer swaps the connection thread alone resets and  *)
(* feeds the consumer; the owner may flush the queue (SendFormat) and the    *)
(* watchdog may fail the session at any moment in between.                   *)

(* The unit copied from the queue's front *)
HandPlaces == {"consume", "consuming", "pop", "busy"}
(* and the places from which the consumer will be fed. *)
FitPlaces == {"resetDone", "enqueue", "consume", "consuming", "pop"}

(* Where the thread is and what the session awaits. *)
PlaceInv ==
    /\ at["ui"] = "idle"
    /\ resetting => at["net"] \in ResetPlaces
    /\ at["net"] \in ResetPlaces => waiting
    /\ state = "Ready" => waiting /\ at["net"] # "enqueue"
    /\ ~waiting => trusted

(* A unit of this connection and of the committed generation *)
Belongs(u) == u.conn = live /\ u.gen = streamGen
Arrived(u) == Belongs(u) /\ u.pts \in 1..arrived

(* and a consumer that was reset for it. *)
Fits == fed[consumer].conn = live /\ fed[consumer].gen = streamGen
            /\ fed[consumer].pts <= arrived
Fitted ==
    \/ state = "Streaming" /\ ~resetting
    \/ queue # <<>>
    \/ at["net"] \in FitPlaces
UnitInv ==
    /\ \A i \in 1..Len(queue) : Arrived(queue[i])
    /\ at["net"] \in {"enqueue"} \cup HandPlaces => Arrived(unit["net"])
    /\ at["net"] = "reset" => Belongs(unit["net"])
    /\ consumer # NoConsumer /\ Fitted => Fits

(* The front stays in the queue until it is consumed, unless it is flushed. *)
HandInv ==
    at["net"] \in HandPlaces =>
        /\ consumer # NoConsumer /\ target["net"] = consumer
        /\ queue # <<>> => queue[1] = unit["net"]

(* Each unit is a keyframe or directly follows the one before it. *)
Successor(u, v) == u.pts < v.pts /\ (v.key \/ v.pts = u.pts + 1)
Chained(q) == \A i \in 1..Len(q) : i > 1 => Successor(q[i - 1], q[i])

(* The same towards the unit last consumed, *)
Follows(u) ==
    LET last == fed[consumer].pts IN
    /\ u.pts > last
    /\ u.key \/ (last # 0 /\ u.pts = last + 1)
(* and from the newest unit accepted to the one that arrives next. *)
Newest == IF queue # <<>> THEN queue[Len(queue)].pts ELSE fed[consumer].pts
FrontInv ==
    /\ at["net"] \in {"consume", "consuming"} => Follows(unit["net"])
    /\ at["net"] = "pop" => fed[consumer].pts = unit["net"].pts
    /\ at["net"] # "pop" /\ queue # <<>> => Follows(queue[1])
NewestInv ==
    /\ at["net"] = "enqueue" => /\ unit["net"].pts = arrived
                                /\ fed[consumer].pts < arrived
                                /\ ~waiting => Newest = arrived - 1 /\ Newest # 0
    /\ (at["net"] \notin {"enqueue", "invalid"} /\ ~waiting /\ state = "Streaming" /\ pending = 0)
         => Newest = arrived /\ Newest # 0

MediaInv ==
    /\ PlaceInv /\ UnitInv /\ HandInv
    /\ consumer # NoConsumer => Chained(queue) /\ FrontInv /\ NewestInv

(* The places of these invariants; the thread is plainly elsewhere. *)
Special == ResetPlaces \cup HandPlaces \cup {"enqueue", "invalid"}
MediaKept == UNCHANGED <<consumer, fed, live, streamGen, queue, waiting, arrived, resetting, pending>>
NetKept == at'["net"] = at["net"] /\ unit'["net"] = unit["net"] /\ target'["net"] = target["net"]

LEMMA PlacesApart ==
  /\ ResetPlaces \subseteq Special /\ HandPlaces \subseteq Special
  /\ FitPlaces \subseteq Special /\ "enqueue" \in Special /\ "invalid" \in Special
  /\ "pop" \in HandPlaces /\ "pop" \notin ResetPlaces
  BY DEF Special, ResetPlaces, HandPlaces, FitPlaces

(* The other threads change at most the session's state. *)
LEMMA OtherThread ==
  ASSUME MediaInv, MediaKept, NetKept, at'["ui"] = at["ui"], trusted' = trusted,
         state' = state \/ state' = "Failed"
  PROVE  MediaInv'
  <1> USE DEF MediaKept, NetKept
  <1>1. PlaceInv'
    BY DEF MediaInv, PlaceInv
  <1>2. UnitInv'
    BY DEF MediaInv, UnitInv, Arrived, Belongs, Fitted, Fits
  <1>3. HandInv' /\ (consumer' # NoConsumer => Chained(queue)')
    BY DEF MediaInv, HandInv, Chained, Successor
  <1>4. consumer' # NoConsumer => FrontInv' /\ NewestInv'
    BY DEF MediaInv, FrontInv, NewestInv, Follows, Newest
  <1> QED BY <1>1, <1>2, <1>3, <1>4 DEF MediaInv

(* The thread goes about other business. *)
PlainMove ==
    /\ MediaKept
    /\ at'["ui"] = at["ui"]
    /\ at["net"] \notin ResetPlaces \cup {"pop"} /\ at'["net"] \notin Special
    /\ at["net"] \notin {"enqueue", "invalid"} \/ waiting
    /\ \/ state' = state
       \/ state' = "Failed"
       \/ waiting /\ state' \in {"AwaitingTrust", "Ready"}
    /\ trusted' = trusted \/ waiting

LEMMA PlainKeeps ==
  ASSUME MediaInv, PlainMove
  PROVE  MediaInv'
  <1> USE DEF MediaKept, PlainMove
  <1>0. at'["net"] \notin ResetPlaces \cup HandPlaces \cup FitPlaces \cup {"enqueue", "invalid", "pop"}
    BY PlacesApart
  <1>r. at'["net"] \notin {"reset", "consume", "consuming", "enqueue", "pop"}
    BY <1>0 DEF ResetPlaces, HandPlaces
  <1>1. PlaceInv'
    BY <1>0 DEF MediaInv, PlaceInv
  <1>2. UnitInv'
    BY <1>0, <1>r DEF MediaInv, UnitInv, Arrived, Belongs, Fitted, Fits
  <1>3. HandInv' /\ (consumer' # NoConsumer => Chained(queue)')
    BY <1>0 DEF MediaInv, HandInv, Chained, Successor
  <1>4. consumer' # NoConsumer => FrontInv' /\ NewestInv'
    BY <1>r DEF MediaInv, FrontInv, NewestInv, Follows, Newest
  <1> QED BY <1>1, <1>2, <1>3, <1>4 DEF MediaInv

(* The queue is flushed and a keyframe awaited. *)
Flush ==
    /\ queue' = <<>> /\ waiting' = TRUE
    /\ UNCHANGED <<consumer, fed, live, streamGen, arrived, resetting, state, trusted>>
    /\ at'["ui"] = at["ui"]
    /\ NetKept \/ (at["net"] \notin ResetPlaces /\ at'["net"] \notin Special)

LEMMA FlushKeeps ==
  ASSUME MediaInv, Flush
  PROVE  MediaInv'
  <1> USE DEF Flush, NetKept
  <1>e. queue' = <<>> /\ Len(queue') = 0 /\ waiting'
    OBVIOUS
  <1>c. CASE NetKept
    <2>1. PlaceInv'
      BY <1>c DEF MediaInv, PlaceInv
    <2>2. UnitInv'
      BY <1>c, <1>e DEF MediaInv, UnitInv, Arrived, Belongs, Fitted, Fits
    <2>3. HandInv' /\ (consumer' # NoConsumer => Chained(queue)')
      BY <1>c, <1>e DEF MediaInv, HandInv, Chained
    <2>4. consumer' # NoConsumer => FrontInv' /\ NewestInv'
      BY <1>c, <1>e DEF MediaInv, FrontInv, NewestInv, Follows
    <2> QED BY <2>1, <2>2, <2>3, <2>4 DEF MediaInv
  <1>d. CASE at["net"] \notin ResetPlaces /\ at'["net"] \notin Special
    <2>0. at'["net"] \notin ResetPlaces \cup HandPlaces \cup FitPlaces \cup {"enqueue", "invalid", "pop"}
      BY <1>d, PlacesApart
    <2>r. at'["net"] \notin {"reset", "consume", "consuming", "enqueue", "pop"}
      BY <2>0 DEF ResetPlaces, HandPlaces
    <2>1. PlaceInv'
      BY <1>d, <2>0 DEF MediaInv, PlaceInv
    <2>2. UnitInv'
      BY <1>e, <2>0, <2>r DEF MediaInv, UnitInv, Arrived, Belongs, Fitted, Fits
    <2>3. HandInv' /\ (consumer' # NoConsumer => Chained(queue)')
      BY <1>e, <2>0 DEF HandInv, Chained
    <2>4. consumer' # NoConsumer => FrontInv' /\ NewestInv'
      BY <1>e, <2>r DEF FrontInv, NewestInv
    <2> QED BY <2>1, <2>2, <2>3, <2>4 DEF MediaInv
  <1> QED BY <1>c, <1>d

(* Everything is flushed, and no consumer is fed until it is reset. *)
LEMMA EmptyKeeps ==
  ASSUME queue' = <<>>, waiting' = TRUE, at'["ui"] = "idle",
         state' # "Streaming" \/ resetting', resetting' => at'["net"] = "reset",
         at'["net"] \notin Special \/ (at'["net"] = "reset" /\ Belongs(unit["net"])')
  PROVE  MediaInv'
  <1>e. queue' = <<>> /\ Len(queue') = 0 /\ waiting'
    OBVIOUS
  <1>0. at'["net"] \notin HandPlaces \cup FitPlaces \cup {"enqueue", "pop", "consume", "consuming"}
    BY PlacesApart DEF HandPlaces, FitPlaces
  <1>1. PlaceInv'
    BY <1>0 DEF PlaceInv, ResetPlaces
  <1>2. UnitInv'
    <2>1. at'["net"] = "reset" => Belongs(unit["net"])'
      BY DEF Special, ResetPlaces
    <2> QED BY <1>0, <1>e, <2>1 DEF UnitInv, Fitted
  <1>3. HandInv' /\ (consumer' # NoConsumer => Chained(queue)')
    BY <1>0, <1>e DEF HandInv, Chained
  <1>4. consumer' # NoConsumer => FrontInv' /\ NewestInv'
    BY <1>0, <1>e DEF FrontInv, NewestInv
  <1> QED BY <1>1, <1>2, <1>3, <1>4 DEF MediaInv

LEMMA TailOfQueue ==
  ASSUME NEW q \in Seq(Units), q # <<>>, NEW r, r = Tail(q)
  PROVE  /\ r \in Seq(Units) /\ Len(r) = Len(q) - 1
         /\ \A i \in 1..Len(r) : r[i] = q[i + 1]
  OBVIOUS

LEMMA AppendToQueue ==
  ASSUME NEW q \in Seq(Units), NEW u \in Units, NEW r, r = Append(q, u)
  PROVE  /\ r \in Seq(Units) /\ Len(r) = Len(q) + 1 /\ r # <<>>
         /\ \A i \in 1..Len(q) : r[i] = q[i]
         /\ r[Len(q) + 1] = u
  OBVIOUS

LEMMA HeadOfQueue ==
  ASSUME NEW q \in Seq(Units), q # <<>>
  PROVE  Head(q) = q[1] /\ 1 \in 1..Len(q) /\ Len(q) \in 1..Len(q) /\ Len(q) \in Nat
  OBVIOUS

(* The part of the state these invariants are about *)
MediaType ==
    /\ queue \in Seq(Units) /\ unit \in [Threads -> Units]
    /\ target \in [Threads -> Consumers \cup {NoConsumer}]
    /\ consumer \in Consumers \cup {NoConsumer} /\ fed \in [Consumers -> Feeds]
    /\ at \in [Threads -> NetPlaces \cup DrainPlaces \cup ResetPlaces \cup UiPlaces]
    /\ live \in Nat /\ streamGen \in Nat /\ arrived \in Nat /\ pending \in Nat
    /\ waiting \in BOOLEAN /\ resetting \in BOOLEAN

LEMMA MediaTyped == TypeOK => MediaType
  BY DEF TypeOK, MediaType

LEMMA VideoMedia ==
  ASSUME MediaType, MediaInv, NEW key \in BOOLEAN, NEW wellFormed \in BOOLEAN,
         HandleVideo(key, wellFormed)
  PROVE  MediaInv'
  <1>v. /\ at["net"] = "recv" /\ at'["ui"] = at["ui"] /\ arrived' = arrived + 1
        /\ UNCHANGED <<consumer, fed, live, streamGen, queue, waiting, resetting, pending, state, trusted,
                       target>>
    BY DEF HandleVideo, Goto, MediaType, Threads, sessionVars, trustVars, queueVars, formatVars, flagVars, consVars, connVars, wdVars, outerVars, localVars
  <1>t. /\ arrived \in Nat /\ \A i \in 1..Len(queue) : queue[i] \in Units
        /\ consumer # NoConsumer => fed[consumer] \in Feeds
    BY DEF MediaType
  <1>u. \A i \in 1..Len(queue) : Arrived(queue[i])'
    BY <1>v, <1>t DEF MediaInv, UnitInv, Arrived, Belongs, Units
  <1>f. consumer # NoConsumer /\ Fitted => Fits'
    BY <1>v, <1>t DEF MediaInv, UnitInv, Fits, Feeds
  <1>1. CASE trusted /\ state = "Streaming" /\ ~Gated
    <2>1. /\ unit'["net"] = [conn |-> live, gen |-> streamGen, key |-> key,
                             pts |-> arrived + 1, token |-> 0]
          /\ at'["net"] = IF wellFormed THEN "enqueue" ELSE "invalid"
      BY <1>1 DEF HandleVideo, Goto, MediaType, Threads
    <2>2. Fitted /\ ~resetting /\ pending = 0
      BY <1>1 DEF Fitted, Gated
    <2>3. Arrived(unit["net"])'
      BY <2>1, <1>v, <1>t DEF Arrived, Belongs
    <2>4. UnitInv'
      BY <2>1, <2>2, <2>3, <1>u, <1>f, <1>v DEF UnitInv, HandPlaces
    <2>5. PlaceInv'
      BY <2>1, <2>2, <1>1, <1>v DEF MediaInv, PlaceInv, ResetPlaces
    <2>6. HandInv' /\ (consumer' # NoConsumer => Chained(queue)')
      BY <2>1, <1>v DEF MediaInv, HandInv, HandPlaces, Chained, Successor
    <2>7. ASSUME consumer' # NoConsumer PROVE FrontInv' /\ NewestInv'
      <3>1. fed[consumer].pts < arrived'
        BY <2>7, <2>2, <1>v, <1>t DEF MediaInv, UnitInv, Fits, Feeds
      <3>2. unit'["net"].pts = arrived'
        BY <2>1, <1>v
      <3>3. ~waiting => Newest = arrived /\ Newest # 0
        BY <2>7, <2>2, <1>1, <1>v DEF MediaInv, NewestInv
      <3>4. Newest' = Newest
        BY <1>v DEF Newest
      <3>5. NewestInv'
        BY <2>1, <3>1, <3>2, <3>3, <3>4, <1>v, <1>t DEF NewestInv
      <3>6. FrontInv'
        BY <2>1, <2>7, <1>v DEF MediaInv, FrontInv, Follows
      <3> QED BY <3>5, <3>6
    <2> QED BY <2>4, <2>5, <2>6, <2>7 DEF MediaInv
  <1>2. CASE ~(trusted /\ state = "Streaming" /\ ~Gated)
    <2>1. unit' = unit /\ at'["net"] = "check"
      BY <1>2 DEF HandleVideo, Goto, MediaType, Threads
    <2>2. Fitted' => Fitted
      BY <2>1, <1>v DEF Fitted, FitPlaces
    <2>3. UnitInv'
      BY <2>1, <2>2, <1>u, <1>f, <1>v DEF UnitInv, HandPlaces
    <2>4. PlaceInv'
      BY <2>1, <1>v DEF MediaInv, PlaceInv, ResetPlaces
    <2>5. HandInv' /\ (consumer' # NoConsumer => Chained(queue)')
      BY <2>1, <1>v DEF MediaInv, HandInv, HandPlaces, Chained, Successor
    <2>6. state = "Streaming" /\ pending = 0 => waiting
      BY <1>2, <1>v DEF Gated, MediaInv, PlaceInv, ResetPlaces
    <2>7. consumer' # NoConsumer => FrontInv' /\ NewestInv'
      BY <2>1, <2>6, <1>v DEF MediaInv, FrontInv, NewestInv, Follows
    <2> QED BY <2>3, <2>4, <2>5, <2>7 DEF MediaInv
  <1> QED BY <1>1, <1>2

LEMMA EnqueueMedia ==
  ASSUME MediaType, TrustInv, QueueInv, MediaInv, NEW big \in BOOLEAN, Enqueue(big), nextToken \in Nat
  PROVE  MediaInv'
  <1>v. /\ at["net"] = "enqueue" /\ at'["ui"] = at["ui"] /\ (~waiting \/ unit["net"].key)
        /\ UNCHANGED <<consumer, fed, live, streamGen, arrived, resetting, pending, state, trusted, unit,
                       target>>
    BY DEF Enqueue, Goto, MediaType, Threads, sessionVars, trustVars, queueVars, formatVars, flagVars, consVars, connVars, wdVars, outerVars, localVars
  <1>1. CASE Overflow(big)
    <2>1. queue' = <<>> /\ waiting' = TRUE /\ at'["net"] \in {"ask", "drain"}
      BY <1>1 DEF Enqueue, ResetQueue, Goto, MediaType, Threads
    <2>2. Flush
      BY <2>1, <1>v DEF Flush, Special, ResetPlaces, HandPlaces
    <2> QED BY <2>2, FlushKeeps
  <1>2. CASE ~Overflow(big)
    <2>1. PICK u : u = [unit["net"] EXCEPT !.token = nextToken]
      OBVIOUS
    <2>2. unit["net"] \in Units
      BY DEF MediaType, Threads
    <2>3. /\ u \in Units /\ u.conn = unit["net"].conn /\ u.gen = unit["net"].gen
          /\ u.key = unit["net"].key /\ u.pts = unit["net"].pts
      BY <2>1, <2>2 DEF Units
    <2>4. queue' = Append(queue, u) /\ waiting' = (waiting /\ ~u.key) /\ at'["net"] = "drain"
      BY <1>2, <2>1, <2>3 DEF Enqueue, Goto, MediaType, Threads
    <2>5. ~waiting' /\ trusted
      BY <2>3, <2>4, <1>v DEF TrustInv, AfterTrust
    <2>t. /\ queue \in Seq(Units) /\ Len(queue) \in Nat /\ arrived \in Nat
          /\ consumer # NoConsumer => fed[consumer] \in Feeds
      BY DEF MediaType
    <2>q. /\ Len(queue') = Len(queue) + 1 /\ queue' # <<>>
          /\ \A i \in 1..Len(queue) : queue'[i] = queue[i]
          /\ queue'[Len(queue) + 1] = u
      BY <2>3, <2>4, <2>t, AppendToQueue
    <2>a. Arrived(unit["net"])
      BY <1>v DEF MediaInv, UnitInv
    <2>6. \A i \in 1..Len(queue') : i \in 1..Len(queue) \/ i = Len(queue) + 1
      BY <2>q, <2>t
    <2>7. \A i \in 1..Len(queue') : Arrived(queue[i])'
      <3>1. \A i \in 1..Len(queue) : Arrived(queue[i])
        BY DEF MediaInv, UnitInv
      <3>2. Arrived(u)'
        BY <2>a, <2>3, <1>v DEF Arrived, Belongs
      <3>3. \A i \in 1..Len(queue) : Arrived(queue[i])'
        BY <2>q, <3>1, <1>v DEF Arrived, Belongs
      <3>4. Arrived(queue[Len(queue)])'
        BY <2>q, <2>3, <2>a, <1>v DEF Arrived, Belongs
      <3> QED BY <2>q, <2>6, <3>3, <3>4
    <2>8. UnitInv'
      BY <2>4, <2>7, <1>v DEF MediaInv, UnitInv, HandPlaces, Fitted, FitPlaces, Fits
    <2>9. PlaceInv'
      BY <2>4, <2>5, <1>v DEF MediaInv, PlaceInv, ResetPlaces
    (* The unit before it *)
    <2>10. queue # <<>> => ~waiting /\ Len(queue) \in 1..Len(queue)
      BY <2>t, HeadOfQueue DEF QueueInv
    <2>11. HandInv'
      BY <2>4 DEF HandInv, HandPlaces
    <2>12. ASSUME consumer' # NoConsumer PROVE Chained(queue)' /\ FrontInv' /\ NewestInv'
      <3>0. /\ Chained(queue) /\ FrontInv /\ NewestInv
            /\ u.pts = arrived /\ fed[consumer].pts < arrived /\ fed[consumer].pts \in Nat
        BY <2>12, <2>3, <2>t, <1>v DEF MediaInv, NewestInv, Feeds
      <3>1. queue # <<>> => Successor(queue[Len(queue)], u)
        <4>1. queue # <<>> => queue[Len(queue)].pts = arrived - 1
          BY <2>10, <3>0, <1>v DEF NewestInv, Newest
        <4> QED BY <4>1, <3>0, <2>t DEF Successor
      <3>2. Chained(queue)'
        <4>1. ASSUME NEW i \in 1..Len(queue'), i > 1 PROVE Successor(queue'[i - 1], queue'[i])
          <5>1. CASE i \in 1..Len(queue)
            <6>1. i - 1 \in 1..Len(queue)
              BY <4>1, <5>1, <2>t
            <6>2. Successor(queue[i - 1], queue[i])
              BY <4>1, <5>1, <3>0 DEF Chained
            <6> QED BY <5>1, <6>1, <6>2, <2>q
          <5>2. CASE i = Len(queue) + 1
            <6>1. Len(queue) \in 1..Len(queue) /\ i - 1 = Len(queue) /\ queue # <<>>
              BY <4>1, <5>2, <2>t
            <6> QED BY <5>2, <6>1, <3>1, <2>q
          <5> QED BY <5>1, <5>2, <2>6
        <4> QED BY <4>1 DEF Chained, Successor
      <3>3. FrontInv'
        <4>1. CASE queue = <<>>
          <5>1. queue'[1] = u
            BY <4>1, <2>q, <2>t
          <5>2. ~waiting => fed[consumer].pts = arrived - 1 /\ fed[consumer].pts # 0
            BY <4>1, <3>0, <1>v DEF NewestInv, Newest
          <5>3. Follows(u)
            BY <5>2, <3>0, <2>t, <2>3, <1>v DEF Follows
          <5> QED BY <5>1, <5>3, <2>4, <1>v DEF FrontInv, Follows
        <4>2. CASE queue # <<>>
          <5>1. queue'[1] = queue[1]
            BY <4>2, <2>q, <2>t, HeadOfQueue
          <5>2. Follows(queue[1])
            BY <4>2, <3>0, <1>v DEF FrontInv
          <5> QED BY <5>1, <5>2, <2>4, <1>v DEF FrontInv, Follows
        <4> QED BY <4>1, <4>2
      <3>4. NewestInv'
        <4>1. Newest' = arrived
          BY <2>q, <3>0 DEF Newest
        <4>2. arrived # 0
          BY <3>0, <2>t
        <4> QED BY <4>1, <4>2, <2>4, <1>v DEF NewestInv
      <3> QED BY <3>2, <3>3, <3>4
    <2> QED BY <2>8, <2>9, <2>11, <2>12 DEF MediaInv
  <1> QED BY <1>1, <1>2

LEMMA TakeMedia ==
  ASSUME MediaType, MediaInv, TakeFront("net")
  PROVE  MediaInv'
  <1>v. /\ at["net"] = "front" /\ at'["ui"] = at["ui"] /\ MediaKept /\ state' = state /\ trusted' = trusted
    BY DEF TakeFront, Goto, MediaType, Threads, MediaKept, sessionVars, trustVars, queueVars, formatVars, flagVars, consVars, connVars, wdVars, outerVars, localVars
  <1>1. CASE queue = <<>> \/ consumer = NoConsumer \/ resetting
    <2>1. at'["net"] = "check"
      BY <1>1 DEF TakeFront, Goto, Home, MediaType, Threads
    <2>2. PlainMove
      BY <1>v, <2>1 DEF PlainMove, Special, ResetPlaces, HandPlaces
    <2> QED BY <2>2, PlainKeeps
  <1>2. CASE ~(queue = <<>> \/ consumer = NoConsumer \/ resetting)
    <2>1. /\ at'["net"] = "consume" /\ unit'["net"] = Head(queue) /\ target'["net"] = consumer
          /\ queue # <<>> /\ consumer # NoConsumer
      BY <1>2 DEF TakeFront, Goto, MediaType, Threads
    <2>2. Head(queue) = queue[1] /\ 1 \in 1..Len(queue)
      BY <2>1, HeadOfQueue DEF MediaType
    <2>3. Arrived(queue[1]) /\ Fitted
      BY <2>1, <2>2 DEF MediaInv, UnitInv, Fitted
    <2>4. UnitInv'
      BY <1>v, <2>1, <2>2, <2>3 DEF MediaInv, UnitInv, Arrived, Belongs, Fits, MediaKept, HandPlaces
    <2>5. PlaceInv'
      BY <1>v, <2>1 DEF MediaInv, PlaceInv, ResetPlaces, MediaKept
    <2>6. HandInv' /\ Chained(queue)'
      BY <1>v, <2>1, <2>2 DEF MediaInv, HandInv, Chained, Successor, MediaKept
    <2>7. FrontInv' /\ NewestInv'
      BY <1>v, <2>1, <2>2 DEF MediaInv, FrontInv, NewestInv, Follows, Newest, MediaKept
    <2> QED BY <2>4, <2>5, <2>6, <2>7 DEF MediaInv
  <1> QED BY <1>1, <1>2

LEMMA ConsumeMedia ==
  ASSUME MediaType, MediaInv, BeginConsume("net")
  PROVE  MediaInv'
  <1>v. /\ at["net"] = "consume" /\ at'["net"] = "consuming" /\ at'["ui"] = at["ui"] /\ MediaKept
        /\ UNCHANGED <<state, trusted, unit, target>>
    BY DEF BeginConsume, Goto, MediaType, Threads, MediaKept, sessionVars, trustVars, queueVars, formatVars, flagVars, consVars, connVars, wdVars, outerVars, localVars
  <1>1. PlaceInv' /\ UnitInv'
    BY <1>v DEF MediaInv, PlaceInv, ResetPlaces, UnitInv, Arrived, Belongs, Fitted, Fits, MediaKept,
       HandPlaces, FitPlaces
  <1>2. HandInv' /\ (consumer' # NoConsumer => Chained(queue)' /\ FrontInv' /\ NewestInv')
    BY <1>v DEF MediaInv, HandInv, HandPlaces, Chained, Successor, FrontInv, NewestInv, Follows, Newest,
       MediaKept
  <1> QED BY <1>1, <1>2 DEF MediaInv

LEMMA ConsumedMedia ==
  ASSUME MediaType, MediaInv, NEW consumed \in BOOLEAN, EndConsume("net", consumed)
  PROVE  MediaInv'
  <1>v. /\ at["net"] = "consuming" /\ at'["ui"] = at["ui"]
        /\ UNCHANGED <<consumer, live, streamGen, queue, waiting, arrived, resetting, pending, state, trusted,
                       unit, target>>
    BY DEF EndConsume, Goto, MediaType, Threads, sessionVars, trustVars, queueVars, formatVars, flagVars, consVars, connVars, wdVars, outerVars, localVars
  <1>h. /\ consumer # NoConsumer /\ consumer \in Consumers /\ target["net"] = consumer
        /\ Arrived(unit["net"]) /\ Follows(unit["net"]) /\ Fits
        /\ queue # <<>> => queue[1] = unit["net"]
    BY <1>v DEF MediaInv, HandInv, HandPlaces, UnitInv, FrontInv, Fitted, FitPlaces, MediaType
  <1>c. Chained(queue) /\ FrontInv /\ NewestInv
    BY <1>h DEF MediaInv
  <1>1. CASE ~consumed
    <2>1. fed' = fed /\ at'["net"] = "busy"
      BY <1>1 DEF EndConsume, Goto, MediaType, Threads
    <2>2. PlaceInv' /\ UnitInv'
      BY <1>v, <2>1 DEF MediaInv, PlaceInv, ResetPlaces, UnitInv, Arrived, Belongs, Fitted, Fits,
         HandPlaces, FitPlaces
    <2>3. HandInv' /\ Chained(queue)' /\ FrontInv' /\ NewestInv'
      BY <1>v, <1>h, <1>c, <2>1 DEF HandInv, HandPlaces, Chained, Successor, FrontInv, NewestInv, Follows,
         Newest
    <2> QED BY <2>2, <2>3 DEF MediaInv
  <1>2. CASE consumed
    <2>t. fed[consumer] \in Feeds /\ unit["net"] \in Units /\ arrived \in Nat
      BY <1>h DEF MediaType, Threads
    <2>1. /\ at'["net"] = "pop"
          /\ fed'[consumer].conn = fed[consumer].conn /\ fed'[consumer].gen = fed[consumer].gen
          /\ fed'[consumer].pts = unit["net"].pts
      BY <1>2, <1>h DEF EndConsume, Goto, MediaType, Threads
    <2>2. Fits'
      BY <1>v, <1>h, <2>1, <2>t DEF Fits, Arrived, Units
    <2>3. UnitInv'
      BY <1>v, <2>1, <2>2 DEF MediaInv, UnitInv, Arrived, Belongs, HandPlaces
    <2>4. PlaceInv'
      BY <1>v, <2>1 DEF MediaInv, PlaceInv, ResetPlaces
    <2>5. HandInv' /\ Chained(queue)' /\ FrontInv'
      BY <1>v, <1>h, <1>c, <2>1 DEF HandInv, HandPlaces, Chained, Successor, FrontInv
    <2>6. NewestInv'
      <3>1. CASE queue # <<>>
        BY <1>v, <1>c, <2>1, <3>1 DEF NewestInv, Newest
      <3>2. CASE queue = <<>>
        <4>1. fed[consumer].pts < unit["net"].pts /\ unit["net"].pts <= arrived
          BY <1>h, <2>t DEF Follows, Arrived, Feeds, Units
        <4>2. ~(~waiting /\ state = "Streaming" /\ pending = 0)
          BY <1>v, <1>c, <2>t, <3>2, <4>1 DEF NewestInv, Newest, Feeds, Units
        <4> QED BY <1>v, <2>1, <4>2 DEF NewestInv
      <3> QED BY <3>1, <3>2
    <2> QED BY <2>3, <2>4, <2>5, <2>6 DEF MediaInv
  <1> QED BY <1>1, <1>2

LEMMA PopMedia ==
  ASSUME MediaType, MediaInv, PopConsumed("net")
  PROVE  MediaInv'
  <1>v. /\ at["net"] = "pop" /\ at'["net"] = "front" /\ at'["ui"] = at["ui"]
        /\ UNCHANGED <<consumer, fed, live, streamGen, waiting, arrived, resetting, pending, state, trusted,
                       unit, target>>
    BY DEF PopConsumed, Goto, MediaType, Threads, sessionVars, trustVars, queueVars, formatVars, flagVars, consVars, connVars, wdVars, outerVars, localVars
  <1>h. /\ consumer # NoConsumer /\ consumer \in Consumers
        /\ Arrived(unit["net"]) /\ Fits /\ fed[consumer].pts = unit["net"].pts
        /\ queue # <<>> => queue[1] = unit["net"]
    BY <1>v DEF MediaInv, HandInv, HandPlaces, UnitInv, FrontInv, Fitted, FitPlaces, MediaType
  <1>c. Chained(queue) /\ NewestInv
    BY <1>h DEF MediaInv
  <1>f. Fits'
    BY <1>v, <1>h DEF Fits
  <1>p. PlaceInv' /\ HandInv'
    BY <1>v DEF MediaInv, PlaceInv, ResetPlaces, HandInv, HandPlaces
  <1>1. CASE queue = <<>>
    <2>1. queue' = queue
      BY <1>1 DEF PopConsumed
    <2>2. UnitInv'
      BY <1>v, <1>f, <2>1 DEF MediaInv, UnitInv, Arrived, Belongs, HandPlaces
    <2>3. Chained(queue)' /\ FrontInv' /\ NewestInv'
      BY <1>1, <1>v, <1>c, <2>1 DEF Chained, Successor, FrontInv, NewestInv, Newest
    <2> QED BY <1>p, <2>2, <2>3 DEF MediaInv
  <1>2. CASE queue # <<>>
    <2>t. queue \in Seq(Units) /\ Len(queue) \in Nat /\ Len(queue) \in 1..Len(queue)
          /\ Head(queue) = queue[1]
      BY <1>2, HeadOfQueue DEF MediaType
    <2>1. queue' = Tail(queue)
      BY <1>2, <1>h, <2>t DEF PopConsumed
    <2>2. Len(queue') = Len(queue) - 1 /\ queue' \in Seq(Units)
          /\ \A i \in 1..Len(queue') : queue'[i] = queue[i + 1]
      BY <1>2, <2>1, <2>t, TailOfQueue
    <2>3. UnitInv'
      <3>1. \A i \in 1..Len(queue') : i + 1 \in 1..Len(queue)
        BY <2>2, <2>t
      <3>2. \A i \in 1..Len(queue) : Arrived(queue[i])
        BY DEF MediaInv, UnitInv
      <3>3. \A i \in 1..Len(queue') : Arrived(queue[i])'
        BY <1>v, <2>2, <3>1, <3>2 DEF Arrived, Belongs
      <3> QED BY <1>v, <1>f, <3>3 DEF UnitInv, HandPlaces
    <2>4. Chained(queue)'
      <3>1. ASSUME NEW i \in 1..Len(queue'), i > 1 PROVE Successor(queue'[i - 1], queue'[i])
        <4>1. /\ i + 1 \in 1..Len(queue) /\ i + 1 > 1 /\ i - 1 \in 1..Len(queue')
              /\ (i + 1) - 1 = i /\ (i - 1) + 1 = i
          BY <3>1, <2>2, <2>t
        <4>2. Successor(queue[(i + 1) - 1], queue[i + 1])
          BY <4>1, <1>c DEF Chained
        <4>3. queue'[i] = queue[i + 1] /\ queue'[i - 1] = queue[(i - 1) + 1]
          BY <2>2, <4>1
        <4> QED BY <4>1, <4>2, <4>3
      <3> QED BY <3>1 DEF Chained, Successor
    <2>5. FrontInv'
      <3>1. CASE queue' = <<>>
        BY <1>v, <3>1 DEF FrontInv
      <3>2. CASE queue' # <<>>
        <4>1. 1 \in 1..Len(queue')
          BY <3>2, <2>2, HeadOfQueue
        <4>2. 2 \in 1..Len(queue) /\ queue'[1] = queue[2]
          BY <4>1, <2>2, <2>t
        <4>3. Successor(queue[1], queue[2])
          BY <4>2, <1>c DEF Chained
        <4>4. fed[consumer].pts = queue[1].pts /\ fed[consumer].pts \in Nat /\ fed[consumer].pts # 0
          BY <1>h, <1>2 DEF Arrived, MediaType, Feeds
        <4>5. queue[2] \in Units
          BY <4>2, <2>t
        <4>6. Follows(queue[2])
          BY <4>3, <4>4, <4>5 DEF Follows, Successor, Units
        <4> QED BY <1>v, <4>2, <4>6 DEF FrontInv, Follows
      <3> QED BY <3>1, <3>2
    <2>6. NewestInv'
      <3>1. Newest' = Newest
        <4>1. CASE queue' = <<>>
          <5>1. Len(queue) = 1
            BY <4>1, <2>2, <2>t
          <5> QED BY <4>1, <5>1, <1>2, <1>h, <1>v DEF Newest
        <4>2. CASE queue' # <<>>
          <5>1. Len(queue') \in 1..Len(queue') /\ Len(queue') + 1 = Len(queue)
            BY <4>2, <2>2, <2>t, HeadOfQueue
          <5>2. queue'[Len(queue')] = queue[Len(queue)]
            BY <5>1, <2>2
          <5> QED BY <4>2, <5>2, <1>2 DEF Newest
        <4> QED BY <4>1, <4>2
      <3> QED BY <3>1, <1>v, <1>c DEF NewestInv
    <2> QED BY <1>p, <2>3, <2>4, <2>5, <2>6 DEF MediaInv
  <1> QED BY <1>1, <1>2

LEMMA ResetMedia ==
  ASSUME MediaType, QueueInv, MediaInv, ResetConsumer("net")
  PROVE  MediaInv'
  <1>v. /\ at["net"] = "reset" /\ at'["net"] = "resetDone" /\ at'["ui"] = at["ui"]
        /\ UNCHANGED <<consumer, live, streamGen, queue, waiting, arrived, resetting, pending, state, trusted,
                       unit, target>>
    BY DEF ResetConsumer, Goto, MediaType, Threads, sessionVars, trustVars, queueVars, formatVars, flagVars, consVars, connVars, wdVars, outerVars, localVars
  <1>w. waiting /\ queue = <<>> /\ Len(queue) = 0 /\ Belongs(unit["net"])
    BY <1>v DEF MediaInv, PlaceInv, ResetPlaces, QueueInv, UnitInv
  <1>1. consumer # NoConsumer =>
          fed'[consumer] = [conn |-> unit["net"].conn, gen |-> unit["net"].gen, pts |-> 0]
    BY DEF ResetConsumer, MediaType
  <1>2. consumer # NoConsumer => Fits'
    BY <1>v, <1>w, <1>1 DEF Fits, Belongs, MediaType
  <1>3. PlaceInv' /\ UnitInv'
    BY <1>v, <1>w, <1>2 DEF MediaInv, PlaceInv, ResetPlaces, UnitInv, HandPlaces
  <1>4. HandInv' /\ Chained(queue)' /\ FrontInv' /\ NewestInv'
    BY <1>v, <1>w DEF HandInv, HandPlaces, Chained, FrontInv, NewestInv
  <1> QED BY <1>3, <1>4 DEF MediaInv

LEMMA ResetDoneMedia ==
  ASSUME TypeOK, QueueInv, MediaInv, ResetDone("net")
  PROVE  MediaInv'
  <1>v. /\ at["net"] = "resetDone" /\ at'["net"] = then["net"] /\ at'["ui"] = at["ui"] /\ resetting' = FALSE
        /\ UNCHANGED <<consumer, fed, live, streamGen, queue, waiting, arrived, pending, state, trusted>>
    BY DEF ResetDone, Goto, TypeOK, Threads, sessionVars, trustVars, queueVars, formatVars, flagVars, consVars, connVars, wdVars, outerVars, localVars
  <1>w. waiting /\ queue = <<>> /\ Len(queue) = 0
    BY <1>v DEF MediaInv, PlaceInv, ResetPlaces, QueueInv
  <1>1. at'["net"] \notin {"reset", "resetDone", "consume", "consuming", "pop", "busy", "enqueue", "invalid"}
    BY <1>v DEF TypeOK, Threads
  <1>2. consumer # NoConsumer => Fits'
    BY <1>v DEF MediaInv, UnitInv, Fitted, FitPlaces, Fits
  <1>3. PlaceInv' /\ UnitInv'
    BY <1>v, <1>w, <1>1, <1>2 DEF MediaInv, PlaceInv, ResetPlaces, UnitInv, HandPlaces
  <1>4. HandInv' /\ Chained(queue)' /\ FrontInv' /\ NewestInv'
    BY <1>v, <1>w, <1>1 DEF HandInv, HandPlaces, Chained, FrontInv, NewestInv
  <1> QED BY <1>3, <1>4 DEF MediaInv

LEMMA NextMedia ==
  ASSUME SwapConsumers = {}, TypeOK, ScopeInv, TrustInv, QueueInv, MediaInv, [Next]_vars
  PROVE  MediaInv'
  <1>m. MediaType
    BY MediaTyped
  <1>a. /\ at \in [Threads -> NetPlaces \cup DrainPlaces \cup ResetPlaces \cup UiPlaces]
        /\ then \in [Threads -> {"check", "idle", "askOrFail", "sendChallenge", "sendReady", "drain"}]
        /\ at["ui"] = "idle"
    BY DEF TypeOK, MediaInv, PlaceInv
  <1>p. ASSUME PlainMove PROVE MediaInv'
    BY <1>p, PlainKeeps
  <1>f. ASSUME Flush PROVE MediaInv'
    BY <1>f, FlushKeeps
  <1> USE DEF Threads, Goto, MediaKept, sessionVars, trustVars, queueVars, formatVars, flagVars, consVars, connVars, wdVars, outerVars, localVars
  <1>1. ASSUME CheckValid PROVE PlainMove
    BY <1>1, <1>a DEF PlainMove, Special, ResetPlaces, HandPlaces, CheckValid
  <1>2. ASSUME RequestStop \/ DropProtector PROVE PlainMove
    BY <1>2, <1>a DEF PlainMove, Special, ResetPlaces, HandPlaces, RequestStop, DropProtector
  <1>3. ASSUME ProtocolFailure PROVE PlainMove
    BY <1>3, <1>a DEF PlainMove, Special, ResetPlaces, HandPlaces, ProtocolFailure
  <1>4. ASSUME CloseConnection PROVE PlainMove
    BY <1>4, <1>a DEF PlainMove, Special, ResetPlaces, HandPlaces, CloseConnection
  <1>5. ASSUME Telemetry PROVE PlainMove
    BY <1>5, <1>a DEF PlainMove, Special, ResetPlaces, HandPlaces, Telemetry, Touch
  <1>6. ASSUME NEW ok \in SendResults, AskOrFail(ok) PROVE PlainMove
    BY <1>6, <1>a DEF PlainMove, Special, ResetPlaces, HandPlaces, AskOrFail
  <1>7. ASSUME HelloRefused PROVE PlainMove
    BY <1>7, <1>a DEF PlainMove, Special, ResetPlaces, HandPlaces, HelloRefused, Moves
  <1>8. ASSUME NEW proof \in BOOLEAN, HandleAuthResponse(proof) PROVE PlainMove
    BY <1>8, <1>a DEF PlainMove, Special, ResetPlaces, HandPlaces, HandleAuthResponse, Moves
  <1>9. ASSUME InstallProtector PROVE PlainMove
    BY <1>9, <1>a DEF PlainMove, Special, ResetPlaces, HandPlaces, InstallProtector
  <1>10. ASSUME NEW ok \in SendResults, AskKeyframe(ok) PROVE PlainMove
    BY <1>10, <1>a DEF PlainMove, Special, ResetPlaces, HandPlaces, AskKeyframe
  <1>11. ASSUME AwaitKeyframe PROVE PlainMove
    BY <1>11, <1>a DEF PlainMove, Special, ResetPlaces, HandPlaces, AwaitKeyframe, Moves
  <1>12. ASSUME ReceiveEnds PROVE PlainMove
    BY <1>12, <1>a DEF PlainMove, Special, ResetPlaces, HandPlaces, ReceiveEnds, Moves
  <1>13. ASSUME RejectFrame PROVE PlainMove
    BY <1>13, <1>a DEF PlainMove, Special, ResetPlaces, HandPlaces, RejectFrame, Moves
  <1>14. ASSUME IgnoreFrame PROVE PlainMove
    BY <1>14, <1>a DEF PlainMove, Special, ResetPlaces, HandPlaces, IgnoreFrame, Moves
  <1>15. ASSUME NEW type \in Types, HandleControl(type) PROVE PlainMove
    BY <1>15, <1>a DEF PlainMove, Special, ResetPlaces, HandPlaces, HandleControl, Moves, Types
  <1>16. ASSUME BeginDrain("net") PROVE PlainMove
    BY <1>16, <1>a DEF PlainMove, Special, ResetPlaces, HandPlaces, BeginDrain, Home
  <1>17. ASSUME StopDrain("net") PROVE PlainMove
    BY <1>17, <1>a DEF PlainMove, Special, ResetPlaces, HandPlaces, StopDrain, Home
  <1>18. ASSUME NEW step \in HandshakeSteps, NEW ok \in SendResults, SendHandshake(step, ok) PROVE PlainMove
    BY <1>18, <1>a DEF PlainMove, Special, ResetPlaces, HandPlaces, SendHandshake, HandshakeSteps
  <1>19. ASSUME NEW trusts \in BOOLEAN, NEW challenge \in BOOLEAN, HandleHello(trusts, challenge) PROVE PlainMove
    BY <1>19, <1>a DEF PlainMove, Special, ResetPlaces, HandPlaces, HandleHello, TrustInv, BeforeTrust, MediaInv, PlaceInv
  <1>20. ASSUME GrantTrust PROVE PlainMove
    BY <1>20, <1>a DEF PlainMove, Special, ResetPlaces, HandPlaces, GrantTrust, TrustInv, BeforeTrust, MediaInv, PlaceInv, Touch
  <1>21. ASSUME StreamStart PROVE MediaInv'
    <2>1. CASE state = "Ready" /\ pending = 0 /\ ~resetting
      <3>1. waiting /\ queue = <<>>
        BY <2>1 DEF MediaInv, PlaceInv, QueueInv
      <3>2. /\ at'["net"] = "reset" /\ at'["ui"] = "idle" /\ resetting' = TRUE
            /\ UNCHANGED <<queue, waiting, live, streamGen>>
            /\ unit'["net"] = Carrying(live, streamGen)
        BY <1>21, <2>1, <1>a, <1>m DEF StreamStart, MediaType
      <3>3. Belongs(unit["net"])'
        BY <3>2 DEF Belongs, Carrying
      <3> QED BY <3>1, <3>2, <3>3, EmptyKeeps
    <2>2. CASE ~(state = "Ready" /\ pending = 0 /\ ~resetting)
      <3>1. PlainMove
        BY <1>21, <2>2, <1>a DEF PlainMove, Special, ResetPlaces, HandPlaces, StreamStart
      <3> QED BY <3>1, <1>p
    <2> QED BY <2>1, <2>2
  <1>22. ASSUME NEW g \in 1..MaxGeneration, FormatAck(g) PROVE MediaInv'
    <2>1. CASE Answers(g)
      <3>1. /\ at'["net"] = "reset" /\ at'["ui"] = "idle" /\ resetting' = TRUE
            /\ queue' = <<>> /\ waiting' = TRUE /\ live' = live /\ streamGen' = g
            /\ unit'["net"] = Carrying(live, g)
        BY <1>22, <2>1, <1>a, <1>m DEF FormatAck, ResetQueue, MediaType
      <3>2. Belongs(unit["net"])'
        BY <3>1 DEF Belongs, Carrying
      <3> QED BY <3>1, <3>2, EmptyKeeps
    <2>2. CASE ~Answers(g)
      <3>1. PlainMove
        BY <1>22, <2>2, <1>a DEF PlainMove, Special, ResetPlaces, HandPlaces, FormatAck
      <3> QED BY <3>1, <1>p
    <2> QED BY <2>1, <2>2
  <1>23. ASSUME NEW g \in 1..MaxGeneration, FormatReject(g) PROVE MediaInv'
    <2>1. CASE Answers(g)
      <3>1. Flush
        BY <1>23, <2>1, <1>a DEF Flush, Special, ResetPlaces, HandPlaces, FormatReject, ResetQueue
      <3> QED BY <3>1, <1>f
    <2>2. CASE ~Answers(g)
      <3>1. PlainMove
        BY <1>23, <2>2, <1>a DEF PlainMove, Special, ResetPlaces, HandPlaces, FormatReject
      <3> QED BY <3>1, <1>p
    <2> QED BY <2>1, <2>2
  <1>24. ASSUME InvalidVideo PROVE Flush
    BY <1>24, <1>a DEF Flush, Special, ResetPlaces, HandPlaces, InvalidVideo, ResetQueue
  <1>25. ASSUME NEW ok \in SendResults, SendFormat(ok) PROVE Flush
    BY <1>25, <1>a DEF Flush, NetKept, SendFormat, ResetQueue
  <1>26. ASSUME NEW configValid \in BOOLEAN, OnConnected(configValid) PROVE MediaInv'
    <2>1. /\ queue' = <<>> /\ waiting' = TRUE /\ at'["ui"] = "idle" /\ state' # "Streaming"
          /\ resetting' = FALSE /\ at'["net"] \in {"check", "close"}
      BY <1>26, <1>a DEF OnConnected, ResetQueue
    <2>2. at'["net"] \notin Special
      BY <2>1 DEF Special, ResetPlaces, HandPlaces
    <2> QED BY <2>1, <2>2, EmptyKeeps
  <1>27. ASSUME OnDisconnected PROVE MediaInv'
    <2>1. /\ queue' = <<>> /\ waiting' = TRUE /\ at'["ui"] = "idle" /\ state' # "Streaming"
          /\ resetting' = FALSE /\ at'["net"] = "none"
      BY <1>27, <1>a DEF OnDisconnected, ResetQueue
    <2>2. at'["net"] \notin Special
      BY <2>1 DEF Special, ResetPlaces, HandPlaces
    <2> QED BY <2>1, <2>2, EmptyKeeps
  <1>28. ASSUME NEW key \in BOOLEAN, NEW wellFormed \in BOOLEAN, HandleVideo(key, wellFormed) PROVE MediaInv'
    BY <1>28, <1>m, VideoMedia
  <1>29. ASSUME NEW big \in BOOLEAN, Enqueue(big) PROVE MediaInv'
    <2>1. nextToken \in Nat
      BY DEF TypeOK
    <2> QED BY <1>29, <2>1, <1>m, EnqueueMedia
  <1>30. ASSUME TakeFront("net") \/ BeginConsume("net") \/ PopConsumed("net") PROVE MediaInv'
    BY <1>30, <1>m, TakeMedia, ConsumeMedia, PopMedia
  <1>31. ASSUME NEW consumed \in BOOLEAN, EndConsume("net", consumed) PROVE MediaInv'
    BY <1>31, <1>m, ConsumedMedia
  <1>32. ASSUME ResetConsumer("net") \/ ResetDone("net") PROVE MediaInv'
    BY <1>32, <1>m, ResetMedia, ResetDoneMedia
  <1>33. ASSUME Delivery("ui") PROVE FALSE
    BY <1>33, <1>a DEF Delivery, BeginDrain, TakeFront, BeginConsume, EndConsume, StopDrain, PopConsumed,
       ResetConsumer, ResetDone
  <1>34. ASSUME Watchdog \/ SendCommand \/ (\E s \in Stamps : Elapse(s)) \/ UNCHANGED vars PROVE MediaInv'
    <2>1. /\ MediaKept /\ NetKept /\ at'["ui"] = at["ui"] /\ trusted' = trusted
          /\ state' = state \/ state' = "Failed"
      BY <1>34 DEF Watchdog, WatchdogLoop, WatchdogCheck, WatchdogClose, SendCommand, Elapse, vars, NetKept
    <2> QED BY <2>1, OtherThread
  <1>c. CASE NetHandler \/ Receive
    <2>1. CASE NetHandler
      BY <2>1, <1>p, <1>f, <1>1, <1>2, <1>3, <1>4, <1>5, <1>6, <1>7, <1>8, <1>9, <1>10, <1>11, <1>18, <1>19,
         <1>20, <1>21, <1>22, <1>23, <1>24, <1>27, <1>29
      DEF NetHandler
    <2>2. CASE Receive
      BY <2>2, <1>p, <1>12, <1>13, <1>14, <1>15, <1>28 DEF Receive
    <2> QED BY <1>c, <2>1, <2>2
  <1>d. CASE Delivery("net")
    BY <1>d, <1>p, <1>16, <1>17, <1>30, <1>31, <1>32
    DEF Delivery
  <1>e. CASE Owner
    BY <1>e, <1>f, <1>25, <1>34 DEF Owner
  <1> QED
    BY <1>c, <1>d, <1>e, <1>26, <1>33, <1>34 DEF Next

LEMMA InitMedia == Init => MediaInv
  <1> SUFFICES ASSUME Init PROVE MediaInv
    OBVIOUS
  <1>1. at["net"] = "none" /\ at["ui"] = "idle" /\ queue = <<>> /\ Len(queue) = 0 /\ waiting /\ ~resetting
        /\ state = "Disconnected"
    BY DEF Init, Threads
  <1> QED BY <1>1 DEF MediaInv, PlaceInv, UnitInv, Fitted, FitPlaces, HandInv, HandPlaces, ResetPlaces,
               Chained, FrontInv, NewestInv

LEMMA MediaInvariant ==
  ASSUME SwapConsumers = {}
  PROVE  Spec => [](SessionInv /\ MediaInv)
  <1>1. Init => MediaInv
    BY InitMedia
  <1>2. SessionInv /\ MediaInv /\ [Next]_vars => MediaInv'
    BY NextMedia DEF SessionInv
  <1> QED BY <1>1, <1>2, SessionInvariant, PTL DEF Spec

(* As long as no consumer is exchanged mid-session (nothing in the program   *)
(* calls setConsumer after start), for any queue depth, any number of        *)
(* connections and format changes: a decoder is only handed units of the     *)
(* connection and the format generation it was last reset for.               *)
THEOREM DecoderFits ==
  ASSUME SwapConsumers = {}
  PROVE  Spec => []DecoderGeneration
  <1>1. MediaInv => DecoderGeneration
    <2> SUFFICES ASSUME MediaInv, NEW t \in Threads, at[t] = "consuming"
                 PROVE  fed[target[t]].conn = unit[t].conn /\ fed[target[t]].gen = unit[t].gen
      BY DEF DecoderGeneration
    <2>1. t = "net"
      BY DEF MediaInv, PlaceInv, Threads
    <2>2. Arrived(unit["net"]) /\ consumer # NoConsumer /\ target["net"] = consumer /\ Fits
      BY <2>1 DEF MediaInv, UnitInv, HandInv, HandPlaces, Fitted, FitPlaces
    <2> QED BY <2>1, <2>2 DEF Arrived, Belongs, Fits
  <1> QED BY <1>1, MediaInvariant, PTL

(* Under the same assumption what a decoder is fed is decodable: in arrival  *)
(* order, each unit once, and a unit that is not a keyframe right after the  *)
(* one it refers to, whatever overflow, busy decoder, reset or format change *)
(* came in between.                                                          *)
THEOREM DeliveryDecodable ==
  ASSUME SwapConsumers = {}
  PROVE  Spec => []DecodableDelivery
  <1>1. MediaInv => DecodableDelivery
    <2> SUFFICES ASSUME MediaInv, NEW t \in Threads, at[t] = "consuming"
                 PROVE  /\ unit[t].pts > fed[target[t]].pts
                        /\ unit[t].key \/ (fed[target[t]].pts # 0 /\ unit[t].pts = fed[target[t]].pts + 1)
      BY DEF DecodableDelivery
    <2>1. t = "net"
      BY DEF MediaInv, PlaceInv, Threads
    <2>2. target["net"] = consumer /\ Follows(unit["net"])
      BY <2>1 DEF MediaInv, HandInv, HandPlaces, FrontInv
    <2> QED BY <2>1, <2>2 DEF Follows
  <1> QED BY <1>1, MediaInvariant, PTL

-----------------------------------------------------------------------------
(* Tokens name units: nobody holds or queues two units under one token.  On *)
(* one connection this holds even while consumers are exchanged.            *)
SameToken(u, v) == u.token = v.token => u = v
TokenInv ==
    /\ \A i \in 1..Len(queue) : queue[i].token < nextToken
    /\ \A i, j \in 1..Len(queue) : SameToken(queue[i], queue[j])
    /\ \A t \in Threads :
         at[t] \in HandPlaces => /\ unit[t].token < nextToken
                                 /\ \A i \in 1..Len(queue) : SameToken(queue[i], unit[t])
    /\ connections = 0 => /\ at["net"] = "none" /\ queue = <<>>
                          /\ \A t \in Threads : at[t] \notin HandPlaces

(* A step that neither accepts a unit nor takes one in hand *)
Quiet ==
    /\ queue' = queue \/ queue' = <<>>
    /\ nextToken' = nextToken /\ connections' = connections
    /\ at["net"] = "none" => at'["net"] = "none"
    /\ \A t \in Threads :
         at'[t] \in HandPlaces => at[t] \in HandPlaces /\ unit'[t] = unit[t]

LEMMA QuietKeeps ==
  ASSUME TokenInv, Quiet
  PROVE  TokenInv'
  <1>1. CASE queue' = queue
    BY <1>1 DEF TokenInv, Quiet
  <1>2. CASE queue' = <<>>
    <2>1. Len(queue') = 0
      BY <1>2
    <2> QED BY <1>2, <2>1 DEF TokenInv, Quiet
  <1> QED BY <1>1, <1>2 DEF Quiet

LEMMA EnqueueTokens ==
  ASSUME TypeOK, TokenInv, NEW big \in BOOLEAN, Enqueue(big)
  PROVE  TokenInv'
  <1>a. queue \in Seq(Units) /\ unit \in [Threads -> Units] /\ nextToken \in Nat
        /\ at \in [Threads -> NetPlaces \cup DrainPlaces \cup ResetPlaces \cup UiPlaces]
    BY DEF TypeOK
  <1>v. /\ unit' = unit /\ connections' = connections /\ at["net"] = "enqueue"
        /\ at'["net"] \in {"ask", "drain"} /\ at'["ui"] = at["ui"]
    BY <1>a DEF Enqueue, Goto, Threads, localVars, outerVars, connVars
  <1>h. \A t \in Threads : at'[t] \in HandPlaces => at[t] \in HandPlaces
    BY <1>v DEF HandPlaces, Threads
  <1>1. CASE queue' = <<>>
    <2>1. nextToken' = nextToken
      <3>1. [unit["net"] EXCEPT !.token = nextToken] \in Units
        BY <1>a, TokenType DEF Threads
      <3>2. Append(queue, [unit["net"] EXCEPT !.token = nextToken]) # <<>>
        BY <1>a, <3>1, AppendToQueue
      <3> QED BY <1>1, <3>2, Zenon DEF Enqueue
    <2> QED BY <1>1, <1>h, <1>v, <2>1, QuietKeeps DEF Quiet
  <1>2. CASE queue' # <<>>
    <2> DEFINE u == [unit["net"] EXCEPT !.token = nextToken]
    <2>1. queue' = Append(queue, u) /\ nextToken' = nextToken + 1
      BY <1>2, Zenon DEF Enqueue, ResetQueue
    <2>2. u \in Units /\ u.token = nextToken
      BY <1>a, TokenType DEF Units, Threads
    <2> HIDE DEF u
    <2>3. /\ Len(queue') = Len(queue) + 1
          /\ \A i \in 1..Len(queue) : queue'[i] = queue[i]
          /\ queue'[Len(queue) + 1] = u
      BY <1>a, <2>1, <2>2, AppendToQueue
    <2>4. \A i \in 1..Len(queue') : i \in 1..Len(queue) \/ i = Len(queue) + 1
      BY <1>a, <2>3
    <2>5. \A i \in 1..Len(queue) : queue[i].token \in Nat
      <3> TAKE i \in 1..Len(queue)
      <3>1. queue[i] \in Units
        BY <1>a
      <3> QED BY <3>1 DEF Units
    <2>6. \A t \in Threads : unit[t].token \in Nat
      BY <1>a DEF Units
    <2>7. \A i \in 1..Len(queue') : queue'[i].token < nextToken'
      BY <1>a, <2>1, <2>2, <2>3, <2>4, <2>5 DEF TokenInv
    <2>8. \A i, j \in 1..Len(queue') : SameToken(queue'[i], queue'[j])
      BY <1>a, <2>2, <2>3, <2>4, <2>5 DEF TokenInv, SameToken
    <2>9. \A t \in Threads :
            at'[t] \in HandPlaces => /\ unit'[t].token < nextToken'
                                     /\ \A i \in 1..Len(queue') : SameToken(queue'[i], unit'[t])
      BY <1>a, <1>h, <1>v, <2>1, <2>2, <2>3, <2>4, <2>6 DEF TokenInv, SameToken
    <2>10. connections # 0
      BY <1>v DEF TokenInv
    <2> QED BY <1>v, <2>7, <2>8, <2>9, <2>10 DEF TokenInv
  <1> QED BY <1>1, <1>2

LEMMA TakeTokens ==
  ASSUME TypeOK, TokenInv, NEW t \in Threads, TakeFront(t)
  PROVE  TokenInv'
  <1>a. queue \in Seq(Units) /\ unit \in [Threads -> Units]
        /\ at \in [Threads -> NetPlaces \cup DrainPlaces \cup ResetPlaces \cup UiPlaces]
    BY DEF TypeOK
  <1>v. /\ queue' = queue /\ nextToken' = nextToken /\ connections' = connections
        /\ at[t] = "front" /\ at'[t] \in {Home(t), "consume"} /\ \A s \in Threads \ {t} : at'[s] = at[s]
    BY <1>a DEF TakeFront, Goto, localVars, outerVars, connVars, queueVars
  <1>1. CASE at'[t] # "consume"
    <2>1. unit' = unit
      BY <1>1, <1>a DEF TakeFront, Goto
    <2>2. \A s \in Threads : at'[s] \in HandPlaces => at[s] \in HandPlaces
      BY <1>v, <1>1 DEF HandPlaces, Home
    <2> QED BY <1>v, <2>1, <2>2, QuietKeeps DEF Quiet, Threads
  <1>2. CASE at'[t] = "consume"
    <2>1. queue # <<>> /\ unit' = [unit EXCEPT ![t] = Head(queue)]
      BY <1>2, <1>a DEF TakeFront, Goto, Home, Threads
    <2>2. unit'[t] = queue[1] /\ 1 \in 1..Len(queue) /\ \A s \in Threads \ {t} : unit'[s] = unit[s]
      BY <1>a, <2>1, HeadOfQueue
    <2>3. \A s \in Threads :
            at'[s] \in HandPlaces => /\ unit'[s].token < nextToken'
                                     /\ \A i \in 1..Len(queue) : SameToken(queue[i], unit'[s])
      <3> TAKE s \in Threads
      <3> HAVE at'[s] \in HandPlaces
      <3>1. CASE s = t
        BY <3>1, <1>v, <2>2 DEF TokenInv
      <3>2. CASE s # t
        BY <3>2, <1>v, <2>2 DEF TokenInv
      <3> QED BY <3>1, <3>2
    <2>4. connections # 0
      BY <2>1 DEF TokenInv
    <2> QED BY <1>v, <2>3, <2>4 DEF TokenInv
  <1> QED BY <1>1, <1>2

LEMMA PopTokens ==
  ASSUME TypeOK, TokenInv, NEW t \in Threads, PopConsumed(t)
  PROVE  TokenInv'
  <1>a. queue \in Seq(Units)
        /\ at \in [Threads -> NetPlaces \cup DrainPlaces \cup ResetPlaces \cup UiPlaces]
    BY DEF TypeOK
  <1>v. /\ unit' = unit /\ nextToken' = nextToken /\ connections' = connections
        /\ at[t] = "pop" /\ at'[t] = "front" /\ \A s \in Threads \ {t} : at'[s] = at[s]
    BY <1>a DEF PopConsumed, Goto, localVars, outerVars, connVars, queueVars
  <1>h. \A s \in Threads : at'[s] \in HandPlaces => at[s] \in HandPlaces
    BY <1>v DEF HandPlaces
  <1>1. CASE queue' = queue
    BY <1>1, <1>v, <1>h, QuietKeeps DEF Quiet, Threads
  <1>2. CASE queue' # queue
    <2>1. queue # <<>> /\ queue' = Tail(queue)
      BY <1>2 DEF PopConsumed
    <2>2. Len(queue') = Len(queue) - 1 /\ \A i \in 1..Len(queue') : queue'[i] = queue[i + 1]
      BY <1>a, <2>1, TailOfQueue
    <2>3. \A i \in 1..Len(queue') : i + 1 \in 1..Len(queue)
      BY <1>a, <2>2
    <2>4. connections # 0
      BY <2>1 DEF TokenInv
    <2> QED BY <1>v, <1>h, <2>2, <2>3, <2>4 DEF TokenInv
  <1> QED BY <1>1, <1>2

LEMMA NextTokens ==
  ASSUME MaxConnections <= 1, TypeOK, TokenInv, [Next]_vars
  PROVE  TokenInv'
  <1>a. /\ at \in [Threads -> NetPlaces \cup DrainPlaces \cup ResetPlaces \cup UiPlaces]
        /\ then \in [Threads -> {"check", "idle", "askOrFail", "sendChallenge", "sendReady", "drain"}]
        /\ unit \in [Threads -> Units] /\ connections \in Nat
    BY DEF TypeOK
  <1>q. ASSUME Quiet PROVE TokenInv'
    BY <1>q, QuietKeeps
  <1> USE DEF Threads, Goto, Quiet, HandPlaces, ResetQueue, sessionVars, trustVars, queueVars, formatVars, flagVars, consVars, connVars, wdVars, outerVars, localVars
  <1>1. ASSUME CheckValid \/ RequestStop \/ DropProtector \/ OnDisconnected \/ ProtocolFailure \/ CloseConnection \/ Telemetry
        PROVE Quiet
    BY <1>1, <1>a DEF CheckValid, RequestStop, DropProtector, OnDisconnected, ProtocolFailure, CloseConnection, Telemetry
  <1>2. ASSUME StreamStart PROVE Quiet
    BY <1>2, <1>a DEF StreamStart
  <1>3. ASSUME NEW g \in 1..MaxGeneration, FormatAck(g) \/ FormatReject(g) PROVE Quiet
    BY <1>3, <1>a DEF FormatAck, FormatReject
  <1>4. ASSUME NEW ok \in SendResults, AskOrFail(ok) \/ AskKeyframe(ok) PROVE Quiet
    BY <1>4, <1>a DEF AskOrFail, AskKeyframe
  <1>5. ASSUME NEW trusts \in BOOLEAN, NEW challenge \in BOOLEAN, HandleHello(trusts, challenge) PROVE Quiet
    BY <1>5, <1>a DEF HandleHello
  <1>6. ASSUME NEW step \in HandshakeSteps, NEW ok \in SendResults, SendHandshake(step, ok) PROVE Quiet
    BY <1>6, <1>a DEF SendHandshake, HandshakeSteps
  <1>7. ASSUME NEW proof \in BOOLEAN, HandleAuthResponse(proof) PROVE Quiet
    BY <1>7, <1>a DEF HandleAuthResponse, Moves
  <1>8. ASSUME HelloRefused \/ InstallProtector \/ GrantTrust \/ InvalidVideo \/ AwaitKeyframe PROVE Quiet
    BY <1>8, <1>a DEF HelloRefused, InstallProtector, GrantTrust, InvalidVideo, AwaitKeyframe, Moves
  <1>9. ASSUME ReceiveEnds \/ RejectFrame \/ IgnoreFrame PROVE Quiet
    BY <1>9, <1>a DEF ReceiveEnds, RejectFrame, IgnoreFrame, Moves
  <1>10. ASSUME NEW type \in Types, HandleControl(type) PROVE Quiet
    BY <1>10, <1>a DEF HandleControl, Moves, Types
  <1>11. ASSUME NEW key \in BOOLEAN, NEW wellFormed \in BOOLEAN, HandleVideo(key, wellFormed) PROVE Quiet
    BY <1>11, <1>a DEF HandleVideo
  <1>12. ASSUME NEW t \in Threads, BeginDrain(t) \/ StopDrain(t) \/ ResetConsumer(t) \/ ResetDone(t) PROVE Quiet
    BY <1>12, <1>a DEF BeginDrain, StopDrain, ResetConsumer, ResetDone, Home
  <1>13. ASSUME NEW t \in Threads, BeginConsume(t) PROVE Quiet
    BY <1>13, <1>a DEF BeginConsume
  <1>14. ASSUME NEW t \in Threads, NEW consumed \in BOOLEAN, EndConsume(t, consumed) PROVE Quiet
    BY <1>14, <1>a DEF EndConsume
  <1>15. ASSUME SendCommand \/ Watchdog \/ (\E s \in Stamps : Elapse(s)) \/ UNCHANGED vars PROVE Quiet
    BY <1>15, <1>a DEF SendCommand, Watchdog, WatchdogLoop, WatchdogCheck, WatchdogClose, Elapse, vars
  <1>16. ASSUME NEW ok \in SendResults, SendFormat(ok) PROVE Quiet
    BY <1>16, <1>a DEF SendFormat
  <1>17. ASSUME NEW c \in SwapConsumers, SetConsumer(c) PROVE Quiet
    BY <1>17, <1>a DEF SetConsumer
  <1>18. ASSUME NEW configValid \in BOOLEAN, OnConnected(configValid) PROVE TokenInv'
    <2>1. connections = 0 /\ connections' = 1
      BY <1>18, <1>a, BoundsAssumption DEF OnConnected
    <2>2. /\ queue' = <<>> /\ Len(queue') = 0
          /\ \A t \in Threads : at'[t] \notin HandPlaces
      BY <1>18, <1>a, <2>1 DEF OnConnected, TokenInv
    <2> QED BY <2>1, <2>2 DEF TokenInv
  <1>c. CASE NetHandler
    BY <1>c, <1>q, <1>1, <1>2, <1>3, <1>4, <1>5, <1>6, <1>7, <1>8, EnqueueTokens DEF NetHandler
  <1>d. CASE Receive
    BY <1>d, <1>q, <1>9, <1>10, <1>11 DEF Receive
  <1>e. ASSUME NEW t \in Threads, Delivery(t) PROVE TokenInv'
    BY <1>e, <1>q, <1>12, <1>13, <1>14, TakeTokens, PopTokens DEF Delivery
  <1>f. CASE Owner
    BY <1>f, <1>q, <1>15, <1>16, <1>17 DEF Owner
  <1> QED BY <1>c, <1>d, <1>e, <1>f, <1>q, <1>15, <1>18 DEF Next

LEMMA TokenInvariant ==
  ASSUME MaxConnections <= 1
  PROVE  Spec => [](SessionInv /\ TokenInv)
  <1>1. Init => TokenInv
    <2> SUFFICES ASSUME Init PROVE TokenInv
      OBVIOUS
    <2>1. queue = <<>> /\ Len(queue) = 0 /\ at["net"] = "none" /\ at["ui"] = "idle"
      BY DEF Init, Threads
    <2> QED BY <2>1 DEF TokenInv, HandPlaces, Threads
  <1>2. SessionInv /\ TokenInv /\ [Next]_vars => TokenInv'
    BY NextTokens DEF SessionInv
  <1> QED BY <1>1, <1>2, SessionInvariant, PTL DEF Spec

(* Only drainQueue's last step takes a thread from "pop" to "front". *)
LEMMA OnlyPopLeaves ==
  ASSUME TypeOK, [Next]_vars, NEW t \in Threads, at[t] = "pop", at'[t] = "front"
  PROVE  PopConsumed(t)
  <1>a. /\ at \in [Threads -> NetPlaces \cup DrainPlaces \cup ResetPlaces \cup UiPlaces]
        /\ then \in [Threads -> {"check", "idle", "askOrFail", "sendChallenge", "sendReady", "drain"}]
    BY DEF TypeOK
  <1> USE DEF Threads, Goto, sessionVars, trustVars, queueVars, formatVars, flagVars, consVars, connVars, wdVars, outerVars, localVars
  <1>1. ASSUME NetHandler PROVE FALSE
    BY <1>1, <1>a DEF NetHandler, CheckValid, RequestStop, DropProtector, OnDisconnected, ProtocolFailure, CloseConnection, Telemetry,
       StreamStart, FormatAck, FormatReject, AskOrFail, AskKeyframe, HandleHello, HelloRefused, SendHandshake,
       HandshakeSteps, HandleAuthResponse, InstallProtector, GrantTrust, InvalidVideo, AwaitKeyframe, Enqueue, Moves
  <1>2. ASSUME Receive PROVE FALSE
    BY <1>2, <1>a DEF Receive, ReceiveEnds, RejectFrame, IgnoreFrame, HandleControl, HandleVideo, Moves, Types
  <1>3. ASSUME Owner PROVE FALSE
    BY <1>3, <1>a DEF Owner, SendCommand, SendFormat, SetConsumer
  <1>4. ASSUME Watchdog \/ (\E s \in Stamps : Elapse(s)) \/ UNCHANGED vars PROVE FALSE
    BY <1>4, <1>a DEF Watchdog, WatchdogLoop, WatchdogCheck, WatchdogClose, Elapse, vars
  <1>5. ASSUME NEW configValid \in BOOLEAN, OnConnected(configValid) PROVE FALSE
    BY <1>5, <1>a DEF OnConnected
  <1>6. ASSUME NEW s \in Threads, Delivery(s), s # t PROVE FALSE
    BY <1>6, <1>a DEF Delivery, BeginDrain, TakeFront, BeginConsume, EndConsume, StopDrain, PopConsumed,
       ResetConsumer, ResetDone
  <1>7. ASSUME Delivery(t) PROVE PopConsumed(t)
    BY <1>7, <1>a DEF Delivery, BeginDrain, TakeFront, BeginConsume, EndConsume, StopDrain,
       ResetConsumer, ResetDone
  <1> QED BY <1>1, <1>2, <1>3, <1>4, <1>5, <1>6, <1>7 DEF Next

(* drainQueue removes exactly the unit it consumed, whoever flushed or       *)
(* refilled the queue meanwhile.  Two arguments carry it: without an         *)
(* exchange of consumers the unit in hand is the front of the queue; with    *)
(* exchanges, one connection never gives a token out twice.                  *)
THEOREM PopsAreExact ==
  ASSUME MaxConnections <= 1 \/ SwapConsumers = {}
  PROVE  Spec => PopsOnlyConsumed
  <1> DEFINE Exact == \A t \in Threads : at[t] = "pop" /\ at'[t] = "front" /\ queue' # queue
                                            => Head(queue) = unit[t]
  <1>p. ASSUME TypeOK, [Next]_vars, NEW t \in Threads, at[t] = "pop", at'[t] = "front", queue' # queue
        PROVE  queue # <<>> /\ Head(queue) = queue[1] /\ 1 \in 1..Len(queue) /\ Head(queue).token = unit[t].token
    <2>1. queue # <<>> /\ Head(queue).token = unit[t].token
      BY <1>p, OnlyPopLeaves DEF PopConsumed
    <2> QED BY <1>p, <2>1, HeadOfQueue DEF TypeOK
  <1>1. CASE SwapConsumers = {}
    <2>1. SessionInv /\ MediaInv /\ [Next]_vars => [Exact]_vars
      <3> SUFFICES ASSUME SessionInv, MediaInv, [Next]_vars, NEW t \in Threads,
                          at[t] = "pop", at'[t] = "front", queue' # queue
                   PROVE  Head(queue) = unit[t]
        OBVIOUS
      <3>1. queue # <<>> /\ Head(queue) = queue[1]
        BY <1>p DEF SessionInv
      <3>2. t = "net"
        BY DEF MediaInv, PlaceInv, Threads
      <3> QED BY <3>1, <3>2 DEF MediaInv, HandInv, HandPlaces
    <2> QED BY <1>1, <2>1, MediaInvariant, PTL DEF Spec, PopsOnlyConsumed
  <1>2. CASE MaxConnections <= 1
    <2>1. SessionInv /\ TokenInv /\ [Next]_vars => [Exact]_vars
      <3> SUFFICES ASSUME SessionInv, TokenInv, [Next]_vars, NEW t \in Threads,
                          at[t] = "pop", at'[t] = "front", queue' # queue
                   PROVE  Head(queue) = unit[t]
        OBVIOUS
      <3>1. Head(queue) = queue[1] /\ 1 \in 1..Len(queue) /\ Head(queue).token = unit[t].token
        BY <1>p DEF SessionInv
      <3> QED BY <3>1 DEF TokenInv, SameToken, HandPlaces
    <2> QED BY <1>2, <2>1, TokenInvariant, PTL DEF Spec, PopsOnlyConsumed
  <1> QED BY <1>1, <1>2

=============================================================================
