--------------------------- MODULE VirtualCameraProofs ---------------------------
(***************************************************************************)
(* Proofs about VirtualCamera, for every set of formats, every cap of the  *)
(* request queue and every number of calls and requests: FrameSource has   *)
(* one user at a time, a sample has the stream's geometry and its ring was *)
(* asked for it, a consumer hears of the stream first, and requests are    *)
(* answered in their order.                                                *)
(*                                                                         *)
(* The argument is about lifecycleMutex_.  It is held in exactly the       *)
(* places of HoldPlaces (LockInv), and under it a caller that is past its  *)
(* join finds no frame thread (JoinInv).  A frame thread that lives runs,  *)
(* or is waited for by the Stop that holds the lock (JoinInv), so that     *)
(* Configure, which lets a running stream keep its format only, can never  *)
(* change the format under a frame thread (FormatInv).                     *)
(***************************************************************************)
EXTENDS VirtualCamera, TLAPS

HoldPlaces == {"setType", "startJoin", "openFrames", "run", "spawn", "stopJoin",
               "closeFrames", "stopClear"}
Joined == {"openFrames", "run", "spawn", "closeFrames", "stopClear"}
Alive == {"begin", "tick", "fill", "queue", "ending"}

StreamPlaces == {"idle", "start", "startJoin", "openFrames", "run", "spawn", "stop",
                 "stopJoin", "closeFrames", "stopClear"}
ShutdownPlaces == {"idle", "stop", "stopJoin", "closeFrames", "stopClear", "mark",
                   "closeQueue", "done"}

(* Where each caller can be, and that lifecycleMutex_ is held in HoldPlaces. *)
LockInv ==
    /\ pc["stream"] \in StreamPlaces /\ pc["shutdown"] \in ShutdownPlaces
    /\ pc["source"] \notin {"mark", "closeQueue", "done"}
    /\ \A c \in Callers : pc[c] \in HoldPlaces <=> lifecycle = c

(* Past the join there is no frame thread and, up to StartRun, the stream   *)
(* does not run; a frame thread is spawned into a stream that runs, and one *)
(* that lives runs, or Stop waits for it.                                   *)
JoinInv ==
    /\ \A c \in Callers : pc[c] \in Joined => worker = "none"
    /\ \A c \in Callers : pc[c] \in {"stopJoin", "startJoin"} => ~running
    /\ \A c \in Callers : pc[c] = "spawn" => running
    /\ worker \in Alive => running \/ \E c \in Callers : pc[c] = "stopJoin"

(* Configure's check still holds when it sets the type, and the frame thread *)
(* works in the stream's format.                                             *)
FormatInv ==
    /\ pc["source"] \in {"configure", "setType"} => want \in Formats
    /\ pc["source"] = "setType" /\ running => format = want
    /\ worker \in {"tick", "fill", "queue"} => fmt = format

(* FrameSource remembers a geometry only while the ring's generation has it. *)
RingInv == cache = NoFormat \/ request = cache

Announcing == {"streamEvent", "start", "startJoin", "openFrames", "run", "spawn",
               "startedEvent"}
Starting == Announcing \cup {"configure", "setType", "newStream", "failed"}

(* What started_ and the local copy of it say about MENewStream. *)
AnnounceInv ==
    /\ was => announced
    /\ pc["source"] \in Announcing => announced
    /\ pc["source"] \notin Starting /\ ~sourceShut /\ started => announced
    /\ NewStreamFirst

(* The pending requests rise, above a bound and up to another. *)
Between(q, low, high) ==
    /\ \A i \in 1..Len(q) : low < q[i] /\ q[i] <= high
    /\ \A i \in 1..Len(q) : \A j \in 1..Len(q) : i < j => q[i] < q[j]

(* Every pending request is younger than the last sample and than the one   *)
(* the frame thread holds.                                                  *)
OrderInv ==
    /\ sample.id <= requested /\ held <= requested
    /\ Between(tokens, sample.id, requested)
    /\ worker = "fill" => sample.id < held /\ Between(tokens, held, requested)

(* TypeOK in parts: flags, the callers, the queue and the rest. *)
FlagType ==
    /\ sourceShut \in BOOLEAN /\ started \in BOOLEAN /\ was \in BOOLEAN
    /\ announced \in BOOLEAN /\ shut \in BOOLEAN /\ running \in BOOLEAN
    /\ stopEvent \in BOOLEAN /\ ring \in BOOLEAN
CallType ==
    /\ pc \in [Callers -> Places] /\ calls \in [Callers -> Nat]
    /\ want \in SomeFormat /\ lifecycle \in Callers \cup {Free}
QueueType == tokens \in Seq(Requests) /\ Len(tokens) <= Cap
DataType ==
    /\ event \in Events /\ format \in Formats
    /\ worker \in {"none", "begin", "tick", "fill", "queue", "ending", "ended"}
    /\ fmt \in SomeFormat /\ held \in Requests \cup {0}
    /\ request \in SomeFormat /\ cache \in SomeFormat
    /\ requested \in Requests \cup {0} /\ sample \in Samples

IInv ==
    /\ FlagType /\ CallType /\ QueueType /\ DataType
    /\ LockInv /\ JoinInv /\ FormatInv /\ GeometryInv /\ RingInv /\ AnnounceInv /\ OrderInv

LEMMA TypeParts == TypeOK <=> FlagType /\ CallType /\ QueueType /\ DataType
  BY DEF TypeOK, FlagType, CallType, QueueType, DataType

LEMMA InitInv == Init => IInv
  <1> SUFFICES ASSUME Init PROVE IInv
    OBVIOUS
  <1> USE DEF Init, Callers, NoSample, Free
  <1>1. FlagType
    BY DEF FlagType
  <1>2. CallType
    BY DEF CallType, Places, SomeFormat
  <1>3. QueueType
    BY CapAssumption DEF QueueType
  <1>4. DataType
    BY DEF DataType, Events, SomeFormat, Samples
  <1>5. LockInv /\ JoinInv
    BY DEF LockInv, JoinInv, StreamPlaces, ShutdownPlaces, HoldPlaces, Joined, Alive
  <1>6. FormatInv /\ GeometryInv /\ RingInv /\ AnnounceInv
    BY DEF FormatInv, GeometryInv, SampleGeometry, GeometryRequested, RingInv, AnnounceInv,
           NewStreamFirst, Announcing
  <1>7. OrderInv
    BY DEF OrderInv, Between
  <1> QED BY <1>1, <1>2, <1>3, <1>4, <1>5, <1>6, <1>7 DEF IInv

-----------------------------------------------------------------------------
(* Rising queues *)
LEMMA EmptyBetween == \A low, high : Between(<<>>, low, high)
  BY DEF Between

LEMMA AppendBetween ==
  ASSUME NEW q \in Seq(Requests), NEW low \in Nat, NEW high \in Nat, NEW r \in Requests,
         Between(q, low, high), low <= high, high < r
  PROVE  Append(q, r) \in Seq(Requests) /\ Between(Append(q, r), low, r)
  <1>1. PICK n \in Nat : n = Len(q)
    OBVIOUS
  <1>2. \A i \in 1..n : q[i] \in Nat
    <2>1. \A i \in 1..n : q[i] \in Requests
      BY <1>1
    <2> QED BY <2>1, BoundsAssumption DEF Requests
  <1>3. PICK new : new = Append(q, r)
    OBVIOUS
  <1>4. /\ new \in Seq(Requests) /\ Len(new) = n + 1 /\ new[n + 1] = r
        /\ \A i \in 1..n : new[i] = q[i]
    BY <1>1, <1>3
  <1>5. \A i \in 1..n : low < q[i] /\ q[i] <= high
    BY <1>1 DEF Between
  <1>6. \A i \in 1..n : \A j \in 1..n : i < j => q[i] < q[j]
    BY <1>1 DEF Between
  <1>7. \A i \in 1..n + 1 : i \in 1..n \/ i = n + 1
    OBVIOUS
  <1>8. \A i \in 1..n + 1 : low < new[i] /\ new[i] <= r
    BY <1>2, <1>4, <1>5, <1>7 DEF Requests
  <1>9. ASSUME NEW i \in 1..n + 1, NEW j \in 1..n + 1, i < j PROVE new[i] < new[j]
    <2>1. i \in 1..n
      BY <1>9
    <2>2. CASE j \in 1..n
      BY <1>4, <1>6, <1>9, <2>1, <2>2
    <2>3. CASE j = n + 1
      BY <1>2, <1>4, <1>5, <2>1, <2>3 DEF Requests
    <2> QED BY <1>7, <2>2, <2>3
  <1> QED BY <1>3, <1>4, <1>8, <1>9 DEF Between

LEMMA TailBetween ==
  ASSUME NEW q \in Seq(Requests), NEW low \in Nat, NEW high \in Nat,
         Between(q, low, high), q # <<>>
  PROVE  /\ Tail(q) \in Seq(Requests) /\ Len(Tail(q)) = Len(q) - 1 /\ Head(q) \in Requests
         /\ low < Head(q) /\ Head(q) <= high
         /\ Between(Tail(q), low, high) /\ Between(Tail(q), Head(q), high)
  <1>1. PICK n \in Nat : n = Len(q) - 1
    OBVIOUS
  <1>2. PICK rest : rest = Tail(q)
    OBVIOUS
  <1>3. /\ rest \in Seq(Requests) /\ Len(rest) = n /\ Len(q) = n + 1 /\ Head(q) = q[1]
        /\ q[1] \in Requests
        /\ \A i \in 1..n : rest[i] = q[i + 1]
    BY <1>1, <1>2
  <1>4. \A i \in 1..n + 1 : low < q[i] /\ q[i] <= high
    BY <1>3 DEF Between
  <1>5. \A i \in 1..n + 1 : \A j \in 1..n + 1 : i < j => q[i] < q[j]
    BY <1>3 DEF Between
  <1>6. 1 \in 1..n + 1 /\ \A i \in 1..n : i + 1 \in 1..n + 1 /\ 1 < i + 1
    OBVIOUS
  <1>7. \A i \in 1..n : /\ low < rest[i] /\ rest[i] <= high /\ q[1] < rest[i]
    BY <1>3, <1>4, <1>5, <1>6
  <1>8. ASSUME NEW i \in 1..n, NEW j \in 1..n, i < j PROVE rest[i] < rest[j]
    <2>1. i + 1 < j + 1
      BY <1>8
    <2> QED BY <1>3, <1>5, <1>6, <2>1
  <1> QED BY <1>2, <1>3, <1>4, <1>6, <1>7, <1>8 DEF Between

LEMMA PutBackBetween ==
  ASSUME NEW q \in Seq(Requests), NEW low \in Nat, NEW high \in Nat, NEW h \in Requests,
         Between(q, h, high), low < h, h <= high
  PROVE  /\ (<<h>> \o q) \in Seq(Requests) /\ Len(<<h>> \o q) = Len(q) + 1
         /\ Between(<<h>> \o q, low, high)
  <1>1. PICK n \in Nat : n = Len(q)
    OBVIOUS
  <1>2. PICK new : new = <<h>> \o q
    OBVIOUS
  <1>3. /\ new \in Seq(Requests) /\ Len(new) = n + 1 /\ new[1] = h
        /\ \A i \in 1..n + 1 : i # 1 => new[i] = q[i - 1]
    BY <1>1, <1>2
  <1>4. \A i \in 1..n : q[i] \in Nat /\ h < q[i] /\ q[i] <= high
    <2>1. \A i \in 1..n : q[i] \in Requests
      BY <1>1
    <2> QED BY <1>1, <2>1, BoundsAssumption DEF Between, Requests
  <1>5. \A i \in 1..n : \A j \in 1..n : i < j => q[i] < q[j]
    BY <1>1 DEF Between
  <1>6. h \in Nat
    BY DEF Requests
  <1>7. ASSUME NEW i \in 1..n + 1 PROVE low < new[i] /\ new[i] <= high
    <2>1. CASE i = 1
      BY <1>3, <2>1
    <2>2. CASE i # 1
      <3>1. i - 1 \in 1..n
        BY <2>2
      <3> QED BY <1>3, <1>4, <1>6, <2>2, <3>1
    <2> QED BY <2>1, <2>2
  <1>8. ASSUME NEW i \in 1..n + 1, NEW j \in 1..n + 1, i < j PROVE new[i] < new[j]
    <2>1. j # 1 /\ j - 1 \in 1..n
      BY <1>8
    <2>2. CASE i = 1
      BY <1>3, <1>4, <2>1, <2>2
    <2>3. CASE i # 1
      <3>1. i - 1 \in 1..n /\ i - 1 < j - 1
        BY <1>8, <2>3
      <3> QED BY <1>3, <1>5, <2>1, <2>3, <3>1
    <2> QED BY <2>2, <2>3
  <1> QED BY <1>1, <1>2, <1>3, <1>7, <1>8 DEF Between

-----------------------------------------------------------------------------
(* The steps preserve each part. *)
LEMMA FlagNext == IInv /\ [Next]_vars => FlagType'
  <1> SUFFICES ASSUME FlagType, [Next]_vars PROVE FlagType'
    BY DEF IInv
  <1> USE DEF FlagType, sourceVars, streamVars, workerVars, ringVars, consumerVars
  <1>1. ASSUME NEW f \in Formats, SourceStart(f) PROVE FlagType'
    BY <1>1, Zenon DEF SourceStart
  <1>2. CASE SourceStop
    BY <1>2, Zenon DEF SourceStop
  <1>3. CASE SourceShutdown
    BY <1>3, Zenon DEF SourceShutdown
  <1>4. ASSUME NEW to \in {"start", "stop"}, SetStreamState(to) PROVE FlagType'
    BY <1>4, Zenon DEF SetStreamState
  <1>5. CASE SourceCall
    <2>1. CASE ConfigureBegin
      BY <2>1, Zenon DEF ConfigureBegin
    <2>2. CASE ConfigureEnd
      BY <2>2, Zenon DEF ConfigureEnd
    <2>3. CASE NewStream
      <3>1. announced' \in BOOLEAN
        BY <2>3, Zenon DEF NewStream
      <3> QED BY <2>3, <3>1, Zenon DEF NewStream
    <2>4. CASE StreamEvent
      BY <2>4, Zenon DEF StreamEvent
    <2>5. CASE StartedEvent
      BY <2>5, Zenon DEF StartedEvent
    <2>6. CASE StartFailed
      <3>1. started' \in BOOLEAN
        BY <2>6, Zenon DEF StartFailed, RestoreStarted
      <3> QED BY <2>6, <3>1, Zenon DEF StartFailed
    <2>7. CASE StoppedEvent
      BY <2>7, Zenon DEF StoppedEvent
    <2> QED BY <1>5, <2>1, <2>2, <2>3, <2>4, <2>5, <2>6, <2>7 DEF SourceCall
  <1>6. CASE ShutdownCall
    BY <1>6, Zenon DEF ShutdownCall, StreamShutdown, CloseQueue
  <1>7. ASSUME NEW c \in Callers, StreamCall(c) PROVE FlagType'
    <2>1. CASE StartBegin(c)
      BY <2>1, Zenon DEF StartBegin
    <2>2. CASE StartJoin(c) \/ OpenFrames(c) \/ StartRun(c) \/ Spawn(c) \/ SpawnFails(c)
      BY <2>2, Zenon DEF StartJoin, OpenFrames, StartRun, Spawn, SpawnFails
    <2>3. CASE StopBegin(c) \/ StopJoin(c) \/ CloseFrames(c) \/ StopClear(c)
      BY <2>3, Zenon DEF StopBegin, StopJoin, CloseFrames, StopClear
    <2> QED BY <1>7, <2>1, <2>2, <2>3 DEF StreamCall
  <1>8. CASE RequestSample
    BY <1>8, Zenon DEF RequestSample
  <1>9. CASE Worker
    BY <1>9, Zenon DEF Worker, WorkerBegin, TickStop, TickFails, TickTake, Fill, ProduceFails,
                       QueueSample, WorkerEnd
  <1>10. CASE UNCHANGED vars
    BY <1>10, Zenon DEF vars
  <1> QED BY <1>1, <1>2, <1>3, <1>4, <1>5, <1>6, <1>7, <1>8, <1>9, <1>10 DEF Next

(* The callers and the lock change together. *)
LEMMA CallNext == IInv /\ [Next]_vars => CallType' /\ LockInv'
  <1> SUFFICES ASSUME CallType, LockInv, FormatInv, [Next]_vars PROVE CallType' /\ LockInv'
    BY DEF IInv
  <1> USE DEF CallType, LockInv, Callers, Free, HoldPlaces, StreamPlaces, ShutdownPlaces, Places,
              callVars
  <1>1. ASSUME NEW f \in Formats, SourceStart(f) PROVE CallType' /\ LockInv'
    BY <1>1 DEF SourceStart, SomeFormat
  <1>2. CASE SourceStop \/ SourceShutdown
    BY <1>2 DEF SourceStop, SourceShutdown, At, Goto
  <1>3. ASSUME NEW to \in {"start", "stop"}, SetStreamState(to) PROVE CallType' /\ LockInv'
    BY <1>3 DEF SetStreamState
  <1>4. CASE SourceCall
    <2>1. CASE ConfigureBegin
      BY <2>1 DEF ConfigureBegin, ConfigureLock, Lock, Goto, SomeFormat
    <2>2. CASE ConfigureEnd
      BY <2>2 DEF ConfigureEnd, Unlock, SomeFormat
    <2>3. CASE NewStream \/ StreamEvent
      BY <2>3 DEF NewStream, StreamEvent, At, Goto
    <2>4. CASE StartedEvent \/ StartFailed \/ StoppedEvent
      BY <2>4 DEF StartedEvent, StartFailed, StoppedEvent, At, Goto
    <2> QED BY <1>4, <2>1, <2>2, <2>3, <2>4 DEF SourceCall
  <1>5. CASE ShutdownCall
    BY <1>5 DEF ShutdownCall, StreamShutdown, CloseQueue, At, Goto
  <1>6. ASSUME NEW c \in Callers, StreamCall(c) PROVE CallType' /\ LockInv'
    <2> USE DEF At, Goto, Lock, Unlock, StartReturns, StartFails, StopReturns
    <2>1. CASE StartBegin(c)
      BY <2>1 DEF StartBegin
    <2>2. CASE StartJoin(c) \/ OpenFrames(c) \/ StartRun(c)
      BY <2>2 DEF StartJoin, OpenFrames, StartRun
    <2>3. CASE Spawn(c) \/ SpawnFails(c)
      BY <2>3 DEF Spawn, SpawnFails
    <2>4. CASE StopBegin(c) \/ StopJoin(c) \/ CloseFrames(c)
      BY <2>4 DEF StopBegin, StopJoin, CloseFrames
    <2>5. CASE StopClear(c)
      BY <2>5 DEF StopClear
    <2> QED BY <1>6, <2>1, <2>2, <2>3, <2>4, <2>5 DEF StreamCall
  <1>7. CASE RequestSample \/ Worker \/ UNCHANGED vars
    <2>1. UNCHANGED <<pc, want, calls, lifecycle>>
      BY <1>7 DEF RequestSample, Worker, WorkerBegin, TickStop, TickFails, TickTake, Fill,
                  ProduceFails, QueueSample, WorkerEnd, vars
    <2> QED BY <2>1
  <1> QED BY <1>1, <1>2, <1>3, <1>4, <1>5, <1>6, <1>7 DEF Next

LEMMA JoinNext == IInv /\ [Next]_vars => JoinInv'
  <1> SUFFICES ASSUME IInv, [Next]_vars PROVE JoinInv'
    OBVIOUS
  <1> USE DEF CallType, LockInv, JoinInv, DataType, FlagType, Callers, HoldPlaces, Joined, Alive, IInv,
              callVars, streamVars, workerVars
  <1>1. ASSUME UNCHANGED <<worker, running>>,
               \A c \in Callers : pc'[c] \in Joined \cup {"stopJoin", "startJoin"}
                                   <=> pc[c] \in Joined \cup {"stopJoin", "startJoin"},
               \A c \in Callers : pc[c] \in Joined \cup {"stopJoin", "startJoin"} => pc'[c] = pc[c]
        PROVE  JoinInv'
    BY <1>1
  <1>2. ASSUME NEW f \in Formats, SourceStart(f) PROVE JoinInv'
    BY <1>1, <1>2 DEF SourceStart
  <1>3. CASE SourceStop \/ SourceShutdown
    BY <1>1, <1>3 DEF SourceStop, SourceShutdown, At, Goto
  <1>4. ASSUME NEW to \in {"start", "stop"}, SetStreamState(to) PROVE JoinInv'
    BY <1>1, <1>4 DEF SetStreamState
  <1>5. CASE SourceCall
    BY <1>1, <1>5 DEF SourceCall, ConfigureBegin, ConfigureEnd, NewStream, StreamEvent,
                      StartedEvent, StartFailed, StoppedEvent, At, Goto
  <1>6. CASE ShutdownCall
    BY <1>1, <1>6 DEF ShutdownCall, StreamShutdown, CloseQueue, At, Goto
  <1>7. ASSUME NEW c \in Callers, StreamCall(c) PROVE JoinInv'
    <2> USE DEF At, Goto, Lock, Unlock, StartReturns, StartFails, StopReturns
    <2>1. CASE StartBegin(c)
      BY <2>1 DEF StartBegin
    <2>2. CASE StartJoin(c)
      BY <2>2 DEF StartJoin, Joins
    <2>3. CASE OpenFrames(c) \/ StartRun(c)
      BY <2>3 DEF OpenFrames, StartRun
    <2>4. CASE Spawn(c)
      BY <2>4 DEF Spawn
    <2>5. CASE SpawnFails(c)
      BY <2>5 DEF SpawnFails
    <2>6. CASE StopBegin(c)
      <3>1. \A d \in Callers : pc[d] \notin HoldPlaces
        BY <2>6 DEF StopBegin, Free
      <3>2. /\ \A d \in Callers : pc'[d] = IF d = c THEN "stopJoin" ELSE pc[d]
            /\ ~running' /\ worker' = worker
        BY <2>6 DEF StopBegin
      <3> QED BY <3>1, <3>2
    <2>7. CASE StopJoin(c)
      BY <2>7 DEF StopJoin, StopJoins, Joins
    <2>8. CASE CloseFrames(c) \/ StopClear(c)
      BY <2>8 DEF CloseFrames, StopClear
    <2> QED BY <1>7, <2>1, <2>2, <2>3, <2>4, <2>5, <2>6, <2>7, <2>8 DEF StreamCall
  <1>8. CASE RequestSample \/ UNCHANGED vars
    BY <1>8 DEF RequestSample, vars
  <1>9. CASE Worker
    <2>1. UNCHANGED pc /\ worker # "none" /\ worker' # "none"
      BY <1>9 DEF Worker, WorkerBegin, TickStop, TickFails, TickTake, Fill, ProduceFails,
                  QueueSample, WorkerEnd
    <2>2. worker \in Alive /\ (running' => running) /\ (worker' \in Alive => running' = running)
      BY <1>9 DEF Worker, WorkerBegin, TickStop, TickFails, TickTake, Fill, ProduceFails,
                  QueueSample, WorkerEnd
    <2> QED BY <2>1, <2>2
  <1> QED BY <1>2, <1>3, <1>4, <1>5, <1>6, <1>7, <1>8, <1>9 DEF Next

LEMMA FormatNext == IInv /\ [Next]_vars => FormatInv'
  <1> SUFFICES ASSUME IInv, [Next]_vars PROVE FormatInv'
    OBVIOUS
  <1> USE DEF IInv, FormatInv, CallType, callVars, streamVars, workerVars, Callers
  <1>1. ASSUME UNCHANGED <<format, want, running, worker, fmt>>,
               pc'["source"] \in {"configure", "setType"} => pc'["source"] = pc["source"]
        PROVE  FormatInv'
    BY <1>1
  <1>2. ASSUME NEW f \in Formats, SourceStart(f) PROVE FormatInv'
    BY <1>2 DEF SourceStart
  <1>3. CASE SourceStop \/ SourceShutdown
    BY <1>1, <1>3 DEF SourceStop, SourceShutdown, At, Goto
  <1>4. ASSUME NEW to \in {"start", "stop"}, SetStreamState(to) PROVE FormatInv'
    BY <1>1, <1>4 DEF SetStreamState
  <1>5. CASE SourceCall
    <2>1. CASE ConfigureBegin
      BY <2>1 DEF ConfigureBegin, ConfigureLock, Goto
    <2>2. CASE ConfigureEnd
      <3>1. /\ pc["source"] = "setType" /\ UNCHANGED <<running, worker, fmt>>
            /\ pc'["source"] \notin {"configure", "setType"}
            /\ format' \in {format, want}
        BY <2>2 DEF ConfigureEnd
      <3>2. worker \in {"tick", "fill", "queue"} => running
        <4>1. \A c \in Callers : pc[c] # "stopJoin"
          BY <3>1 DEF LockInv, HoldPlaces
        <4> QED BY <4>1 DEF JoinInv, Alive
      <3> QED BY <3>1, <3>2
    <2>3. CASE NewStream \/ StreamEvent \/ StartedEvent \/ StartFailed \/ StoppedEvent
      BY <1>1, <2>3 DEF NewStream, StreamEvent, StartedEvent, StartFailed, StoppedEvent, At, Goto
    <2> QED BY <1>5, <2>1, <2>2, <2>3 DEF SourceCall
  <1>6. CASE ShutdownCall
    BY <1>1, <1>6 DEF ShutdownCall, StreamShutdown, CloseQueue, At, Goto
  <1>7. ASSUME NEW c \in Callers, StreamCall(c) PROVE FormatInv'
    <2> USE DEF At, Goto, StartReturns, StartFails, StopReturns
    <2>1. CASE StartBegin(c) \/ OpenFrames(c)
      BY <1>1, <2>1 DEF StartBegin, OpenFrames
    <2>2. CASE StartJoin(c) \/ SpawnFails(c)
      BY <2>2 DEF StartJoin, SpawnFails
    <2>3. CASE StartRun(c)
      <3>1. c = "source" => pc'["source"] \notin {"setType", "configure"}
        BY <2>3 DEF StartRun
      <3>2. c # "source" => pc["source"] # "setType"
        BY <2>3 DEF StartRun, LockInv, HoldPlaces
      <3> QED BY <2>3, <3>1, <3>2 DEF StartRun
    <2>4. CASE Spawn(c) \/ StopBegin(c) \/ StopJoin(c)
      BY <2>4 DEF Spawn, StopBegin, StopJoin
    <2>5. CASE CloseFrames(c) \/ StopClear(c)
      BY <1>1, <2>5 DEF CloseFrames, StopClear
    <2> QED BY <1>7, <2>1, <2>2, <2>3, <2>4, <2>5 DEF StreamCall
  <1>8. CASE RequestSample \/ UNCHANGED vars
    BY <1>1, <1>8 DEF RequestSample, vars
  <1>9. CASE Worker
    BY <1>9 DEF Worker, WorkerBegin, TickStop, TickFails, TickTake, Fill, ProduceFails,
                QueueSample, WorkerEnd
  <1> QED BY <1>2, <1>3, <1>4, <1>5, <1>6, <1>7, <1>8, <1>9 DEF Next

LEMMA RingNext == IInv /\ [Next]_vars => RingInv'
  <1> SUFFICES ASSUME RingInv, [Next]_vars PROVE RingInv'
    BY DEF IInv
  <1> USE DEF RingInv, ringVars
  <1>1. CASE SourceStop \/ SourceShutdown \/ SourceCall \/ ShutdownCall
    BY <1>1 DEF SourceStop, SourceShutdown, SourceCall, ConfigureBegin, ConfigureEnd, NewStream,
                StreamEvent, StartedEvent, StartFailed, StoppedEvent, ShutdownCall,
                StreamShutdown, CloseQueue
  <1>2. CASE \/ \E f \in Formats : SourceStart(f)
             \/ \E to \in {"start", "stop"} : SetStreamState(to)
             \/ RequestSample \/ UNCHANGED vars
    BY <1>2 DEF SourceStart, SetStreamState, RequestSample, vars
  <1>3. ASSUME NEW c \in Callers, StreamCall(c) PROVE RingInv'
    BY <1>3 DEF StreamCall, StartBegin, StartJoin, OpenFrames, DropsCache, StartRun, Spawn,
                SpawnFails, StopBegin, StopJoin, CloseFrames, StopClear
  <1>4. CASE Worker
    BY <1>4 DEF Worker, WorkerBegin, TickStop, TickFails, TickTake, Fill, ProduceFails,
                QueueSample, WorkerEnd
  <1> QED BY <1>1, <1>2, <1>3, <1>4 DEF Next

(* A sample in the frame thread's hands keeps its geometry, because nobody  *)
(* opens or closes the ring, or sets another format, while there is a frame *)
(* thread.                                                                  *)
LEMMA GeometryNext == IInv /\ [Next]_vars => GeometryInv'
  <1> SUFFICES ASSUME IInv, [Next]_vars PROVE GeometryInv'
    OBVIOUS
  <1>1. FormatInv'
    BY FormatNext
  <1>2. worker' \in {"fill", "queue"} => fmt' = format'
    BY <1>1 DEF FormatInv
  <1> USE DEF GeometryInv, SampleGeometry, GeometryRequested, workerVars, ringVars, consumerVars,
              streamVars
  <1>3. ASSUME UNCHANGED <<worker, fmt, ring, request, sample>> PROVE GeometryInv'
    BY <1>2, <1>3 DEF IInv
  <1>4. CASE SourceStop \/ SourceShutdown \/ SourceCall \/ ShutdownCall
    BY <1>3, <1>4 DEF SourceStop, SourceShutdown, SourceCall, ConfigureBegin, ConfigureEnd,
                NewStream, StreamEvent, StartedEvent, StartFailed, StoppedEvent, ShutdownCall,
                StreamShutdown, CloseQueue
  <1>5. CASE \/ \E f \in Formats : SourceStart(f)
             \/ \E to \in {"start", "stop"} : SetStreamState(to)
             \/ RequestSample \/ UNCHANGED vars
    BY <1>3, <1>5 DEF SourceStart, SetStreamState, RequestSample, vars
  <1>6. ASSUME NEW c \in Callers, StreamCall(c) PROVE GeometryInv'
    <2>1. CASE StartBegin(c) \/ StartRun(c) \/ StopBegin(c) \/ StopClear(c)
      BY <1>3, <2>1 DEF StartBegin, StartRun, StopBegin, StopClear
    <2>2. CASE StartJoin(c) \/ StopJoin(c) \/ Spawn(c)
      <3>1. worker' # "queue" /\ worker' # "fill"
        BY <2>2 DEF StartJoin, StopJoin, StopJoins, Joins, Spawn
      <3> QED BY <3>1
    <2>3. CASE OpenFrames(c) \/ CloseFrames(c) \/ SpawnFails(c)
      <3>1. worker' = worker /\ pc[c] \in Joined
        BY <2>3 DEF OpenFrames, CloseFrames, SpawnFails, At, Joined
      <3>2. worker = "none"
        BY <3>1 DEF IInv, JoinInv
      <3> QED BY <3>1, <3>2
    <2> QED BY <1>6, <2>1, <2>2, <2>3 DEF StreamCall
  <1>7. CASE Worker
    <2>1. CASE Fill
      <3>1. fmt = format /\ fmt \in Formats /\ UNCHANGED <<fmt, format, ring>>
        BY <2>1 DEF Fill, IInv, FormatInv, DataType
      <3>2. sample'.pixels \in {fmt, NoFormat}
        BY <2>1 DEF Fill, Fills
      <3>3. ring => request' = fmt
        BY <2>1, <3>1, NoFormatApart DEF Fill, Publishes, IInv, RingInv
      <3> QED BY <3>1, <3>2, <3>3
    <2>2. CASE WorkerBegin \/ TickStop \/ TickFails \/ TickTake \/ ProduceFails
               \/ QueueSample \/ WorkerEnd
      <3>1. worker' # "queue"
        BY <2>2 DEF WorkerBegin, TickStop, TickFails, TickTake, ProduceFails, QueueSample,
                    WorkerEnd
      <3> QED BY <1>2, <3>1
    <2> QED BY <1>7, <2>1, <2>2 DEF Worker
  <1> QED BY <1>4, <1>5, <1>6, <1>7 DEF Next

LEMMA AnnounceNext == IInv /\ [Next]_vars => AnnounceInv'
  <1> SUFFICES ASSUME FlagType, CallType, LockInv, AnnounceInv, [Next]_vars PROVE AnnounceInv'
    BY DEF IInv
  <1> USE DEF AnnounceInv, NewStreamFirst, Announcing, Starting, CallType, Callers, callVars,
              sourceVars
  <1>1. ASSUME UNCHANGED <<started, was, event, announced>>, sourceShut => sourceShut',
               pc'["source"] \in Announcing => pc["source"] \in Announcing,
               pc["source"] \in Starting => pc'["source"] \in Starting
        PROVE  AnnounceInv'
    BY <1>1
  <1>2. ASSUME NEW f \in Formats, SourceStart(f) PROVE AnnounceInv'
    BY <1>2 DEF SourceStart
  <1>3. CASE SourceStop \/ SourceShutdown
    BY <1>1, <1>3 DEF SourceStop, SourceShutdown, At, Goto
  <1>4. ASSUME NEW to \in {"start", "stop"}, SetStreamState(to) PROVE AnnounceInv'
    BY <1>1, <1>4 DEF SetStreamState
  <1>5. CASE SourceCall
    <2>1. CASE ConfigureBegin \/ ConfigureEnd
      BY <2>1 DEF ConfigureBegin, ConfigureEnd, Goto
    <2>2. CASE NewStream
      BY <2>2 DEF NewStream, At, Goto
    <2>3. CASE StreamEvent
      BY <2>3 DEF StreamEvent, At, Goto
    <2>4. CASE StartedEvent
      BY <2>4 DEF StartedEvent, At, Goto
    <2>5. CASE StartFailed
      BY <2>5 DEF StartFailed, RestoreStarted, At, Goto
    <2>6. CASE StoppedEvent
      BY <2>6 DEF StoppedEvent, At, Goto
    <2> QED BY <1>5, <2>1, <2>2, <2>3, <2>4, <2>5, <2>6 DEF SourceCall
  <1>6. CASE ShutdownCall
    BY <1>1, <1>6 DEF ShutdownCall, StreamShutdown, CloseQueue, At, Goto
  <1>7. ASSUME NEW c \in Callers, StreamCall(c) PROVE AnnounceInv'
    <2> USE DEF At, Goto, StartReturns, StartFails, StopReturns
    <2>1. CASE StartBegin(c)
      BY <1>1, <2>1 DEF StartBegin
    <2>2. CASE StartJoin(c) \/ OpenFrames(c) \/ StartRun(c) \/ Spawn(c) \/ SpawnFails(c)
      BY <1>1, <2>2 DEF StartJoin, OpenFrames, StartRun, Spawn, SpawnFails
    <2>3. CASE StopBegin(c) \/ StopJoin(c) \/ CloseFrames(c) \/ StopClear(c)
      BY <1>1, <2>3 DEF StopBegin, StopJoin, CloseFrames, StopClear
    <2> QED BY <1>7, <2>1, <2>2, <2>3 DEF StreamCall
  <1>8. CASE RequestSample \/ Worker \/ UNCHANGED vars
    BY <1>1, <1>8 DEF RequestSample, Worker, WorkerBegin, TickStop, TickFails, TickTake, Fill,
                  ProduceFails, QueueSample, WorkerEnd, vars
  <1> QED BY <1>2, <1>3, <1>4, <1>5, <1>6, <1>7, <1>8 DEF Next

LEMMA DataNext == IInv /\ [Next]_vars => DataType'
  <1> SUFFICES ASSUME IInv, [Next]_vars PROVE DataType'
    OBVIOUS
  <1> USE DEF IInv, DataType, Events, SomeFormat, sourceVars, streamVars, workerVars, ringVars,
              consumerVars
  <1>1. CASE SourceStop \/ SourceShutdown \/ ShutdownCall
    BY <1>1 DEF SourceStop, SourceShutdown, ShutdownCall, StreamShutdown, CloseQueue
  <1>2. CASE SourceCall
    <2>1. CASE ConfigureBegin
      BY <2>1 DEF ConfigureBegin
    <2>2. CASE ConfigureEnd
      BY <2>2 DEF ConfigureEnd, FormatInv
    <2>3. CASE NewStream \/ StreamEvent
      BY <2>3 DEF NewStream, StreamEvent
    <2>4. CASE StartedEvent \/ StartFailed \/ StoppedEvent
      BY <2>4 DEF StartedEvent, StartFailed, StoppedEvent
    <2> QED BY <1>2, <2>1, <2>2, <2>3, <2>4 DEF SourceCall
  <1>3. CASE \/ \E f \in Formats : SourceStart(f)
             \/ \E to \in {"start", "stop"} : SetStreamState(to)
             \/ UNCHANGED vars
    BY <1>3 DEF SourceStart, SetStreamState, vars
  <1>4. ASSUME NEW c \in Callers, StreamCall(c) PROVE DataType'
    BY <1>4 DEF StreamCall, StartBegin, StartJoin, OpenFrames, DropsCache, StartRun, Spawn,
                SpawnFails, StopBegin, StopJoin, CloseFrames, StopClear
  <1>5. CASE RequestSample
    <2>1. requested' \in Requests
      BY <1>5, BoundsAssumption DEF RequestSample, Requests
    <2> QED BY <1>5, <2>1 DEF RequestSample
  <1>6. CASE Worker
    <2>1. CASE TickTake
      <3>1. Head(tokens) \in Requests
        BY <2>1 DEF TickTake, HasRequest, QueueType
      <3> QED BY <2>1, <3>1 DEF TickTake
    <2>2. CASE Fill
      <3>1. sample' \in Samples
        BY <2>2 DEF Fill, Samples
      <3> QED BY <2>2, <3>1 DEF Fill
    <2>3. CASE QueueSample
      <3>1. sample' \in Samples
        BY <2>3 DEF QueueSample, Samples
      <3> QED BY <2>3, <3>1 DEF QueueSample
    <2>4. CASE WorkerBegin \/ TickStop \/ TickFails \/ ProduceFails \/ WorkerEnd
      BY <2>4 DEF WorkerBegin, TickStop, TickFails, ProduceFails, WorkerEnd
    <2> QED BY <1>6, <2>1, <2>2, <2>3, <2>4 DEF Worker
  <1> QED BY <1>1, <1>2, <1>3, <1>4, <1>5, <1>6 DEF Next

LEMMA IdsNatural == DataType => sample.id \in Nat /\ held \in Nat /\ requested \in Nat
  BY BoundsAssumption DEF DataType, Samples, Requests

(* The queue keeps its cap and its order whoever changes it. *)
LEMMA QueueNext == IInv /\ [Next]_vars => QueueType' /\ OrderInv'
  <1> SUFFICES ASSUME IInv, [Next]_vars PROVE QueueType' /\ OrderInv'
    OBVIOUS
  <1>1. /\ sample.id \in Nat /\ held \in Nat /\ requested \in Nat
        /\ sample.id <= requested /\ held <= requested
        /\ tokens \in Seq(Requests) /\ Len(tokens) \in Nat /\ Len(tokens) <= Cap
        /\ Between(tokens, sample.id, requested)
        /\ worker = "fill" => sample.id < held /\ Between(tokens, held, requested)
    BY IdsNatural DEF IInv, QueueType, OrderInv
  <1> USE CapAssumption
  <1>2. ASSUME UNCHANGED <<tokens, sample, requested, held>>, worker' = "fill" => worker = "fill"
        PROVE  QueueType' /\ OrderInv'
    BY <1>1, <1>2 DEF QueueType, OrderInv
  <1>3. ASSUME tokens' = <<>>, UNCHANGED <<sample, requested, held, worker>>
        PROVE  QueueType' /\ OrderInv'
    <2>1. tokens' \in Seq(Requests) /\ Len(tokens') = 0
      BY <1>3
    <2>2. Between(tokens', sample.id, requested) /\ Between(tokens', held, requested)
      BY <1>3, EmptyBetween
    <2> QED BY <1>1, <1>3, <2>1, <2>2 DEF QueueType, OrderInv
  <1> USE DEF streamVars, workerVars, consumerVars
  <1>4. CASE SourceStop \/ SourceShutdown \/ SourceCall \/ ShutdownCall
    BY <1>2, <1>4 DEF SourceStop, SourceShutdown, SourceCall, ConfigureBegin, ConfigureEnd,
                NewStream, StreamEvent, StartedEvent, StartFailed, StoppedEvent, ShutdownCall,
                StreamShutdown, CloseQueue
  <1>5. CASE \/ \E f \in Formats : SourceStart(f)
             \/ \E to \in {"start", "stop"} : SetStreamState(to)
             \/ UNCHANGED vars
    BY <1>2, <1>5 DEF SourceStart, SetStreamState, vars
  <1>6. ASSUME NEW c \in Callers, StreamCall(c) PROVE QueueType' /\ OrderInv'
    <2>1. CASE StartBegin(c)
      BY <1>2, <1>3, <2>1 DEF StartBegin
    <2>2. CASE StopClear(c)
      BY <1>3, <2>2 DEF StopClear
    <2>3. CASE StartJoin(c) \/ OpenFrames(c) \/ StartRun(c) \/ Spawn(c) \/ SpawnFails(c)
      BY <1>2, <2>3 DEF StartJoin, OpenFrames, StartRun, Spawn, SpawnFails
    <2>4. CASE StopBegin(c) \/ StopJoin(c) \/ CloseFrames(c)
      BY <1>2, <2>4 DEF StopBegin, StopJoin, CloseFrames
    <2> QED BY <1>6, <2>1, <2>2, <2>3, <2>4 DEF StreamCall
  <1>7. CASE RequestSample
    <2>1. PICK q, r : q = Pending /\ r = requested + 1
      OBVIOUS
    <2>2. /\ r \in Requests /\ requested < r /\ requested' = r /\ tokens' = Append(q, r)
          /\ UNCHANGED <<sample, held, worker>>
      BY <1>1, <1>7, <2>1, BoundsAssumption DEF RequestSample, Requests
    <2>3. /\ q \in Seq(Requests) /\ Len(q) < Cap
          /\ Between(q, sample.id, requested)
          /\ worker = "fill" => Between(q, held, requested)
      <3>1. CASE Len(tokens) >= Cap
        <4>1. tokens # <<>> /\ q = Tail(tokens)
          BY <1>1, <2>1, <3>1 DEF Pending
        <4> QED BY <1>1, <4>1, TailBetween
      <3>2. CASE ~(Len(tokens) >= Cap)
        BY <1>1, <2>1, <3>2 DEF Pending
      <3> QED BY <3>1, <3>2
    <2>4. tokens' \in Seq(Requests) /\ Len(tokens') <= Cap
      BY <2>2, <2>3
    <2>5. Between(tokens', sample.id, r)
      BY <1>1, <2>2, <2>3, AppendBetween
    <2>6. worker = "fill" => Between(tokens', held, r)
      BY <1>1, <2>2, <2>3, AppendBetween
    <2>7. sample.id <= r /\ held <= r
      BY <1>1, <2>1
    <2> QED BY <1>1, <2>2, <2>4, <2>5, <2>6, <2>7 DEF QueueType, OrderInv
  <1>8. CASE TickTake
    <2>1. /\ tokens # <<>> /\ held' = Head(tokens) /\ tokens' = Tail(tokens)
          /\ UNCHANGED <<sample, requested>>
      BY <1>8 DEF TickTake, HasRequest
    <2>2. /\ tokens' \in Seq(Requests) /\ Len(tokens') = Len(tokens) - 1
          /\ sample.id < held' /\ held' <= requested
          /\ Between(tokens', sample.id, requested) /\ Between(tokens', held', requested)
      BY <1>1, <2>1, TailBetween
    <2> QED BY <1>1, <2>1, <2>2 DEF QueueType, OrderInv
  <1>9. CASE Fill
    <2>1. /\ worker = "fill" /\ worker' = "queue" /\ sample'.id = held
          /\ UNCHANGED <<tokens, held, requested>>
      BY <1>9 DEF Fill
    <2> QED BY <1>1, <2>1 DEF QueueType, OrderInv
  <1>10. CASE ProduceFails
    <2>1. /\ worker = "fill" /\ worker' = "tick" /\ held' = 0 /\ UNCHANGED <<sample, requested>>
          /\ tokens' = IF Len(tokens) < Cap THEN <<held>> \o tokens ELSE tokens
      BY <1>10 DEF ProduceFails, PutBack
    <2>2. held \in Requests
      BY <1>1, <2>1 DEF IInv, DataType
    <2>3. QueueType' /\ Between(tokens', sample.id, requested)
      <3>1. CASE Len(tokens) < Cap
        BY <1>1, <2>1, <2>2, <3>1, PutBackBetween DEF QueueType
      <3>2. CASE ~(Len(tokens) < Cap)
        BY <1>1, <2>1, <3>2 DEF QueueType
      <3> QED BY <3>1, <3>2
    <2> QED BY <1>1, <2>1, <2>3 DEF OrderInv
  <1>11. CASE QueueSample
    <2>1. sample' = [sample EXCEPT !.pixels = NoFormat] /\ sample \in Samples
      BY <1>11 DEF QueueSample, IInv, DataType
    <2>2. sample'.id = sample.id
      BY <2>1 DEF Samples
    <2>3. /\ held' = 0 /\ worker' # "fill" /\ UNCHANGED <<tokens, requested>>
      BY <1>11 DEF QueueSample
    <2> QED BY <1>1, <2>2, <2>3 DEF QueueType, OrderInv
  <1>12. CASE WorkerBegin \/ TickStop \/ TickFails \/ WorkerEnd
    BY <1>2, <1>12 DEF WorkerBegin, TickStop, TickFails, WorkerEnd
  <1> QED BY <1>4, <1>5, <1>6, <1>7, <1>8, <1>9, <1>10, <1>11, <1>12 DEF Next, Worker

LEMMA NextInv == IInv /\ [Next]_vars => IInv'
  BY FlagNext, CallNext, DataNext, QueueNext, JoinNext, FormatNext, GeometryNext, RingNext,
     AnnounceNext DEF IInv

LEMMA Inductive == Spec => []IInv
  BY InitInv, NextInv, PTL DEF Spec

-----------------------------------------------------------------------------
(* The queue keeps its cap, FrameSource never has two users, and a consumer   *)
(* hears MENewStream before anything else of the stream, whichever Start,     *)
(* Stop, Pause, SetStreamState and Shutdown race.                             *)
THEOREM StreamSafe == Spec => []StreamInv
  <1>1. IInv => StreamInv
    <2> SUFFICES ASSUME IInv PROVE StreamInv
      OBVIOUS
    <2>1. TypeOK
      BY TypeParts DEF IInv
    <2>2. FramesExclusive
      BY DEF IInv, JoinInv, Joined, FramesExclusive
    <2>3. NewStreamFirst
      BY DEF IInv, AnnounceInv
    <2> QED BY <2>1, <2>2, <2>3 DEF StreamInv
  <1> QED BY <1>1, Inductive, PTL

(* A sample has the format the stream is configured for, and the ring it is   *)
(* read from was asked for that geometry in its present generation.           *)
THEOREM GeometrySafe == Spec => []GeometryInv
  <1>1. IInv => GeometryInv
    BY DEF IInv
  <1> QED BY <1>1, Inductive, PTL

(* Samples answer requests in the order in which they were made: across      *)
(* failed samples, whose request goes back to the front, and a full queue.   *)
THEOREM SamplesOrdered == Spec => SamplesInOrder
  <1>1. IInv /\ [Next]_vars => [sample'.id # sample.id => sample'.id > sample.id]_vars
    <2> SUFFICES ASSUME IInv, Next, sample'.id # sample.id PROVE sample'.id > sample.id
      OBVIOUS
    <2> USE DEF consumerVars
    <2>1. ASSUME UNCHANGED sample PROVE FALSE
      BY <2>1
    <2>2. CASE SourceStop \/ SourceShutdown \/ SourceCall \/ ShutdownCall
      BY <2>1, <2>2 DEF SourceStop, SourceShutdown, SourceCall, ConfigureBegin, ConfigureEnd,
                  NewStream, StreamEvent, StartedEvent, StartFailed, StoppedEvent, ShutdownCall,
                  StreamShutdown, CloseQueue
    <2>3. CASE \/ \E f \in Formats : SourceStart(f)
               \/ \E to \in {"start", "stop"} : SetStreamState(to)
               \/ RequestSample
      BY <2>1, <2>3 DEF SourceStart, SetStreamState, RequestSample
    <2>4. ASSUME NEW c \in Callers, StreamCall(c) PROVE FALSE
      BY <2>1, <2>4 DEF StreamCall, StartBegin, StartJoin, OpenFrames, StartRun, Spawn,
                  SpawnFails, StopBegin, StopJoin, CloseFrames, StopClear
    <2>5. CASE WorkerBegin \/ TickStop \/ TickFails \/ TickTake \/ ProduceFails \/ WorkerEnd
      BY <2>1, <2>5 DEF WorkerBegin, TickStop, TickFails, TickTake, ProduceFails, WorkerEnd
    <2>6. CASE QueueSample
      <3>1. sample'.id = sample.id
        BY <2>6 DEF QueueSample, IInv, DataType, Samples
      <3> QED BY <3>1
    <2>7. CASE Fill
      <3>1. sample'.id = held /\ sample.id < held
        BY <2>7 DEF Fill, IInv, OrderInv
      <3>2. sample.id \in Nat /\ held \in Nat
        BY IdsNatural DEF IInv
      <3> QED BY <3>1, <3>2
    <2> QED BY <2>2, <2>3, <2>4, <2>5, <2>6, <2>7 DEF Next, Worker
  <1> QED BY <1>1, Inductive, PTL DEF Spec, SamplesInOrder

=============================================================================
