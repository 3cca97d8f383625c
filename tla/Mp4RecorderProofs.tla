--------------------------- MODULE Mp4RecorderProofs ---------------------------
(***************************************************************************)
(* Proofs about the recorder and the recording controls over it, for every *)
(* capacity, clock, number of sessions and number of frames.               *)
(***************************************************************************)
EXTENDS RecordingControl, TLAPS

Preparing == owner \in {"starting", "spawn", "unspawned"}
Failing   == worker \in {"discard", "remove", "failed"}
Working   == ~Joined /\ ~Failing

(* Whose file the worker and the snapshot speak of. *)
LifeInv ==
    /\ session <= MaxSessions
    /\ \A s \in Sessions : s > session => partial[s] = "none"
    /\ Preparing => worker = "none" /\ session # 0 /\ partial[session] = "none"
    /\ owner \in {"spawn", "unspawned"} =>
           status.of = session /\ status.state # "Failed" /\ status.partial
    /\ ~Joined => /\ session # 0 /\ status.of = session
                  /\ status.state # "Failed" /\ status.partial
    /\ worker = "publish" => partial[session] = "playable"
    /\ worker = "completed" => output = session
    /\ worker = "failed" => partial[session] = "none"
    /\ status.state = "Failed" => status.of \in 1 .. session

(* Where the accepted frames are. *)
HandInv ==
    /\ worker = "write" => Len(hand) = 1
    /\ worker # "write" /\ ~Failing => hand = <<>>
    /\ worker \in {"finalize", "publish", "completed"} => queue = <<>> /\ stopReq

Accounted == Len(film) + Len(hand) + Len(queue) + dropped = accepted

NewestKept ==
    /\ queue # <<>> => queue[Len(queue)].id = minted
    /\ queue = <<>> /\ worker = "write" => hand[1].id = minted
    /\ queue = <<>> /\ worker # "write" /\ film # <<>> =>
           film[Len(film)].id = minted

InOrder ==
    /\ \A i \in 1 .. Len(queue) : queue[i].id <= minted
    /\ \A i, j \in 1 .. Len(queue) : i < j => queue[i].id < queue[j].id
    /\ worker = "write" =>
         /\ hand[1].id <= minted
         /\ \A i \in 1 .. Len(queue) : hand[1].id < queue[i].id
         /\ \A i \in 1 .. Len(film) : film[i].id < hand[1].id
    /\ \A i \in 1 .. Len(film) : film[i].id <= minted
    /\ \A i \in 1 .. Len(film), j \in 1 .. Len(queue) : film[i].id < queue[j].id

TimeInv ==
    /\ film # <<>> => origin # <<>> /\ last = film[Len(film)].time
    /\ last <= MaxTime

(* What MonotonicTimeline does to the time of the sample before. *)
Spaced(time, next) ==
    time <= next /\ (time + Duration <= next \/ next = MaxTime)

Finished == Joined /\ ~Preparing /\ status.of # 0 /\ ~status.error
EndInv ==
    Finished => /\ output = session /\ ~Accepts
                /\ Len(film) + dropped = accepted
                /\ film # <<>> => film[Len(film)].id = minted

CountInv == Working \/ Preparing => Accounted /\ NewestKept

IInv == /\ TypeOK /\ LifeInv /\ HandInv /\ InOrder /\ TimeInv /\ FilmOrdered
        /\ PartialAccounted /\ CountInv /\ EndInv

-----------------------------------------------------------------------------
(* Sequences. *)

(* What a push to the back of the recorder's queue_ does.                   *)
LEMMA AppendFacts ==
    ASSUME NEW S, NEW s \in Seq(S), NEW x \in S
    PROVE  /\ Append(s, x) \in Seq(S) /\ Len(Append(s, x)) = Len(s) + 1
           /\ \A i \in 1 .. Len(s) : Append(s, x)[i] = s[i]
           /\ Append(s, x)[Len(s) + 1] = x
  OBVIOUS

(* What a pop from the front of the recorder's queue_ does.                 *)
LEMMA TailFacts ==
    ASSUME NEW S, NEW s \in Seq(S), s # <<>>
    PROVE  /\ Tail(s) \in Seq(S) /\ Len(Tail(s)) = Len(s) - 1
           /\ Head(s) \in S /\ Head(s) = s[1] /\ Len(s) \in Nat \ {0}
           /\ \A i \in 1 .. Len(s) - 1 : Tail(s)[i] = s[i + 1]
  OBVIOUS

(* enqueue() pushes the frame behind what is left of the queue, which loses *)
(* its head and no other frame when it is full.                             *)
LEMMA EnqueueFacts ==
    ASSUME TypeOK, NEW pts \in Pts, Enqueue(pts)
    PROVE  \E d \in {0, 1} :
             /\ Len(queue) >= d /\ dropped' = dropped + d
             /\ queue' \in Seq(Frames) /\ Len(queue') = Len(queue) - d + 1
             /\ Len(queue') <= Capacity
             /\ \A i \in 1 .. Len(queue) - d : queue'[i] = queue[i + d]
             /\ queue'[Len(queue')].id = minted + 1
<1> DEFINE new  == [id |-> minted + 1, pts |-> pts]
           kept == IF Full THEN Tail(queue) ELSE queue
<1>0. new \in Frames /\ queue \in Seq(Frames) /\ Len(queue) <= Capacity
      /\ new.id = minted + 1
  BY RecorderAssumption DEF TypeOK, Frames
<1>1. queue' = Append(kept, new) /\ dropped' = dropped + (IF Full THEN 1 ELSE 0)
  BY DEF Enqueue
<1>2. CASE Full
  <2>1. queue # <<>> BY <1>0, <1>2, RecorderAssumption DEF Full
  <2>2. /\ kept = Tail(queue) /\ kept \in Seq(Frames)
        /\ Len(kept) = Len(queue) - 1 /\ Len(queue) \in Nat \ {0}
        /\ \A i \in 1 .. Len(queue) - 1 : kept[i] = queue[i + 1]
    BY <1>0, <1>2, <2>1, TailFacts
  <2> HIDE DEF new, kept
  <2>3. /\ queue' \in Seq(Frames) /\ Len(queue') = Len(queue)
        /\ \A i \in 1 .. Len(queue) - 1 : queue'[i] = kept[i]
        /\ queue'[Len(queue')] = new
    BY <1>0, <1>1, <2>2, AppendFacts
  <2>4. dropped' = dropped + 1 BY <1>1, <1>2
  <2>5. \A i \in 1 .. Len(queue) - 1 : queue'[i] = queue[i + 1]
    BY <2>2, <2>3
  <2> WITNESS 1 \in {0, 1}
  <2> QED BY <1>0, <2>2, <2>3, <2>4, <2>5
<1>3. CASE ~Full
  <2>1. kept = queue BY <1>3
  <2>2. Len(queue) < Capacity /\ Len(queue) \in Nat
    BY <1>0, <1>3, RecorderAssumption DEF Full
  <2> HIDE DEF new, kept
  <2>3. /\ queue' \in Seq(Frames) /\ Len(queue') = Len(queue) + 1
        /\ \A i \in 1 .. Len(queue) : queue'[i] = queue[i]
        /\ queue'[Len(queue')] = new
    BY <1>0, <1>1, <2>1, AppendFacts
  <2>4. dropped' = dropped + 0 BY <1>1, <1>3
  <2>5. \A i \in 1 .. Len(queue) - 0 : queue'[i] = queue[i + 0]
    BY <1>0, <2>2, <2>3
  <2> WITNESS 0 \in {0, 1}
  <2> QED BY <1>0, <2>2, <2>3, <2>4, <2>5, RecorderAssumption
<1> QED BY <1>2, <1>3

(* The worker takes the frame at the head, and leaves the rest.             *)
LEMMA TakeFacts ==
    ASSUME TypeOK, Take
    PROVE  /\ hand' \in Seq(Frames) /\ Len(hand') = 1 /\ hand'[1] = queue[1]
           /\ queue[1] \in Frames /\ Len(queue) \in Nat \ {0}
           /\ queue' \in Seq(Frames) /\ Len(queue') = Len(queue) - 1
           /\ \A i \in 1 .. Len(queue) - 1 : queue'[i] = queue[i + 1]
<1>1. queue # <<>> /\ queue \in Seq(Frames) /\ hand' = <<Head(queue)>>
      /\ queue' = Tail(queue)
  BY DEF TypeOK, Take
<1>2. /\ Tail(queue) \in Seq(Frames) /\ Len(Tail(queue)) = Len(queue) - 1
      /\ Head(queue) \in Frames /\ Head(queue) = queue[1]
      /\ Len(queue) \in Nat \ {0}
      /\ \A i \in 1 .. Len(queue) - 1 : Tail(queue)[i] = queue[i + 1]
  BY <1>1, TailFacts
<1>3. \A f \in Frames : <<f>> \in Seq(Frames) /\ Len(<<f>>) = 1 /\ <<f>>[1] = f
  OBVIOUS
<1> QED BY <1>1, <1>2, <1>3

(* A written sample is the frame in hand.                                   *)
LEMMA WriteFacts ==
    ASSUME TypeOK, HandInv, Write
    PROVE  /\ film' \in Seq(Samples) /\ Len(film') = Len(film) + 1
           /\ \A i \in 1 .. Len(film) : film'[i] = film[i]
           /\ film'[Len(film) + 1].id = hand[1].id
           /\ film'[Len(film) + 1].time = last'
           /\ last' \in Nat /\ origin' \in Seq(Nat) /\ origin' # <<>>
           /\ hand[1] \in Frames /\ hand[1].id \in Nat
<1>1. worker = "write" /\ hand \in Seq(Frames) /\ Len(hand) = 1
  BY DEF TypeOK, HandInv, Write
<1>2. hand[1] \in Frames /\ hand[1].id \in Nat /\ hand[1].pts \in Nat
  <2>1. hand[1] \in Frames BY <1>1
  <2> QED BY <2>1 DEF Frames
<1>3. /\ last' = Timestamp(hand[1].pts)
      /\ film' = Append(film, [id |-> hand[1].id, time |-> last'])
      /\ origin' = IF origin = <<>> THEN <<hand[1].pts>> ELSE origin
  BY DEF Write
<1>4. origin \in Seq(Nat) /\ last \in Nat /\ Duration \in Nat /\ MaxTime \in Nat
  BY RecorderAssumption DEF TypeOK
<1>5. last' \in Nat
  <2>1. CASE origin = <<>> BY <2>1, <1>3 DEF Timestamp
  <2>2. CASE origin # <<>>
    <3>1. origin[1] \in Nat BY <1>4, <2>2
    <3> QED BY <3>1, <2>2, <1>2, <1>3, <1>4 DEF Timestamp, Saturated
  <2> QED BY <2>1, <2>2
<1>6. origin' \in Seq(Nat) /\ origin' # <<>>
  <2>1. <<hand[1].pts>> \in Seq(Nat) /\ <<hand[1].pts>> # <<>> BY <1>2
  <2> QED BY <2>1, <1>3, <1>4
<1>7. [id |-> hand[1].id, time |-> last'] \in Samples /\ film \in Seq(Samples)
  BY <1>2, <1>5 DEF Samples, TypeOK
<1> HIDE DEF Samples
<1> QED BY <1>2, <1>3, <1>5, <1>6, <1>7, AppendFacts

(* It is at least a frame's duration after the last one, once there is a    *)
(* first, or at the end of time.                                            *)
LEMMA WriteTime ==
    ASSUME TypeOK, HandInv, TimeInv, Write
    PROVE  last' <= MaxTime /\ (origin # <<>> => Spaced(last, last'))
<1>1. hand[1].pts \in Nat /\ last' = Timestamp(hand[1].pts)
  BY WriteFacts DEF Frames, Write
<1>2. /\ origin \in Seq(Nat) /\ last \in Nat /\ Duration \in Nat
      /\ MaxTime \in Nat /\ last <= MaxTime
  BY RecorderAssumption DEF TypeOK, TimeInv
<1>3. last' \in Nat /\ last' <= MaxTime /\ (origin # <<>> => Spaced(last, last'))
  <2>1. CASE origin = <<>> BY <2>1, <1>1, <1>2 DEF Timestamp
  <2>2. CASE origin # <<>>
    <3>1. origin[1] \in Nat BY <1>2, <2>2
    <3>2. /\ Saturated(last + Duration) \in Nat
          /\ Saturated(last + Duration) <= MaxTime
          /\ Spaced(last, Saturated(last + Duration))
      BY <1>2 DEF Saturated, Spaced
    <3>3. /\ last' \in Nat /\ last' <= MaxTime
          /\ last' >= Saturated(last + Duration)
      BY <3>1, <3>2, <2>2, <1>1, <1>2 DEF Timestamp, Saturated
    <3> QED BY <3>2, <3>3, <1>2 DEF Spaced
  <2> QED BY <2>1, <2>2
<1> QED BY <1>3

-----------------------------------------------------------------------------
(* The inductive invariant, part by part. *)

(* The snapshots the recorder publishes are snapshots.                      *)
LEMMA StatusEdits ==
    ASSUME NEW s \in Statuses, NEW st \in States, NEW b \in BOOLEAN,
           NEW c \in BOOLEAN, NEW k \in Nat, NEW m \in Nat, NEW n \in Nat
    PROVE  /\ s.submitted \in Nat /\ s.written \in Nat /\ s.dropped \in Nat
           /\ [s EXCEPT !.state = st] \in Statuses
           /\ [s EXCEPT !.written = k] \in Statuses
           /\ [s EXCEPT !.queued = k] \in Statuses
           /\ [s EXCEPT !.submitted = k, !.dropped = m, !.queued = n] \in Statuses
           /\ [s EXCEPT !.state = st, !.error = b, !.partial = c] \in Statuses
           /\ [s EXCEPT !.state = st, !.error = b, !.queued = k] \in Statuses
           /\ [s EXCEPT !.state = st, !.error = b, !.queued = k, !.partial = c]
                \in Statuses
           /\ [s EXCEPT !.state = st, !.error = b, !.dropped = m, !.queued = k,
                        !.partial = c] \in Statuses
  BY DEF Statuses

(* Every reset of the snapshot is a snapshot.                               *)
LEMMA SnapshotType ==
    ASSUME NEW st \in States, NEW of \in Nat PROVE Snapshot(st, of) \in Statuses
  BY DEF Snapshot, Statuses

(* A step keeps the types and the queue's capacity.                         *)
LEMMA TypeStep == TypeOK /\ HandInv /\ [Next]_vars => TypeOK'
<1> SUFFICES ASSUME TypeOK, HandInv, [Next]_vars PROVE TypeOK'
  OBVIOUS
<1> USE RecorderAssumption
<1>0. <<>> \in Seq(Frames) /\ <<>> \in Seq(Nat) /\ <<>> \in Seq(Samples)
      /\ Len(<<>>) = 0
  OBVIOUS
<1>1. CASE Start
  <2>1. active' \in BOOLEAN /\ stopReq' \in BOOLEAN
    BY <1>1, Zenon DEF Start
  <2> QED BY <1>0, <1>1, <2>1 DEF TypeOK, Start, fileVars
<1>2. CASE Stop
  BY <1>2 DEF TypeOK, Stop, timeVars, fileVars, history
<1>3. ASSUME NEW pts \in Pts, Enqueue(pts) PROVE TypeOK'
  <2>1. queue' \in Seq(Frames) /\ Len(queue') <= Capacity /\ dropped' \in Nat
        /\ Len(queue') \in Nat
    BY <1>3, EnqueueFacts DEF TypeOK
  <2>2. status' \in Statuses
    <3>1. status \in Statuses BY DEF TypeOK
    <3>2. PICK d \in {0, 1} :
            status' = [status EXCEPT !.submitted = status.submitted + 1,
                                     !.dropped = status.dropped + d,
                                     !.queued = Len(queue')]
      BY <1>3 DEF Enqueue
    <3>3. status.submitted + 1 \in Nat /\ status.dropped + d \in Nat
      BY <3>1 DEF Statuses
    <3> HIDE DEF Statuses
    <3> QED BY <2>1, <3>1, <3>2, <3>3, StatusEdits DEF States
  <2>3. /\ feeder' \in {"notify", "notifyDrop"}
        /\ minted' = minted + 1 /\ accepted' = accepted + 1
        /\ UNCHANGED <<session, active, stopReq, owner, worker, hand, origin,
                       last, partial, output, film>>
    BY <1>3 DEF Enqueue, timeVars, fileVars
  <2> QED BY <2>1, <2>2, <2>3 DEF TypeOK
<1>4. CASE OwnerSteps \/ FeederSteps
  <2>1. CASE StartStatus \/ SpawnReport
    <3>1. status' \in Statuses
      <4>1. CASE StartStatus
        BY <4>1, SnapshotType DEF StartStatus, TypeOK, States
      <4>2. CASE SpawnReport
        BY <4>2, StatusEdits DEF SpawnReport, TypeOK, States
      <4> QED BY <2>1, <4>1, <4>2
    <3> QED BY <2>1, <3>1 DEF TypeOK, StartStatus, SpawnReport, queueVars,
              timeVars, fileVars, history
  <2>2. CASE SpawnFailed
    BY <2>2 DEF TypeOK, SpawnFailed, timeVars, fileVars, history
  <2>3. CASE Spawn \/ StopNotify \/ StopJoin \/ EnqueueNotify
    BY <2>3 DEF TypeOK, Spawn, StopNotify, StopJoin, EnqueueNotify, Notified,
         queueVars, timeVars, fileVars, history
  <2> QED BY <1>4, <2>1, <2>2, <2>3 DEF OwnerSteps, FeederSteps
<1>5. ASSUME NEW opened \in BOOLEAN, NEW left \in BOOLEAN,
             OpenWriter(opened, left)
      PROVE  TypeOK'
  <2>1. partial' \in [Sessions -> {"none", "incomplete", "playable"}]
    BY <1>5 DEF TypeOK, OpenWriter
  <2> QED BY <1>5, <2>1 DEF TypeOK, OpenWriter, Goto, queueVars, timeVars,
            history
<1>6. CASE Take
  <2>1. hand' \in Seq(Frames) /\ queue' \in Seq(Frames)
        /\ Len(queue') = Len(queue) - 1 /\ Len(queue) - 1 \in Nat
        /\ Len(queue') <= Capacity
    BY <1>6, TakeFacts DEF TypeOK
  <2>2. status' \in Statuses
    BY <1>6, <2>1 DEF TypeOK, Take, Statuses
  <2> QED BY <1>6, <2>1, <2>2 DEF TypeOK, Take, Goto, timeVars, fileVars, history
<1>7. CASE Write
  <2>1. film' \in Seq(Samples) /\ last' \in Nat /\ origin' \in Seq(Nat)
    BY <1>7, WriteFacts
  <2>2. status' \in Statuses
    <3>1. status \in Statuses /\ status.written + 1 \in Nat
      BY DEF TypeOK, Statuses
    <3> QED BY <1>7, <3>1, StatusEdits DEF Write, States
  <2> QED BY <1>0, <1>7, <2>1, <2>2 DEF TypeOK, Write, Goto, queueVars, fileVars
<1>8. ASSUME NEW ok \in BOOLEAN, Finalize(ok) PROVE TypeOK'
  <2>1. partial' \in [Sessions -> {"none", "incomplete", "playable"}]
    BY <1>8 DEF TypeOK, Finalize
  <2> QED BY <1>8, <2>1 DEF TypeOK, Finalize, Goto, queueVars, timeVars, history
<1>9. CASE Publish \/ RemovePartial
  BY <1>9 DEF TypeOK, Publish, RemovePartial, Goto, queueVars, timeVars, history
<1>10. CASE \/ ReportRecording \/ ReportFinalizing \/ ReportCompleted
            \/ ReportUnpublished
  <2>1. status' \in Statuses
    <3>1. status \in Statuses BY DEF TypeOK
    <3>2. CASE ReportRecording
      BY <3>1, <3>2, StatusEdits DEF ReportRecording, States
    <3>3. CASE ReportFinalizing
      BY <3>1, <3>3, StatusEdits DEF ReportFinalizing, States
    <3>4. CASE ReportCompleted
      BY <3>1, <3>4, StatusEdits DEF ReportCompleted, States
    <3>5. CASE ReportUnpublished
      BY <3>1, <3>5, StatusEdits DEF ReportUnpublished, States
    <3> QED BY <1>10, <3>2, <3>3, <3>4, <3>5
  <2> QED BY <1>10, <2>1 DEF TypeOK, ReportRecording, ReportFinalizing,
            ReportCompleted, ReportUnpublished, Goto, queueVars, timeVars,
            fileVars, history
<1>15. CASE Sleep \/ WriteFailed
  BY <1>15 DEF TypeOK, Sleep, WriteFailed, Goto, queueVars, timeVars, fileVars,
       history
<1>11. CASE Discard
  <2>1. hand' \in Seq(Frames)
    BY <1>11 DEF TypeOK, Discard
  <2>2. active' \in BOOLEAN /\ stopReq' \in BOOLEAN
    BY <1>11, Zenon DEF Discard
  <2> QED BY <1>0, <1>11, <2>1, <2>2 DEF TypeOK, Discard, Goto, timeVars,
            fileVars, history
<1>12. CASE ReportFailed
  <2>1. Len(hand) \in Nat BY DEF TypeOK
  <2>2. status' \in Statuses
    <3>1. status \in Statuses /\ status.dropped + Len(hand) \in Nat
      BY <2>1 DEF TypeOK, Statuses
    <3> QED BY <1>12, <3>1, StatusEdits DEF ReportFailed, States
  <2> QED BY <1>0, <1>12, <2>2 DEF TypeOK, ReportFailed, Goto, queueVars,
            timeVars, fileVars, history
<1>13. CASE Crash
  <2>1. active' \in BOOLEAN /\ stopReq' \in BOOLEAN
    BY <1>13, Zenon DEF Crash
  <2>2. status' \in Statuses
    BY <1>13, SnapshotType DEF Crash, States
  <2> QED BY <1>0, <1>13, <2>1, <2>2 DEF TypeOK, Crash, fileVars
<1>14. CASE UNCHANGED vars
  BY <1>14 DEF TypeOK, vars, queueVars, timeVars, fileVars, history
<1> QED
  BY <1>1, <1>2, <1>3, <1>4, <1>5, <1>6, <1>7, <1>8, <1>9, <1>10, <1>11, <1>12,
     <1>13, <1>14, <1>15
     DEF Next, WorkerSteps

(* The worker, the snapshot and the partial file are of one session.        *)
LEMMA LifeStep == TypeOK /\ LifeInv /\ [Next]_vars => LifeInv'
<1> SUFFICES ASSUME TypeOK, LifeInv, [Next]_vars PROVE LifeInv'
  OBVIOUS
<1> USE DEF TypeOK, LifeInv, Statuses, Joined, Preparing,
      Sessions, queueVars, timeVars, fileVars, history
<1>1. CASE Start BY <1>1, RecorderAssumption DEF Start
<1>2. CASE Stop BY <1>2 DEF Stop
<1>3. ASSUME NEW pts \in Pts, Enqueue(pts) PROVE LifeInv'
  BY <1>3 DEF Enqueue
<1>4. CASE StartStatus BY <1>4 DEF StartStatus, Snapshot
<1>5. CASE Spawn BY <1>5 DEF Spawn
<1>6. CASE SpawnFailed BY <1>6 DEF SpawnFailed
<1>7. CASE SpawnReport BY <1>7 DEF SpawnReport
<1>8. CASE StopNotify BY <1>8 DEF StopNotify, Notified
<1>9. CASE StopJoin BY <1>9 DEF StopJoin
<1>10. CASE EnqueueNotify BY <1>10 DEF EnqueueNotify, Notified
<1>11. ASSUME NEW opened \in BOOLEAN, NEW left \in BOOLEAN,
              OpenWriter(opened, left)
       PROVE  LifeInv'
  BY <1>11 DEF OpenWriter, Goto
<1>12. CASE ReportRecording BY <1>12 DEF ReportRecording, Goto
<1>13. CASE Take BY <1>13 DEF Take, Goto
<1>14. CASE Sleep BY <1>14 DEF Sleep, Goto
<1>15. CASE Write BY <1>15 DEF Write, Goto
<1>16. CASE WriteFailed BY <1>16 DEF WriteFailed, Goto
<1>17. CASE ReportFinalizing BY <1>17 DEF ReportFinalizing, Goto, Drained
<1>18. ASSUME NEW ok \in BOOLEAN, Finalize(ok) PROVE LifeInv'
  BY <1>18 DEF Finalize, Goto
<1>19. CASE Publish BY <1>19 DEF Publish, Goto
<1>20. CASE ReportCompleted BY <1>20 DEF ReportCompleted, Goto
<1>21. CASE ReportUnpublished BY <1>21 DEF ReportUnpublished, Goto
<1>22. CASE Discard BY <1>22 DEF Discard, Goto
<1>23. CASE RemovePartial BY <1>23 DEF RemovePartial, Goto
<1>24. CASE ReportFailed BY <1>24 DEF ReportFailed, Goto
<1>25. CASE Crash BY <1>25 DEF Crash, Snapshot
<1>26. CASE UNCHANGED vars BY <1>26 DEF vars
<1> QED
  BY <1>1, <1>2, <1>3, <1>4, <1>5, <1>6, <1>7, <1>8, <1>9, <1>10, <1>11, <1>12,
     <1>13, <1>14, <1>15, <1>16, <1>17, <1>18, <1>19, <1>20, <1>21, <1>22, <1>23,
     <1>24, <1>25, <1>26
     DEF Next, OwnerSteps, FeederSteps, WorkerSteps

(* A failed recording's file is accounted for.                              *)
LEMMA PartialStep ==
    TypeOK /\ LifeInv /\ PartialAccounted /\ [Next]_vars => PartialAccounted'
<1> SUFFICES ASSUME TypeOK, LifeInv, PartialAccounted, [Next]_vars
             PROVE  PartialAccounted'
  OBVIOUS
<1> USE RecorderAssumption DEF TypeOK, LifeInv, PartialAccounted, Statuses,
      Joined, Preparing, Sessions, queueVars, timeVars, fileVars, history
<1>1. CASE Start BY <1>1 DEF Start
<1>2. CASE Stop BY <1>2 DEF Stop
<1>3. ASSUME NEW pts \in Pts, Enqueue(pts) PROVE PartialAccounted'
  BY <1>3 DEF Enqueue
<1>4. CASE StartStatus BY <1>4 DEF StartStatus, Snapshot
<1>5. CASE Spawn BY <1>5 DEF Spawn
<1>6. CASE SpawnFailed BY <1>6 DEF SpawnFailed
<1>7. CASE SpawnReport BY <1>7 DEF SpawnReport
<1>8. CASE StopNotify BY <1>8 DEF StopNotify, Notified
<1>9. CASE StopJoin BY <1>9 DEF StopJoin
<1>10. CASE EnqueueNotify BY <1>10 DEF EnqueueNotify, Notified
<1>11. ASSUME NEW opened \in BOOLEAN, NEW left \in BOOLEAN,
              OpenWriter(opened, left)
       PROVE  PartialAccounted'
  BY <1>11 DEF OpenWriter, Goto
<1>12. CASE ReportRecording BY <1>12 DEF ReportRecording, Goto
<1>13. CASE Take BY <1>13 DEF Take, Goto
<1>14. CASE Sleep BY <1>14 DEF Sleep, Goto
<1>15. CASE Write BY <1>15 DEF Write, Goto
<1>16. CASE WriteFailed BY <1>16 DEF WriteFailed, Goto
<1>17. CASE ReportFinalizing BY <1>17 DEF ReportFinalizing, Goto, Drained
<1>18. ASSUME NEW ok \in BOOLEAN, Finalize(ok) PROVE PartialAccounted'
  BY <1>18 DEF Finalize, Goto
<1>19. CASE Publish BY <1>19 DEF Publish, Goto
<1>20. CASE ReportCompleted BY <1>20 DEF ReportCompleted, Goto
<1>21. CASE ReportUnpublished BY <1>21 DEF ReportUnpublished, Goto
<1>22. CASE Discard BY <1>22 DEF Discard, Goto
<1>23. CASE RemovePartial BY <1>23 DEF RemovePartial, Goto
<1>24. CASE ReportFailed BY <1>24 DEF ReportFailed, Goto
<1>25. CASE Crash BY <1>25 DEF Crash, Snapshot
<1>26. CASE UNCHANGED vars BY <1>26 DEF vars
<1> QED
  BY <1>1, <1>2, <1>3, <1>4, <1>5, <1>6, <1>7, <1>8, <1>9, <1>10, <1>11, <1>12,
     <1>13, <1>14, <1>15, <1>16, <1>17, <1>18, <1>19, <1>20, <1>21, <1>22, <1>23,
     <1>24, <1>25, <1>26
     DEF Next, OwnerSteps, FeederSteps, WorkerSteps

(* The worker's hand is empty unless it writes or fails, and the queue stays *)
(* empty from the moment the worker has seen the request to stop.           *)
LEMMA HandStep ==
    TypeOK /\ LifeInv /\ HandInv /\ [Next]_vars => HandInv'
<1> SUFFICES ASSUME TypeOK, LifeInv, HandInv, [Next]_vars PROVE HandInv'
  OBVIOUS
<1> USE DEF TypeOK, LifeInv, HandInv, Failing, Joined, Preparing, Accepts,
      queueVars, timeVars, fileVars, history
<1>1. CASE Start BY <1>1 DEF Start
<1>2. CASE Stop BY <1>2 DEF Stop
<1>3. ASSUME NEW pts \in Pts, Enqueue(pts) PROVE HandInv'
  BY <1>3 DEF Enqueue
<1>4. CASE StartStatus BY <1>4 DEF StartStatus, Snapshot
<1>5. CASE Spawn BY <1>5 DEF Spawn
<1>6. CASE SpawnFailed BY <1>6 DEF SpawnFailed
<1>7. CASE SpawnReport BY <1>7 DEF SpawnReport
<1>8. CASE StopNotify BY <1>8 DEF StopNotify, Notified
<1>9. CASE StopJoin BY <1>9 DEF StopJoin
<1>10. CASE EnqueueNotify BY <1>10 DEF EnqueueNotify, Notified
<1>11. ASSUME NEW opened \in BOOLEAN, NEW left \in BOOLEAN,
              OpenWriter(opened, left)
       PROVE  HandInv'
  BY <1>11 DEF OpenWriter, Goto
<1>12. CASE ReportRecording BY <1>12 DEF ReportRecording, Goto
<1>13. CASE Take BY <1>13 DEF Take, Goto
<1>14. CASE Sleep BY <1>14 DEF Sleep, Goto
<1>15. CASE Write BY <1>15 DEF Write, Goto
<1>16. CASE WriteFailed BY <1>16 DEF WriteFailed, Goto
<1>17. CASE ReportFinalizing BY <1>17 DEF ReportFinalizing, Goto, Drained
<1>18. ASSUME NEW ok \in BOOLEAN, Finalize(ok) PROVE HandInv'
  BY <1>18 DEF Finalize, Goto
<1>19. CASE Publish BY <1>19 DEF Publish, Goto
<1>20. CASE ReportCompleted BY <1>20 DEF ReportCompleted, Goto
<1>21. CASE ReportUnpublished BY <1>21 DEF ReportUnpublished, Goto
<1>22. CASE Discard BY <1>22 DEF Discard, Goto
<1>23. CASE RemovePartial BY <1>23 DEF RemovePartial, Goto
<1>24. CASE ReportFailed BY <1>24 DEF ReportFailed, Goto
<1>25. CASE Crash BY <1>25 DEF Crash, Snapshot
<1>26. CASE UNCHANGED vars BY <1>26 DEF vars
<1> QED
  BY <1>1, <1>2, <1>3, <1>4, <1>5, <1>6, <1>7, <1>8, <1>9, <1>10, <1>11, <1>12,
     <1>13, <1>14, <1>15, <1>16, <1>17, <1>18, <1>19, <1>20, <1>21, <1>22, <1>23,
     <1>24, <1>25, <1>26
     DEF Next, OwnerSteps, FeederSteps, WorkerSteps


(* Frames keep their order from the queue through the worker into the file. *)
LEMMA OrderStep ==
    TypeOK /\ HandInv /\ InOrder /\ [Next]_vars => InOrder'
<1> SUFFICES ASSUME TypeOK, HandInv, InOrder, [Next]_vars PROVE InOrder'
  OBVIOUS
<1>0. /\ minted \in Nat /\ Len(queue) \in Nat /\ Len(film) \in Nat
      /\ \A i \in 1 .. Len(queue) : queue[i].id \in Nat
      /\ \A i \in 1 .. Len(film) : film[i].id \in Nat
  <2>1. \A i \in 1 .. Len(queue) : queue[i] \in Frames BY DEF TypeOK
  <2>2. \A i \in 1 .. Len(film) : film[i] \in Samples BY DEF TypeOK
  <2> QED BY <2>1, <2>2 DEF TypeOK, Frames, Samples
<1>h. worker = "write" => hand[1].id \in Nat
  <2> SUFFICES ASSUME worker = "write" PROVE hand[1].id \in Nat
    OBVIOUS
  <2>1. hand \in Seq(Frames) /\ Len(hand) = 1 BY DEF TypeOK, HandInv
  <2>2. hand[1] \in Frames BY <2>1
  <2> QED BY <2>2 DEF Frames
<1>1. ASSUME NEW pts \in Pts, Enqueue(pts) PROVE InOrder'
  <2>1. PICK d \in {0, 1} :
          /\ Len(queue) >= d /\ Len(queue') = Len(queue) - d + 1
          /\ \A i \in 1 .. Len(queue) - d : queue'[i] = queue[i + d]
          /\ queue'[Len(queue')].id = minted + 1
    BY <1>1, EnqueueFacts
  <2>2. /\ minted' = minted + 1 /\ UNCHANGED <<worker, hand, film>>
    BY <1>1 DEF Enqueue
  <2>3. \A i \in 1 .. Len(queue') :
          \/ i = Len(queue') /\ queue'[i].id = minted + 1
          \/ i + d \in 1 .. Len(queue) /\ queue'[i] = queue[i + d]
    BY <1>0, <2>1
  <2>4. \A i \in 1 .. Len(queue') : queue'[i].id <= minted + 1
    BY <1>0, <2>3 DEF InOrder
  <2>5. \A i, j \in 1 .. Len(queue') : i < j => queue'[i].id < queue'[j].id
    <3> SUFFICES ASSUME NEW i \in 1 .. Len(queue'), NEW j \in 1 .. Len(queue'),
                        i < j
                 PROVE  queue'[i].id < queue'[j].id
      OBVIOUS
    <3>1. i + d \in 1 .. Len(queue) /\ queue'[i] = queue[i + d]
      BY <1>0, <2>1
    <3>2. CASE j = Len(queue')
      BY <1>0, <2>1, <3>1, <3>2 DEF InOrder
    <3>3. CASE j # Len(queue')
      <4>1. j + d \in 1 .. Len(queue) /\ queue'[j] = queue[j + d]
        BY <2>3, <3>3
      <4> QED BY <1>0, <3>1, <4>1 DEF InOrder
    <3> QED BY <3>2, <3>3
  <2>6. worker = "write" =>
          /\ hand[1].id <= minted
          /\ \A i \in 1 .. Len(queue') : hand[1].id < queue'[i].id
          /\ \A i \in 1 .. Len(film) : film[i].id < hand[1].id
    <3> SUFFICES ASSUME worker = "write"
                 PROVE  /\ hand[1].id <= minted
                        /\ \A i \in 1 .. Len(queue') : hand[1].id < queue'[i].id
                        /\ \A i \in 1 .. Len(film) : film[i].id < hand[1].id
      OBVIOUS
    <3> QED BY <1>0, <1>h, <2>3 DEF InOrder
  <2>7. \A i \in 1 .. Len(film), j \in 1 .. Len(queue') :
          film[i].id < queue'[j].id
    <3> SUFFICES ASSUME NEW i \in 1 .. Len(film), NEW j \in 1 .. Len(queue')
                 PROVE  film[i].id < queue'[j].id
      OBVIOUS
    <3>1. CASE j = Len(queue') /\ queue'[j].id = minted + 1
      <4>1. film[i].id <= minted BY DEF InOrder
      <4> QED BY <1>0, <3>1, <4>1
    <3>2. CASE j + d \in 1 .. Len(queue) /\ queue'[j] = queue[j + d]
      BY <3>2 DEF InOrder
    <3> QED BY <2>3, <3>1, <3>2
  <2>8. worker = "write" => hand[1].id <= minted + 1
    BY <1>0, <1>h, <2>6
  <2> QED BY <1>0, <2>2, <2>4, <2>5, <2>6, <2>7, <2>8 DEF InOrder
<1>2. CASE Take
  <2>1. /\ hand'[1] = queue[1] /\ Len(queue') = Len(queue) - 1
        /\ Len(queue) \in Nat \ {0}
        /\ \A i \in 1 .. Len(queue) - 1 : queue'[i] = queue[i + 1]
    BY <1>2, TakeFacts
  <2>2. UNCHANGED <<minted, film>> BY <1>2 DEF Take, history
  <2>3. \A i \in 1 .. Len(queue') :
          i + 1 \in 1 .. Len(queue) /\ queue'[i] = queue[i + 1]
    BY <1>0, <2>1
  <2>4. 1 \in 1 .. Len(queue) BY <2>1
  <2>5. /\ \A i \in 1 .. Len(queue') : queue'[i].id <= minted
        /\ \A i \in 1 .. Len(film), j \in 1 .. Len(queue') :
             film[i].id < queue'[j].id
    BY <2>3 DEF InOrder
  <2>6. \A i, j \in 1 .. Len(queue') : i < j => queue'[i].id < queue'[j].id
    BY <2>3 DEF InOrder
  <2>7. /\ hand'[1].id <= minted
        /\ \A i \in 1 .. Len(film) : film[i].id < hand'[1].id
    BY <2>1, <2>4 DEF InOrder
  <2>8. \A i \in 1 .. Len(queue') : hand'[1].id < queue'[i].id
    BY <2>1, <2>3, <2>4 DEF InOrder
  <2> QED BY <2>2, <2>5, <2>6, <2>7, <2>8 DEF InOrder
<1>3. CASE Write
  <2>1. /\ Len(film') = Len(film) + 1
        /\ \A i \in 1 .. Len(film) : film'[i] = film[i]
        /\ film'[Len(film) + 1].id = hand[1].id /\ hand[1].id \in Nat
    BY <1>3, WriteFacts
  <2>2. /\ worker = "write" /\ worker' # "write" /\ UNCHANGED <<minted, queue>>
    BY <1>3 DEF Write, Goto, queueVars
  <2>3. \A i \in 1 .. Len(film') :
          \/ i \in 1 .. Len(film) /\ film'[i] = film[i]
          \/ i = Len(film) + 1
    BY <1>0, <2>1
  <2> QED BY <1>0, <2>1, <2>2, <2>3 DEF InOrder
<1>4. CASE Start \/ Crash
  BY <1>4 DEF Start, Crash, InOrder, TypeOK
<1>5. CASE Discard
  BY <1>5 DEF Discard, Goto, history, InOrder
<1>6. CASE ReportFailed
  BY <1>6 DEF ReportFailed, Goto, queueVars, history, InOrder
<1>7. CASE UNCHANGED <<queue, film, minted, hand>>
           /\ (worker' = "write" => worker = "write")
  BY <1>7 DEF InOrder
<1>8. \/ Stop \/ OwnerSteps \/ FeederSteps \/ ReportRecording \/ Sleep
      \/ WriteFailed \/ ReportFinalizing \/ Publish \/ ReportCompleted
      \/ ReportUnpublished \/ RemovePartial \/ UNCHANGED vars
      \/ (\E opened, left \in BOOLEAN : OpenWriter(opened, left))
      \/ (\E ok \in BOOLEAN : Finalize(ok))
      => UNCHANGED <<queue, film, minted, hand>>
         /\ (worker' = "write" => worker = "write")
  BY DEF Stop, OwnerSteps, FeederSteps, StartStatus, Spawn, SpawnFailed,
       SpawnReport, StopNotify, StopJoin, EnqueueNotify, ReportRecording, Sleep,
       WriteFailed, ReportFinalizing, Publish, ReportCompleted,
       ReportUnpublished, RemovePartial, OpenWriter, Finalize, Notified, Goto,
       vars, queueVars, history
<1> QED
  BY <1>1, <1>2, <1>3, <1>4, <1>5, <1>6, <1>7, <1>8 DEF Next, WorkerSteps

(* The timeline remembers the last sample, so that the next one is later.   *)
LEMMA TimeStep ==
    TypeOK /\ HandInv /\ InOrder /\ TimeInv /\ FilmOrdered /\ [Next]_vars
        => TimeInv' /\ FilmOrdered'
<1> SUFFICES ASSUME TypeOK, HandInv, InOrder, TimeInv, FilmOrdered, [Next]_vars
             PROVE  TimeInv' /\ FilmOrdered'
  OBVIOUS
<1>1. CASE Write
  <2>1. /\ film \in Seq(Samples) /\ film' \in Seq(Samples)
        /\ Len(film') = Len(film) + 1
        /\ \A i \in 1 .. Len(film) : film'[i] = film[i]
        /\ film'[Len(film) + 1].id = hand[1].id
        /\ film'[Len(film) + 1].time = last'
        /\ origin' # <<>>
        /\ origin # <<>> => Spaced(last, last')
        /\ last' <= MaxTime
    BY <1>1, WriteFacts, WriteTime DEF TypeOK
  <2>2. Len(film) \in Nat BY <2>1
  <2>3. TimeInv' BY <2>1, <2>2 DEF TimeInv
  <2>4. ASSUME NEW i \in 1 .. Len(film') - 1
        PROVE  /\ film'[i].id < film'[i + 1].id
               /\ Spaced(film'[i].time, film'[i + 1].time)
    <3>1. CASE i = Len(film)
      <4>1. film # <<>> /\ last = film[Len(film)].time /\ origin # <<>>
        BY <2>1, <2>2, <3>1 DEF TimeInv
      <4>2. worker = "write" BY <1>1 DEF Write
      <4> QED BY <2>1, <2>2, <3>1, <4>1, <4>2, RecorderAssumption DEF InOrder
    <3>2. CASE i # Len(film)
      BY <2>1, <2>2, <3>2 DEF FilmOrdered, Spaced
    <3> QED BY <3>1, <3>2
  <2> QED BY <2>3, <2>4 DEF FilmOrdered, Spaced
<1>2. CASE Start \/ Crash
  BY <1>2, RecorderAssumption DEF Start, Crash, TimeInv, FilmOrdered
<1>3. CASE UNCHANGED <<film, origin, last>>
  BY <1>3 DEF TimeInv, FilmOrdered
<1> QED
  BY <1>1, <1>2, <1>3
     DEF Next, OwnerSteps, FeederSteps, WorkerSteps, Stop, Enqueue, StartStatus,
         Spawn, SpawnFailed, SpawnReport, StopNotify, StopJoin, EnqueueNotify,
         OpenWriter, ReportRecording, Take, Sleep, WriteFailed,
         ReportFinalizing, Finalize, Publish, ReportCompleted,
         ReportUnpublished, Discard, RemovePartial, ReportFailed,
         vars, timeVars, history

(* No accepted frame is lost on the way: it is in the file, in the worker's *)
(* hand, in the queue, or was pushed out; and the newest is never pushed    *)
(* out.                                                                     *)
LEMMA CountStep ==
    TypeOK /\ LifeInv /\ HandInv /\ CountInv /\ EndInv /\ [Next]_vars
        => CountInv' /\ EndInv'
<1> SUFFICES ASSUME TypeOK, LifeInv, HandInv, CountInv, EndInv, [Next]_vars
             PROVE  CountInv' /\ EndInv'
  OBVIOUS
<1>1. CASE Start
  <2>1. /\ hand = <<>> /\ film' = <<>> /\ queue' = <<>> /\ hand' = <<>>
        /\ worker' = "none" /\ dropped' = 0 /\ accepted' = 0
        /\ owner' = "starting"
    BY <1>1 DEF Start, HandInv, Joined, Failing
  <2>2. Accounted' BY <2>1 DEF Accounted
  <2>3. NewestKept' BY <2>1 DEF NewestKept
  <2> QED BY <2>1, <2>2, <2>3 DEF CountInv, EndInv, Finished, Preparing
<1>2. ASSUME NEW pts \in Pts, Enqueue(pts) PROVE CountInv' /\ EndInv'
  <2>1. PICK d \in {0, 1} :
          /\ Len(queue) >= d /\ Len(queue') = Len(queue) - d + 1
          /\ dropped' = dropped + d
          /\ queue' \in Seq(Frames)
          /\ queue'[Len(queue')].id = minted + 1
    BY <1>2, EnqueueFacts
  <2>2. /\ minted' = minted + 1 /\ accepted' = accepted + 1 /\ Accepts
        /\ UNCHANGED <<worker, hand, film, owner>>
        /\ status'.of = status.of /\ status'.error = status.error
    BY <1>2 DEF Enqueue, TypeOK, Statuses
  <2>3. ~Finished' BY <2>2 DEF EndInv, Finished, Joined, Preparing
  <2>4. Len(queue) \in Nat /\ Len(film) \in Nat /\ Len(hand) \in Nat
        /\ dropped \in Nat /\ accepted \in Nat
    BY DEF TypeOK
  <2>5. Accounted => Accounted' BY <2>1, <2>2, <2>4 DEF Accounted
  <2>6. queue' # <<>> BY <2>1, <2>4
  <2>7. NewestKept' BY <2>1, <2>2, <2>6 DEF NewestKept
  <2> QED BY <2>2, <2>3, <2>5, <2>7 DEF CountInv, EndInv, Working, Preparing,
            Joined, Failing
<1>3. CASE Take
  <2>1. /\ Len(hand') = 1 /\ hand'[1] = queue[1]
        /\ Len(queue) \in Nat \ {0} /\ queue' \in Seq(Frames)
        /\ Len(queue') = Len(queue) - 1
        /\ \A i \in 1 .. Len(queue) - 1 : queue'[i] = queue[i + 1]
    BY <1>3, TakeFacts
  <2>2. /\ worker = "take" /\ worker' = "write" /\ hand = <<>>
        /\ UNCHANGED <<film, dropped, accepted, minted>>
    BY <1>3 DEF Take, HandInv, Failing, Goto, history
  <2>3. Accounted /\ NewestKept
    BY <2>2 DEF CountInv, Working, Joined, Failing
  <2>4. Accounted'
    <3>1. Len(hand) = 0 /\ Len(film) \in Nat /\ dropped \in Nat
      BY <2>2 DEF TypeOK
    <3> QED BY <2>1, <2>2, <2>3, <3>1 DEF Accounted
  <2>5. NewestKept'
    <3>1. queue # <<>> /\ queue[Len(queue)].id = minted
      BY <2>1, <2>3 DEF NewestKept
    <3>2. CASE Len(queue) = 1
      BY <2>1, <2>2, <3>1, <3>2 DEF NewestKept
    <3>3. CASE Len(queue) # 1
      <4>1. Len(queue') \in 1 .. Len(queue) - 1 BY <2>1, <3>3
      <4>2. queue'[Len(queue')] = queue[Len(queue)] BY <2>1, <4>1
      <4> QED BY <2>1, <2>2, <3>1, <4>1, <4>2 DEF NewestKept
    <3> QED BY <3>2, <3>3
  <2> QED BY <2>2, <2>4, <2>5 DEF CountInv, EndInv, Finished, Joined
<1>4. CASE Write
  <2>1. /\ film' \in Seq(Samples) /\ Len(film') = Len(film) + 1
        /\ film'[Len(film) + 1].id = hand[1].id
    BY <1>4, WriteFacts
  <2>2. /\ worker = "write" /\ worker' = "take" /\ hand' = <<>>
        /\ UNCHANGED <<queue, dropped, accepted, minted>>
    BY <1>4 DEF Write, Goto, queueVars
  <2>3. Accounted /\ NewestKept
    BY <2>2 DEF CountInv, Working, Joined, Failing
  <2>4. Accounted'
    <3>1. /\ Len(hand) = 1 /\ Len(hand') = 0 /\ Len(film) \in Nat
          /\ dropped \in Nat /\ Len(queue) \in Nat
      BY <2>2 DEF TypeOK, HandInv
    <3> QED BY <2>1, <2>2, <2>3, <3>1 DEF Accounted
  <2>5. NewestKept'
    BY <2>1, <2>2, <2>3 DEF NewestKept
  <2> QED BY <2>2, <2>4, <2>5 DEF CountInv, EndInv, Finished, Joined
<1> USE DEF TypeOK, LifeInv, HandInv, CountInv, EndInv, Finished, Accepts,
      Accounted, NewestKept, Working, Failing, Joined, Preparing, Statuses,
      queueVars, timeVars, fileVars, history
<1>5. CASE Stop BY <1>5 DEF Stop
<1>6. CASE StartStatus BY <1>6 DEF StartStatus, Snapshot
<1>7. CASE Spawn BY <1>7 DEF Spawn
<1>8. CASE SpawnFailed BY <1>8 DEF SpawnFailed
<1>9. CASE SpawnReport BY <1>9 DEF SpawnReport
<1>10. CASE StopNotify BY <1>10 DEF StopNotify, Notified
<1>11. CASE StopJoin BY <1>11 DEF StopJoin
<1>12. CASE EnqueueNotify BY <1>12 DEF EnqueueNotify, Notified
<1>13. ASSUME NEW opened \in BOOLEAN, NEW left \in BOOLEAN,
              OpenWriter(opened, left)
       PROVE  CountInv' /\ EndInv'
  BY <1>13 DEF OpenWriter, Goto
<1>14. CASE ReportRecording BY <1>14 DEF ReportRecording, Goto
<1>15. CASE Sleep BY <1>15 DEF Sleep, Goto
<1>16. CASE WriteFailed BY <1>16 DEF WriteFailed, Goto
<1>17. CASE ReportFinalizing BY <1>17 DEF ReportFinalizing, Goto, Drained
<1>18. ASSUME NEW ok \in BOOLEAN, Finalize(ok) PROVE CountInv' /\ EndInv'
  BY <1>18 DEF Finalize, Goto
<1>19. CASE Publish BY <1>19 DEF Publish, Goto
<1>20. CASE ReportCompleted BY <1>20 DEF ReportCompleted, Goto
<1>21. CASE ReportUnpublished BY <1>21 DEF ReportUnpublished, Goto
<1>22. CASE Discard BY <1>22 DEF Discard, Goto
<1>23. CASE RemovePartial BY <1>23 DEF RemovePartial, Goto
<1>24. CASE ReportFailed BY <1>24 DEF ReportFailed, Goto
<1>25. CASE Crash BY <1>25 DEF Crash, Snapshot
<1>26. CASE UNCHANGED vars BY <1>26 DEF vars
<1> QED
  BY <1>1, <1>2, <1>3, <1>4, <1>5, <1>6, <1>7, <1>8, <1>9, <1>10, <1>11,
     <1>12, <1>13, <1>14, <1>15, <1>16, <1>17, <1>18, <1>19, <1>20, <1>21,
     <1>22, <1>23, <1>24, <1>25, <1>26
     DEF Next, OwnerSteps, FeederSteps, WorkerSteps

-----------------------------------------------------------------------------
(* The parts together: the recorder's inductive invariant.                  *)
LEMMA Invariant == Spec => []IInv
<1>1. Init => IInv
  <2> SUFFICES ASSUME Init PROVE IInv
    OBVIOUS
  <2>0. <<>> \in Seq(Frames) /\ <<>> \in Seq(Nat) /\ <<>> \in Seq(Samples)
        /\ Len(<<>>) = 0
    OBVIOUS
  <2>1. TypeOK
    <3>1. status \in Statuses BY SnapshotType DEF Init, States
    <3>2. active \in BOOLEAN /\ stopReq \in BOOLEAN BY Zenon DEF Init
    <3> QED BY <2>0, <3>1, <3>2, RecorderAssumption DEF Init, TypeOK
  <2>2. LifeInv /\ PartialAccounted
    BY RecorderAssumption
       DEF Init, LifeInv, PartialAccounted, Snapshot, Preparing, Joined, Sessions
  <2>3. HandInv /\ InOrder /\ TimeInv /\ FilmOrdered
    BY <2>0, RecorderAssumption DEF Init, HandInv, InOrder, TimeInv, FilmOrdered
  <2>4. CountInv /\ EndInv
    BY DEF Init, CountInv, EndInv, Working, Preparing, Finished, Joined, Snapshot
  <2> QED BY <2>1, <2>2, <2>3, <2>4 DEF IInv
<1>2. IInv /\ [Next]_vars => IInv'
  BY TypeStep, LifeStep, PartialStep, HandStep, OrderStep, TimeStep, CountStep
     DEF IInv
<1> QED BY <1>1, <1>2, PTL DEF Spec

(* In every run of the recorder the state has its types and queue_ never     *)
(* exceeds config.queueCapacity.                                            *)
THEOREM TypeCorrect == Spec => []TypeOK
<1>1. IInv => TypeOK BY DEF IInv
<1> QED BY <1>1, Invariant, PTL

(* The samples of every file are in arrival order and at least one frame's   *)
(* duration apart until MonotonicTimeline saturates, and never go back,      *)
(* whatever the source's clock does and whatever the queue drops.            *)
THEOREM SamplesOrdered == Spec => []FilmOrdered
<1>1. IInv => FilmOrdered BY DEF IInv
<1> QED BY <1>1, Invariant, PTL

(* A snapshot that reports failure names a playable partial file, or none is *)
(* left on disk (discardAndFail, and the rename that fails).                 *)
THEOREM FailuresAccounted == Spec => []PartialAccounted
<1>1. IInv => PartialAccounted BY DEF IInv
<1> QED BY <1>1, Invariant, PTL

(* The final path is only replaced by the finished, drained recording of the *)
(* running session (MoveFileEx after finalize).                              *)
THEOREM FinalPathReplacedWhole == Spec => OutputReplacedWhole
<1> DEFINE Whole == output' # output => /\ output' = session
                                        /\ partial[session] = "playable"
                                        /\ Len(film) + dropped = accepted
<1>1. IInv /\ [Next]_vars => [Whole]_vars
  <2> SUFFICES ASSUME IInv, [Next]_vars PROVE [Whole]_vars
    OBVIOUS
  <2>1. CASE Publish
    <3>1. worker = "publish" /\ output' = session BY <2>1 DEF Publish
    <3>2. partial[session] = "playable" /\ hand = <<>> /\ queue = <<>>
      BY <3>1 DEF IInv, LifeInv, HandInv, Failing
    <3>3. Accounted
      BY <3>1 DEF IInv, CountInv, Working, Joined, Failing
    <3>4. Len(film) \in Nat /\ dropped \in Nat /\ Len(<<>>) = 0
      BY DEF IInv, TypeOK
    <3> QED BY <3>1, <3>2, <3>3, <3>4 DEF Accounted
  <2>2. CASE UNCHANGED output BY <2>2
  <2> QED
    BY <2>1, <2>2
       DEF Next, OwnerSteps, FeederSteps, WorkerSteps, Start, Stop, Enqueue,
           StartStatus, Spawn, SpawnFailed, SpawnReport, StopNotify, StopJoin,
           EnqueueNotify, OpenWriter, ReportRecording, Take, Sleep, Write,
           WriteFailed, ReportFinalizing, Finalize, ReportCompleted,
           ReportUnpublished, Discard, RemovePartial, ReportFailed, Crash,
           vars, fileVars
<1> QED BY <1>1, Invariant, PTL DEF Spec, OutputReplacedWhole

(* IMp4Recorder::stop: when it returns and the snapshot has no error, the    *)
(* final path holds this session's recording with every accepted frame that  *)
(* no newer one pushed out, the newest last.                                 *)
THEOREM StopDelivers == Spec => StopGuarantee
<1> DEFINE Delivers ==
      owner = "joining" /\ owner' = "idle" /\ status' = status
        /\ status.of # 0 /\ ~status.error
        => /\ output = session
           /\ Len(film) + dropped = accepted
           /\ film # <<>> => film[Len(film)].id = minted
<1>1. IInv /\ [Next]_vars => [Delivers]_vars
  <2> SUFFICES ASSUME IInv, [Next]_vars, owner = "joining", owner' = "idle",
                      status' = status, status.of # 0, ~status.error
               PROVE  /\ output = session
                      /\ Len(film) + dropped = accepted
                      /\ film # <<>> => film[Len(film)].id = minted
    OBVIOUS
  <2>1. CASE Joined
    BY <2>1 DEF IInv, EndInv, Finished, Preparing
  <2>2. CASE Crash
    BY <2>2 DEF Crash, Snapshot
  <2>3. CASE ~Joined /\ ~Crash
    BY <2>3
       DEF Next, OwnerSteps, FeederSteps, WorkerSteps, Start, Stop, Enqueue,
           StartStatus, Spawn, SpawnFailed, SpawnReport, StopNotify, StopJoin,
           EnqueueNotify, OpenWriter, ReportRecording, Take, Sleep, Write,
           WriteFailed, ReportFinalizing, Finalize, Publish, ReportCompleted,
           ReportUnpublished, Discard, RemovePartial, ReportFailed, vars
  <2> QED BY <2>1, <2>2, <2>3
<1> QED BY <1>1, Invariant, PTL DEF Spec, StopGuarantee

-----------------------------------------------------------------------------
(* The controls. *)

(* Which stage of which recording the snapshot is at. *)
StageInv ==
    /\ status.of <= session
    /\ owner = "starting" => status.of < session
    /\ status.state = "Idle" => status.of = 0
    /\ owner \in {"spawn", "unspawned"} \/ worker \in {"open", "opened"} =>
           status.state = "Starting"
    /\ worker \in {"take", "asleep", "write"} => status.state = "Recording"
    /\ worker \in {"finalize", "publish", "completed"} => status.state = "Finalizing"

(* What the window shows is the snapshot, or an earlier stage of it. *)
UiInv ==
    /\ ui \in [state : States, of : Nat]
    /\ ui.of <= status.of
    /\ ui.of = status.of /\ ui.of # 0 => Rank(ui.state) <= Rank(status.state)
    /\ ui.state = "Idle" => ui.of = 0

LEMMA Ranks ==
    /\ Rank("Idle") = 0 /\ Rank("Starting") = 1 /\ Rank("Recording") = 2
    /\ Rank("Finalizing") = 3 /\ Rank("Completed") = 4 /\ Rank("Failed") = 4
  BY DEF Rank

LEMMA RankTop == \A state \in States : Rank(state) \in 0 .. 4
  BY Ranks DEF States

(* The window and the recorder agree with the recorder's own specification:  *)
(* every step of the controls is a step of the recorder or leaves it alone.  *)
LEMMA ControlsStep == [GuiNext]_allVars => [Next]_vars
  BY DEF GuiNext, GuiSteps, StartImpossible, StartRecording, StopRecording, CallReturns,
         ErrorStopReturns, Deliver, DeliverError, FrameMismatch, RecorderStep, Feed,
         allVars, Next

(* Each recorder step keeps the stages in step with its threads.            *)
LEMMA StageStep == TypeOK /\ LifeInv /\ StageInv /\ [Next]_vars => StageInv'
<1> SUFFICES ASSUME TypeOK, LifeInv, StageInv, [Next]_vars PROVE StageInv'
  OBVIOUS
<1> USE RecorderAssumption DEF TypeOK, LifeInv, StageInv, Statuses, Joined, Preparing,
      Sessions, queueVars, timeVars, fileVars, history, Goto
<1>1. CASE Start BY <1>1 DEF Start
<1>s. CASE Stop BY <1>s DEF Stop
<1>2. ASSUME NEW pts \in Pts, Enqueue(pts) PROVE StageInv'
  BY <1>2 DEF Enqueue
<1>3. CASE StartStatus BY <1>3 DEF StartStatus, Snapshot
<1>4. CASE Spawn BY <1>4 DEF Spawn
<1>5. CASE SpawnFailed BY <1>5 DEF SpawnFailed
<1>6. CASE SpawnReport BY <1>6 DEF SpawnReport
<1>7. CASE StopNotify \/ EnqueueNotify BY <1>7 DEF StopNotify, EnqueueNotify, Notified
<1>8. CASE StopJoin BY <1>8 DEF StopJoin
<1>9. ASSUME NEW opened \in BOOLEAN, NEW left \in BOOLEAN, OpenWriter(opened, left) PROVE StageInv'
  BY <1>9 DEF OpenWriter
<1>10. CASE ReportRecording BY <1>10 DEF ReportRecording
<1>11. CASE Take BY <1>11 DEF Take
<1>12. CASE Sleep \/ WriteFailed BY <1>12 DEF Sleep, WriteFailed
<1>13. CASE Write BY <1>13 DEF Write
<1>14. CASE ReportFinalizing BY <1>14 DEF ReportFinalizing
<1>15. ASSUME NEW ok \in BOOLEAN, Finalize(ok) PROVE StageInv'
  BY <1>15 DEF Finalize
<1>16. CASE Publish \/ Discard \/ RemovePartial BY <1>16 DEF Publish, Discard, RemovePartial
<1>17. CASE ReportCompleted BY <1>17 DEF ReportCompleted
<1>u. CASE ReportUnpublished BY <1>u DEF ReportUnpublished
<1>f. CASE ReportFailed BY <1>f DEF ReportFailed
<1>18. CASE Crash BY <1>18 DEF Crash, Snapshot
<1>19. CASE UNCHANGED vars BY <1>19 DEF vars
<1> QED
  BY <1>1, <1>2, <1>3, <1>4, <1>5, <1>6, <1>7, <1>8, <1>9, <1>10, <1>11, <1>12,
     <1>13, <1>14, <1>15, <1>16, <1>17, <1>18, <1>19, <1>s, <1>u, <1>f
     DEF Next, OwnerSteps, FeederSteps, WorkerSteps

(* While the process lives the snapshot never goes back: not to an earlier  *)
(* recording, not to an earlier stage of one.                               *)
Advances ==
    /\ status'.of >= status.of
    /\ status'.of = status.of => Rank(status.state) <= Rank(status'.state)

LEMMA StatusAdvances ==
  ASSUME TypeOK, LifeInv, StageInv,
         Start \/ Stop \/ (\E pts \in Pts : Enqueue(pts)) \/ OwnerSteps \/ FeederSteps \/ WorkerSteps
  PROVE  Advances
<1>r. Rank(status.state) \in 0 .. 4
  BY RankTop DEF TypeOK, Statuses
<1>s. status.of \in Nat /\ session \in Nat
  BY DEF TypeOK, Statuses
<1>k. ASSUME status'.of = status.of, status'.state = status.state PROVE Advances
  BY <1>k, <1>r, <1>s DEF Advances
<1> USE DEF TypeOK, Statuses
<1>1. CASE Start \/ Stop \/ Spawn \/ SpawnFailed \/ StopNotify \/ StopJoin \/ EnqueueNotify
  BY <1>1, <1>k DEF Start, Stop, Spawn, SpawnFailed, StopNotify, StopJoin, EnqueueNotify
<1>2. ASSUME NEW pts \in Pts, Enqueue(pts) PROVE Advances
  BY <1>2, <1>k DEF Enqueue
<1>3. CASE StartStatus
  <2>1. status'.of = session /\ status.of < session
    BY <1>3 DEF StartStatus, Snapshot, StageInv
  <2> QED BY <2>1, <1>s DEF Advances
<1>4. CASE SpawnReport \/ ReportCompleted \/ ReportUnpublished \/ ReportFailed
  <2>1. status'.of = status.of /\ status'.state \in {"Completed", "Failed"}
    BY <1>4 DEF SpawnReport, ReportCompleted, ReportUnpublished, ReportFailed
  <2> QED BY <2>1, <1>r, <1>s, Ranks DEF Advances
<1>5. CASE ReportRecording
  <2>1. status'.of = status.of /\ status'.state = "Recording" /\ status.state = "Starting"
    BY <1>5 DEF ReportRecording, StageInv
  <2> QED BY <2>1, <1>s, Ranks DEF Advances
<1>6. CASE ReportFinalizing
  <2>1. status'.of = status.of /\ status'.state = "Finalizing" /\ status.state = "Recording"
    BY <1>6 DEF ReportFinalizing, StageInv
  <2> QED BY <2>1, <1>s, Ranks DEF Advances
<1>7. CASE (\E opened, left \in BOOLEAN : OpenWriter(opened, left)) \/ (\E ok \in BOOLEAN : Finalize(ok))
  BY <1>7, <1>k DEF OpenWriter, Finalize
<1>8. CASE Take \/ Sleep \/ Write \/ WriteFailed \/ Publish \/ Discard \/ RemovePartial
  BY <1>8, <1>k DEF Take, Sleep, Write, WriteFailed, Publish, Discard, RemovePartial
<1> QED
  BY <1>1, <1>2, <1>3, <1>4, <1>5, <1>6, <1>7, <1>8 DEF OwnerSteps, FeederSteps, WorkerSteps

LEMMA UiStep ==
  ASSUME TypeOK, LifeInv, StageInv, UiInv, TypeOK', [GuiNext]_allVars
  PROVE  UiInv' /\ (ui' # ui => /\ ui.of <= ui'.of
                                /\ ui.of = ui'.of /\ ui.of # 0 => Rank(ui.state) <= Rank(ui'.state))
<1>t. /\ status.of \in Nat /\ status.state \in States /\ ui.of \in Nat /\ ui.state \in States
      /\ Rank(status.state) \in 0 .. 4 /\ Rank(ui.state) \in 0 .. 4
  BY RankTop DEF TypeOK, Statuses, UiInv
(* The recorder moves, the window does not. *)
<1>1. ASSUME ui' = ui, status' = status \/ Advances PROVE UiInv'
  <2>1. CASE status' = status
    BY <1>1, <2>1 DEF UiInv
  <2>2. CASE Advances
    <3>1. status'.of \in Nat /\ Rank(status'.state) \in 0 .. 4
      BY <1>1, RankTop DEF TypeOK, Statuses
    <3>2. ui'.of <= status'.of
      BY <1>1, <2>2, <3>1, <1>t DEF UiInv, Advances
    <3>3. ASSUME ui'.of = status'.of, ui'.of # 0 PROVE Rank(ui'.state) <= Rank(status'.state)
      BY <1>1, <2>2, <3>1, <3>3, <1>t DEF UiInv, Advances
    <3> QED BY <1>1, <3>2, <3>3 DEF UiInv
  <2> QED BY <1>1, <2>1, <2>2
(* The window takes over the snapshot as it is now. *)
<1>2. ASSUME ui' = Current, status' = status
      PROVE  UiInv' /\ ui.of <= ui'.of /\ (ui.of = ui'.of /\ ui.of # 0 => Rank(ui.state) <= Rank(ui'.state))
  <2>1. ui'.state = status.state /\ ui'.of = status.of /\ ui' \in [state : States, of : Nat]
    BY <1>2, <1>t DEF Current
  <2> QED BY <1>2, <2>1, <1>t DEF UiInv, StageInv
<1>3. CASE StartImpossible
  <2>1. /\ status' = status /\ ui' = [ui EXCEPT !.state = "Failed"] /\ ui.state \in {"Idle", "Completed", "Failed"}
    BY <1>3, <1>t DEF StartImpossible, ShownRecording, vars, States
  <2>2. ui'.of = ui.of /\ ui'.state = "Failed" /\ ui' \in [state : States, of : Nat]
    BY <2>1, <1>t DEF UiInv, States
  <2>3. ui.of # 0 => Rank(ui.state) = 4 /\ Rank(ui'.state) = 4
    BY <2>1, <2>2, Ranks DEF UiInv
  <2> QED BY <2>1, <2>2, <2>3, <1>t DEF UiInv
<1>4. TypeOK /\ LifeInv /\ StageInv => (StartRecording \/ StopRecording \/ DeliverError \/ RecorderStep \/ Feed
          => ui' = ui /\ (status' = status \/ Advances))
  BY StatusAdvances DEF StartRecording, StopRecording, DeliverError, RecorderStep, Feed, guiVars, vars
<1>5. CASE CallReturns \/ Deliver
  <2>1. ui' = Current /\ status' = status
    BY <1>5 DEF CallReturns, Deliver, Apply, ShownNow, vars
  <2> QED BY <2>1, <1>2
<1>6. CASE ErrorStopReturns
  <2>1. ui' = Current /\ status' = status
    BY <1>6 DEF ErrorStopReturns, vars
  <2> QED BY <2>1, <1>2
<1>7. CASE FrameMismatch \/ UNCHANGED allVars
  BY <1>7 DEF FrameMismatch, allVars, guiVars, vars, UiInv
<1>8. CASE StartRecording \/ StopRecording \/ DeliverError \/ RecorderStep \/ Feed
  <2>1. ui' = ui /\ (status' = status \/ Advances)
    BY <1>4, <1>8
  <2> QED BY <2>1, <1>1
<1> QED BY <1>3, <1>5, <1>6, <1>7, <1>8 DEF GuiNext, GuiSteps

(* The recorder under the controls is the recorder: everything proved of     *)
(* Spec above holds of it.                                                   *)
THEOREM ControlsUseRecorder == GuiSpec => Spec
<1>1. GuiInit => Init BY DEF GuiInit
<1> QED BY <1>1, ControlsStep, PTL DEF GuiSpec, Spec

LEMMA ControlsInvariant == GuiSpec => [](IInv /\ StageInv /\ UiInv)
<1>1. GuiInit => StageInv /\ UiInv
  <2> SUFFICES ASSUME GuiInit PROVE StageInv /\ UiInv
    OBVIOUS
  <2>1. status.state = "Idle" /\ status.of = 0 /\ session = 0 /\ owner = "idle" /\ worker = "none"
    BY DEF GuiInit, Init, Snapshot
  <2>2. ui = [state |-> "Idle", of |-> 0]
    BY <2>1 DEF GuiInit, Current
  <2> QED BY <2>1, <2>2 DEF StageInv, UiInv, States
<1>2. IInv /\ IInv' /\ StageInv /\ UiInv /\ [GuiNext]_allVars => StageInv' /\ UiInv'
  BY ControlsStep, StageStep, UiStep DEF IInv
<1> QED BY <1>1, <1>2, ControlsUseRecorder, Invariant, PTL DEF GuiSpec

(* What the window shows of a recording never goes back to an earlier stage  *)
(* or recording, however the observer's events are queued behind start(),    *)
(* stop() and each other (the state is read when an event is delivered).     *)
THEOREM WindowNeverReverts == GuiSpec => UiNeverReverts
<1> DEFINE Forward == /\ ui.of <= ui'.of
                      /\ ui.of = ui'.of /\ ui.of # 0 => Rank(ui.state) <= Rank(ui'.state)
<1>1. IInv /\ IInv' /\ StageInv /\ UiInv /\ [GuiNext]_allVars => [Forward]_allVars
  <2> SUFFICES ASSUME IInv, IInv', StageInv, UiInv, [GuiNext]_allVars PROVE Forward
    OBVIOUS
  <2>1. CASE ui' = ui
    <3>1. ui.of \in Nat /\ Rank(ui.state) \in 0 .. 4
      BY RankTop DEF UiInv
    <3> QED BY <2>1, <3>1
  <2>2. CASE ui' # ui
    BY <2>2, UiStep DEF IInv
  <2> QED BY <2>1, <2>2
<1> QED BY <1>1, ControlsInvariant, PTL DEF GuiSpec, UiNeverReverts
=============================================================================
