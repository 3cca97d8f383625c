-------------------------- MODULE LivePipelineProofs --------------------------
(***************************************************************************)
(* Safety of LivePipeline for every queue limit, every modulus of the unit *)
(* numbers and every number of resets; and of FrameSink, where its worker  *)
(* publishes, for every number of staging slots and every set of           *)
(* geometries.  And what MediaBytes' loops compute: the decoder of frames   *)
(* for any stream cut into any chunks, the inspection of access units for  *)
(* any NAL units.                                                          *)
(***************************************************************************)
EXTENDS MediaBytes, FrameSink, FiniteSetTheorems, SequenceTheorems, WellFoundedInduction, TLAPS

(* The decoder was last fed the unit before n. *)
Precedes(n) == decoder # None /\ decoder.last # Fresh /\ Succ(decoder.last) = n

(* Units of the stream g, with no gap but before a keyframe *)
Chained(q, g) ==
    \A i \in 1..Len(q) :
        q[i].gen = g /\ (i > 1 /\ ~q[i].key => Succ(q[i - 1].n) = q[i].n)

(* What is queued is of the session's present stream and in one piece; a     *)
(* pipeline that waits for a keyframe has nothing queued.                    *)
QueueInv == (waiting # "no" => queue = <<>>) /\ Chained(queue, gen)

(* The unit before the queue's first is in the worker's hand, or was fed. *)
HeadInv ==
    queue # <<>> /\ ~queue[1].key /\ work # "ended" =>
        /\ ~pendingReset
        /\ work = "decode" => Succ(unit.n) = queue[1].n
        /\ work # "decode" => Precedes(queue[1].n)

(* Whatever may follow as a delta follows the last unit that was accepted. *)
TailInv ==
    waiting = "no" /\ ~gap /\ work # "ended" =>
        /\ queue # <<>> => Succ(queue[Len(queue)].n) = next
        /\ queue = <<>> =>
             /\ ~pendingReset
             /\ work = "decode" => Succ(unit.n) = next
             /\ work # "decode" => Precedes(next)

(* The worker's stream is the session's, unless a reset is on its way. *)
StreamInv ==
    /\ decoder.gen = 0 => decoder = None
    /\ work = "decode" => unit # NoUnit /\ unit.gen # 0 /\ decoder.gen \in {0, unit.gen}
    /\ ~pendingReset => decoder.gen \in {0, gen} /\ (work = "decode" => unit.gen = gen)
    /\ work = "ended" => stop # "run"

(* The inductive invariant *)
IInv == TypeOK /\ QueueInv /\ HeadInv /\ TailInv /\ StreamInv /\ DecodableFeed

-----------------------------------------------------------------------------
LEMMA SuccType ==
  ASSUME NEW n \in Nat
  PROVE  Succ(n) \in 0..(Wrap - 1)
  BY WrapAssumption DEF Succ

LEMMA NoneType == None \in [gen : 0..(MaxResets + 1), last : 0..Wrap]
  BY WrapAssumption, ResetsAssumption DEF None

(* The decoder that selectCodec keeps or opens, after it was fed or flushed. *)
LEMMA SelectedFacts ==
  ASSUME TypeOK, StreamInv, work = "decode", NEW n \in 0..Wrap
  PROVE  LET d == [Selected EXCEPT !.last = n]
         IN /\ d \in [gen : 0..(MaxResets + 1), last : 0..Wrap]
            /\ d.gen = unit.gen /\ d.gen # 0 /\ d # None /\ d.last = n
  <1>1. unit \in Units /\ unit.gen \in 1..(MaxResets + 1)
    BY DEF TypeOK, StreamInv, Units
  <1>2. /\ Selected \in [gen : 0..(MaxResets + 1), last : 0..Wrap]
        /\ Selected.gen = unit.gen
    BY <1>1, WrapAssumption, ResetsAssumption
       DEF Selected, Opened, Fresh, TypeOK, StreamInv
  <1> QED BY <1>1, <1>2, ResetsAssumption DEF None

(* What is left after the first unit was taken. *)
LEMMA TakeFacts ==
  ASSUME NEW q \in Seq(Units), q # <<>>, NEW g, Chained(q, g)
  PROVE  /\ Head(q) = q[1] /\ q[1] \in Units /\ q[1].gen = g
         /\ Tail(q) \in Seq(Units) /\ Len(Tail(q)) \in Nat /\ Len(Tail(q)) <= Len(q)
         /\ Chained(Tail(q), g)
         /\ Tail(q) = <<>> => q[Len(q)] = q[1]
         /\ Tail(q) # <<>> =>
              /\ Tail(q)[Len(Tail(q))] = q[Len(q)]
              /\ ~Tail(q)[1].key => Succ(q[1].n) = Tail(q)[1].n
  <1>1. /\ Head(q) = q[1] /\ q[1] \in Units /\ Len(q) \in Nat /\ Len(q) >= 1
        /\ Tail(q) \in Seq(Units) /\ Len(Tail(q)) = Len(q) - 1
        /\ \A i \in 1..Len(Tail(q)) : Tail(q)[i] = q[i + 1]
    OBVIOUS
  <1>2. Tail(q) = <<>> <=> Len(q) = 1
    <2>1. ASSUME NEW t \in Seq(Units) PROVE t = <<>> <=> Len(t) = 0
      OBVIOUS
    <2>2. Tail(q) = <<>> <=> Len(Tail(q)) = 0
      BY <1>1, <2>1, Zenon
    <2>3. PICK n : n = Len(q) /\ n \in Nat /\ n >= 1
      BY <1>1
    <2>4. n - 1 = 0 <=> n = 1
      BY <2>3
    <2> QED BY <1>1, <2>2, <2>3, <2>4, Zenon
  <1>3. PICK t : t = Tail(q)
    OBVIOUS
  <1>4. /\ Len(t) = Len(q) - 1
        /\ \A i \in 1..Len(t) : t[i] = q[i + 1]
        /\ t = <<>> <=> Len(q) = 1
    BY <1>1, <1>2, <1>3
  <1>5. Chained(t, g)
    BY <1>1, <1>4 DEF Chained
  <1>6. q[1].gen = g
    BY <1>1 DEF Chained
  <1>7. t # <<>> => t[Len(t)] = q[Len(q)] /\ (~t[1].key => Succ(q[1].n) = t[1].n)
    <2> SUFFICES ASSUME t # <<>>
                 PROVE  t[Len(t)] = q[Len(q)] /\ (~t[1].key => Succ(q[1].n) = t[1].n)
      OBVIOUS
    <2>1. Len(q) > 1 /\ Len(t) \in 1..Len(t) /\ 1 \in 1..Len(t) /\ 2 \in 1..Len(q)
      BY <1>1, <1>4
    <2>2. t[Len(t)] = q[Len(q)] /\ t[1] = q[2]
      BY <1>1, <1>4, <2>1
    <2>3. ~q[2].key => Succ(q[1].n) = q[2].n
      BY <2>1 DEF Chained
    <2> QED BY <2>2, <2>3
  <1> QED BY <1>1, <1>2, <1>3, <1>5, <1>6, <1>7

(* What there is after a unit was queued. *)
LEMMA AppendFacts ==
  ASSUME NEW q \in Seq(Units), NEW u \in Units, Chained(q, u.gen),
         q # <<>> /\ ~u.key => Succ(q[Len(q)].n) = u.n
  PROVE  /\ Append(q, u) \in Seq(Units) /\ Len(Append(q, u)) = Len(q) + 1
         /\ Append(q, u)[1] = IF q = <<>> THEN u ELSE q[1]
         /\ Append(q, u)[Len(Append(q, u))] = u
         /\ Append(q, u) # <<>>
         /\ Chained(Append(q, u), u.gen)
  <1>1. /\ Append(q, u) \in Seq(Units) /\ Len(Append(q, u)) = Len(q) + 1
        /\ \A i \in 1..Len(q) : Append(q, u)[i] = q[i]
        /\ Append(q, u)[Len(q) + 1] = u
        /\ Append(q, u) # <<>>
        /\ Len(q) \in Nat /\ (q = <<>> <=> Len(q) = 0)
    OBVIOUS
  <1>2. PICK r : r = Append(q, u)
    OBVIOUS
  <1>3. /\ Len(r) = Len(q) + 1 /\ r[Len(q) + 1] = u
        /\ \A i \in 1..Len(q) : r[i] = q[i]
    BY <1>1, <1>2
  <1>4. Chained(r, u.gen)
    BY <1>1, <1>3 DEF Chained
  <1>5. r[1] = IF q = <<>> THEN u ELSE q[1]
    BY <1>1, <1>3
  <1> QED BY <1>1, <1>2, <1>3, <1>4, <1>5

LEMMA EmptyChained == ASSUME NEW g PROVE Chained(<<>>, g)
  BY DEF Chained

LEMMA InitInv == Init => IInv
  <1> SUFFICES ASSUME Init PROVE IInv
    OBVIOUS
  <1>1. gap \in BOOLEAN /\ pendingReset \in BOOLEAN
    BY Zenon DEF Init
  <1>2. TypeOK
    BY <1>1, NoneType, QueueAssumption, WrapAssumption, ResetsAssumption
       DEF Init, TypeOK, Units, Waits, NoUnit
  <1>3. QueueInv /\ HeadInv /\ TailInv
    BY DEF Init, QueueInv, HeadInv, TailInv, Chained
  <1>4. StreamInv /\ DecodableFeed
    BY DEF Init, StreamInv, DecodableFeed, None
  <1> QED BY <1>2, <1>3, <1>4 DEF IInv

LEMMA NextInv == IInv /\ [Next]_vars => IInv'
  <1> SUFFICES ASSUME IInv, [Next]_vars PROVE IInv'
    OBVIOUS
  <1> USE QueueAssumption, WrapAssumption, ResetsAssumption, SuccType
      DEF IInv, sessionVars, queueVars, workerVars
  <1>1. ASSUME NEW key \in BOOLEAN, Consume(key) PROVE IInv'
    <2>1. PICK u : u = [gen |-> gen, n |-> next, key |-> key]
      OBVIOUS
    <2>2. u \in Units /\ u.gen = gen /\ u.n = next /\ u.key = key
      BY <2>1 DEF TypeOK, Units
    <2>3. /\ next' \in 0..(Wrap - 1) /\ next' = Succ(next) /\ gap' = FALSE /\ (gap => key)
          /\ work # "ended"
          /\ UNCHANGED <<gen, pendingReset, work, unit, decoder, stop>>
      BY <1>1 DEF Consume, TypeOK, StreamInv
    <2>4. StreamInv' /\ DecodableFeed'
      BY <2>3 DEF StreamInv, DecodableFeed
    <2>5. ASSUME queue' \in Seq(Units), Len(queue') <= MaxQueued,
                 waiting' \in Waits, caller' \in {"idle", "ask"}
          PROVE  TypeOK'
      <3>1. gap' \in BOOLEAN
        BY <2>3, Zenon
      <3> QED BY <2>3, <2>5, <3>1 DEF TypeOK
    <2>6. CASE waiting # "no" /\ ~key
      <3>1. UNCHANGED <<queue, waiting, caller>>
        BY <1>1, <2>6 DEF Consume
      <3>2. TypeOK'
        BY <2>5, <3>1 DEF TypeOK
      <3> QED BY <2>3, <2>4, <2>6, <3>1, <3>2 DEF QueueInv, HeadInv, TailInv, Precedes
    <2>7. CASE ~(waiting # "no" /\ ~key) /\ Full
      <3>1. queue' = <<>> /\ waiting' = "lost" /\ caller' = "ask"
        BY <1>1, <2>7 DEF Consume, LoseAtOverflow, Lose, AfterOverflow
      <3>2. TypeOK'
        BY <2>5, <3>1 DEF Waits
      <3> QED BY <2>3, <2>4, <3>1, <3>2, EmptyChained DEF QueueInv, HeadInv, TailInv
    <2>8. CASE ~(waiting # "no" /\ ~key) /\ ~Full
      <3>1. queue' = Append(queue, u) /\ waiting' = "no" /\ UNCHANGED caller
        BY <1>1, <2>1, <2>8 DEF Consume
      <3>2. queue # <<>> /\ ~u.key => Succ(queue[Len(queue)].n) = u.n
        BY <2>2, <2>3, <2>8 DEF TailInv
      <3>3. queue \in Seq(Units) /\ Chained(queue, u.gen)
        BY <2>2 DEF TypeOK, QueueInv
      <3>4. /\ queue' \in Seq(Units) /\ Len(queue') = Len(queue) + 1
            /\ queue'[1] = IF queue = <<>> THEN u ELSE queue[1]
            /\ queue'[Len(queue')] = u /\ queue' # <<>>
            /\ Chained(queue', u.gen)
        BY <2>2, <3>1, <3>2, <3>3, AppendFacts
      <3>5. Len(queue) \in Nat /\ Len(queue) < MaxQueued
        <4>1. Len(queue) \in Nat
          BY <3>3
        <4> QED BY <2>8, <4>1 DEF Full
      <3>6. TypeOK'
        BY <2>5, <3>1, <3>4, <3>5 DEF Waits, TypeOK
      <3>7. QueueInv' /\ TailInv'
        BY <2>2, <2>3, <3>1, <3>4 DEF QueueInv, TailInv
      <3>8. HeadInv'
        <4>1. CASE queue = <<>>
          BY <2>2, <2>3, <2>8, <3>1, <3>4, <4>1 DEF HeadInv, TailInv, Precedes
        <4>2. CASE queue # <<>>
          BY <2>3, <3>4, <4>2 DEF HeadInv, Precedes
        <4> QED BY <4>1, <4>2
      <3> QED BY <2>4, <3>6, <3>7, <3>8
    <2> QED BY <2>6, <2>7, <2>8
  <1>2. ASSUME SessionGap PROVE IInv'
    <2>1. TypeOK'
      BY <1>2 DEF SessionGap, TypeOK, Units, Waits, NoUnit, None, Fresh
    <2>2. QueueInv'
      BY <1>2 DEF SessionGap, QueueInv, TypeOK
    <2>3. HeadInv'
      BY <1>2 DEF SessionGap, HeadInv, TailInv, QueueInv, Precedes, TypeOK, None, Fresh
    <2>4. TailInv'
      BY <1>2 DEF SessionGap, TailInv, QueueInv, HeadInv, Precedes, TypeOK, None, Fresh, Units
    <2>5. StreamInv'
      BY <1>2 DEF SessionGap, StreamInv, QueueInv, TypeOK, None, NoUnit, Units, Fresh
    <2>6. DecodableFeed'
      BY <1>2 DEF SessionGap, DecodableFeed, HeadInv, Precedes, TypeOK, None, Fresh
    <2> QED BY <2>1, <2>2, <2>3, <2>4, <2>5, <2>6
  <1>3. ASSUME ConsumeAsks PROVE IInv'
    <2>1. TypeOK'
      BY <1>3 DEF ConsumeAsks, Asks, TypeOK, Units, Waits, NoUnit, None, Fresh
    <2>2. QueueInv'
      BY <1>3 DEF ConsumeAsks, Asks, QueueInv, TypeOK
    <2>3. HeadInv'
      BY <1>3 DEF ConsumeAsks, Asks, HeadInv, TailInv, QueueInv, Precedes, TypeOK, None, Fresh
    <2>4. TailInv'
      BY <1>3 DEF ConsumeAsks, Asks, TailInv, QueueInv, HeadInv, Precedes, TypeOK, None, Fresh, Units
    <2>5. StreamInv'
      BY <1>3 DEF ConsumeAsks, Asks, StreamInv, QueueInv, TypeOK, None, NoUnit, Units, Fresh
    <2>6. DecodableFeed'
      BY <1>3 DEF ConsumeAsks, Asks, DecodableFeed, HeadInv, Precedes, TypeOK, None, Fresh
    <2> QED BY <2>1, <2>2, <2>3, <2>4, <2>5, <2>6
  <1>4. ASSUME Reset PROVE IInv'
    <2>1. TypeOK'
      BY <1>4 DEF Reset, Lose, TypeOK, Units, Waits, NoUnit, None, Fresh
    <2>2. QueueInv'
      BY <1>4 DEF Reset, Lose, QueueInv, Chained, TypeOK
    <2>3. HeadInv'
      BY <1>4 DEF Reset, Lose, HeadInv, TailInv, QueueInv, Precedes, TypeOK, None, Fresh
    <2>4. TailInv'
      BY <1>4 DEF Reset, Lose, TailInv, QueueInv, HeadInv, Precedes, TypeOK, None, Fresh, Units
    <2>5. StreamInv'
      BY <1>4 DEF Reset, Lose, StreamInv, QueueInv, TypeOK, None, NoUnit, Units, Fresh
    <2>6. DecodableFeed'
      BY <1>4 DEF Reset, Lose, DecodableFeed, HeadInv, Precedes, TypeOK, None, Fresh
    <2> QED BY <2>1, <2>2, <2>3, <2>4, <2>5, <2>6
  <1>5. ASSUME WorkerReset PROVE IInv'
    <2>1. TypeOK'
      BY <1>5, NoneType DEF WorkerReset, ResetFirst, TypeOK
    <2>2. None.gen = 0
      BY DEF None
    <2>3. QueueInv' /\ HeadInv' /\ TailInv'
      BY <1>5 DEF WorkerReset, ResetFirst, QueueInv, HeadInv, TailInv
    <2>4. StreamInv' /\ DecodableFeed'
      BY <1>5, <2>2 DEF WorkerReset, ResetFirst, StreamInv, DecodableFeed
    <2> QED BY <2>1, <2>3, <2>4
  <1>6. ASSUME WorkerTake PROVE IInv'
    <2>1. /\ work = "wait" /\ work' = "decode" /\ ~pendingReset /\ queue # <<>>
          /\ unit' = Head(queue) /\ queue' = Tail(queue)
          /\ UNCHANGED <<gen, next, gap, caller, pendingReset, waiting, decoder, stop>>
      BY <1>6 DEF WorkerTake, ResetFirst
    <2>2. queue \in Seq(Units) /\ Chained(queue, gen) /\ Len(queue) \in Nat
      BY DEF TypeOK, QueueInv
    <2>3. /\ unit' = queue[1] /\ unit' \in Units /\ unit'.gen = gen
          /\ queue' \in Seq(Units) /\ Len(queue') \in Nat /\ Len(queue') <= Len(queue)
          /\ Chained(queue', gen)
          /\ queue' = <<>> => queue[Len(queue)] = unit'
          /\ queue' # <<>> =>
               /\ queue'[Len(queue')] = queue[Len(queue)]
               /\ ~queue'[1].key => Succ(unit'.n) = queue'[1].n
      <3>1. /\ Head(queue) = queue[1] /\ queue[1] \in Units /\ queue[1].gen = gen
            /\ Tail(queue) \in Seq(Units) /\ Len(Tail(queue)) \in Nat
            /\ Len(Tail(queue)) <= Len(queue)
            /\ Chained(Tail(queue), gen)
            /\ Tail(queue) = <<>> => queue[Len(queue)] = queue[1]
            /\ Tail(queue) # <<>> =>
                 /\ Tail(queue)[Len(Tail(queue))] = queue[Len(queue)]
                 /\ ~Tail(queue)[1].key => Succ(queue[1].n) = Tail(queue)[1].n
        BY <2>1, <2>2, TakeFacts
      <3>2. unit' = queue[1]
        BY <2>1, <3>1, Zenon
      <3> QED BY <2>1, <3>1, <3>2, Zenon
    <2>4. TypeOK'
      <3>1. Len(queue') <= MaxQueued
        BY <2>2, <2>3 DEF TypeOK
      <3>2. unit' \in Units \cup {NoUnit}
        BY <2>3
      <3> QED BY <2>1, <2>3, <3>1, <3>2 DEF TypeOK
    <2>5. QueueInv' /\ HeadInv'
      BY <2>1, <2>3 DEF QueueInv, HeadInv
    <2>6. TailInv'
      BY <2>1, <2>3 DEF TailInv
    <2>7. StreamInv'
      <3>1. unit'.gen # 0 /\ unit' # NoUnit
        <4>1. gen # 0 /\ NoUnit.gen = 0
          BY DEF TypeOK, NoUnit
        <4> QED BY <2>3, <4>1
      <3> QED BY <2>1, <2>3, <3>1 DEF StreamInv
    <2>8. DecodableFeed'
      BY <2>1, <2>3 DEF DecodableFeed, HeadInv, Precedes
    <2> QED BY <2>4, <2>5, <2>6, <2>7, <2>8
  <1>7. ASSUME Decode PROVE IInv'
    <2>1. unit.n \in 0..(Wrap - 1) /\ Fresh \notin 0..(Wrap - 1)
      BY <1>7 DEF Decode, TypeOK, StreamInv, Units, Fresh
    <2>2. /\ decoder' \in [gen : 0..(MaxResets + 1), last : 0..Wrap]
          /\ decoder'.gen = unit.gen /\ decoder'.gen # 0 /\ decoder' # None
          /\ decoder'.last = unit.n
      BY <1>7, <2>1, SelectedFacts DEF Decode, Fed
    <2>3. /\ work = "decode" /\ work' = "wait" /\ unit' = NoUnit
          /\ UNCHANGED <<gen, next, gap, caller, queue, pendingReset, waiting, stop>>
      BY <1>7 DEF Decode
    <2>4. TypeOK'
      BY <2>2, <2>3 DEF TypeOK
    <2>5. QueueInv' /\ DecodableFeed'
      BY <2>3 DEF QueueInv, DecodableFeed
    <2>6. HeadInv' /\ TailInv'
      BY <2>1, <2>2, <2>3 DEF HeadInv, TailInv, Precedes
    <2>7. StreamInv'
      BY <2>2, <2>3 DEF StreamInv
    <2> QED BY <2>4, <2>5, <2>6, <2>7
  <1>8. ASSUME DecodeFails PROVE IInv'
    <2>1. /\ decoder' \in [gen : 0..(MaxResets + 1), last : 0..Wrap]
          /\ decoder'.gen = unit.gen /\ decoder'.gen # 0
      BY <1>8, SelectedFacts DEF DecodeFails, Flushed, Fresh
    <2>2. /\ work = "decode" /\ work' = "ask" /\ unit' = NoUnit
          /\ queue' = <<>> /\ waiting' = "lost"
          /\ UNCHANGED <<gen, next, gap, caller, pendingReset, stop>>
      BY <1>8 DEF DecodeFails, Lose
    <2>3. TypeOK'
      BY <2>1, <2>2 DEF TypeOK, Waits
    <2>4. QueueInv' /\ HeadInv' /\ TailInv' /\ DecodableFeed'
      BY <2>2 DEF QueueInv, Chained, HeadInv, TailInv, DecodableFeed
    <2>5. StreamInv'
      BY <2>1, <2>2 DEF StreamInv
    <2> QED BY <2>3, <2>4, <2>5
  <1>9. ASSUME WorkerAsks PROVE IInv'
    <2>1. TypeOK'
      BY <1>9 DEF WorkerAsks, Asks, TypeOK, Units, Waits, NoUnit, None, Fresh
    <2>2. QueueInv'
      BY <1>9 DEF WorkerAsks, Asks, QueueInv, TypeOK
    <2>3. HeadInv'
      BY <1>9 DEF WorkerAsks, Asks, HeadInv, TailInv, QueueInv, Precedes, TypeOK, None, Fresh
    <2>4. TailInv'
      BY <1>9 DEF WorkerAsks, Asks, TailInv, QueueInv, HeadInv, Precedes, TypeOK, None, Fresh, Units
    <2>5. StreamInv'
      BY <1>9 DEF WorkerAsks, Asks, StreamInv, QueueInv, TypeOK, None, NoUnit, Units, Fresh
    <2>6. DecodableFeed'
      BY <1>9 DEF WorkerAsks, Asks, DecodableFeed, HeadInv, Precedes, TypeOK, None, Fresh
    <2> QED BY <2>1, <2>2, <2>3, <2>4, <2>5, <2>6
  <1>10. ASSUME SelectFails PROVE IInv'
    <2>1. TypeOK'
      BY <1>10 DEF SelectFails, Lose, TypeOK, Units, Waits, NoUnit, None, Fresh
    <2>2. QueueInv'
      BY <1>10 DEF SelectFails, Lose, QueueInv, Chained, TypeOK
    <2>3. HeadInv'
      BY <1>10 DEF SelectFails, Lose, HeadInv, TailInv, QueueInv, Precedes, TypeOK, None, Fresh
    <2>4. TailInv'
      BY <1>10 DEF SelectFails, Lose, TailInv, QueueInv, HeadInv, Precedes, TypeOK, None, Fresh, Units
    <2>5. StreamInv'
      BY <1>10 DEF SelectFails, Lose, StreamInv, QueueInv, TypeOK, None, NoUnit, Units, Fresh
    <2>6. DecodableFeed'
      BY <1>10 DEF SelectFails, Lose, DecodableFeed, HeadInv, Precedes, TypeOK, None, Fresh
    <2> QED BY <2>1, <2>2, <2>3, <2>4, <2>5, <2>6
  <1>11. ASSUME StopBegin PROVE IInv'
    <2>1. TypeOK'
      BY <1>11 DEF StopBegin, TypeOK, Units, Waits, NoUnit, None, Fresh
    <2>2. QueueInv'
      BY <1>11 DEF StopBegin, QueueInv, TypeOK
    <2>3. HeadInv'
      BY <1>11 DEF StopBegin, HeadInv, TailInv, QueueInv, Precedes, TypeOK, None, Fresh
    <2>4. TailInv'
      BY <1>11 DEF StopBegin, TailInv, QueueInv, HeadInv, Precedes, TypeOK, None, Fresh, Units
    <2>5. StreamInv'
      BY <1>11 DEF StopBegin, StreamInv, QueueInv, TypeOK, None, NoUnit, Units, Fresh
    <2>6. DecodableFeed'
      BY <1>11 DEF StopBegin, DecodableFeed, HeadInv, Precedes, TypeOK, None, Fresh
    <2> QED BY <2>1, <2>2, <2>3, <2>4, <2>5, <2>6
  <1>12. ASSUME WorkerEnds PROVE IInv'
    <2>1. TypeOK'
      BY <1>12 DEF WorkerEnds, StopWakes, TypeOK, Units, Waits, NoUnit, None, Fresh
    <2>2. QueueInv'
      BY <1>12 DEF WorkerEnds, StopWakes, QueueInv, TypeOK
    <2>3. HeadInv'
      BY <1>12 DEF WorkerEnds, StopWakes, HeadInv, TailInv, QueueInv, Precedes, TypeOK, None, Fresh
    <2>4. TailInv'
      BY <1>12 DEF WorkerEnds, StopWakes, TailInv, QueueInv, HeadInv, Precedes, TypeOK, None, Fresh, Units
    <2>5. StreamInv'
      BY <1>12 DEF WorkerEnds, StopWakes, StreamInv, QueueInv, TypeOK, None, NoUnit, Units, Fresh
    <2>6. DecodableFeed'
      BY <1>12 DEF WorkerEnds, StopWakes, DecodableFeed, HeadInv, Precedes, TypeOK, None, Fresh
    <2> QED BY <2>1, <2>2, <2>3, <2>4, <2>5, <2>6
  <1>13. ASSUME StopEnd PROVE IInv'
    <2>1. TypeOK'
      BY <1>13 DEF StopEnd, TypeOK, Units, Waits, NoUnit, None, Fresh
    <2>2. QueueInv'
      BY <1>13 DEF StopEnd, QueueInv, TypeOK
    <2>3. HeadInv'
      BY <1>13 DEF StopEnd, HeadInv, TailInv, QueueInv, Precedes, TypeOK, None, Fresh
    <2>4. TailInv'
      BY <1>13 DEF StopEnd, TailInv, QueueInv, HeadInv, Precedes, TypeOK, None, Fresh, Units
    <2>5. StreamInv'
      BY <1>13 DEF StopEnd, StreamInv, QueueInv, TypeOK, None, NoUnit, Units, Fresh
    <2>6. DecodableFeed'
      BY <1>13 DEF StopEnd, DecodableFeed, HeadInv, Precedes, TypeOK, None, Fresh
    <2> QED BY <2>1, <2>2, <2>3, <2>4, <2>5, <2>6
  <1>14. ASSUME UNCHANGED vars PROVE IInv'
    BY <1>14 DEF vars, TypeOK, QueueInv, HeadInv, TailInv, StreamInv, DecodableFeed, Precedes
  <1> QED BY <1>1, <1>2, <1>3, <1>4, <1>5, <1>6, <1>7, <1>8, <1>9, <1>10, <1>11, <1>12, <1>13, <1>14 DEF Next, Worker

(* PipelineInv, the safety of the decode worker: its queue is bounded, and   *)
(* whatever overflows, failures, resets and gaps come in between, a decoder  *)
(* (live_media_pipeline.cpp, run) is only fed one stream, and no delta frame *)
(* without the unit before it.                                               *)
THEOREM PipelineSafe == Spec => []PipelineInv
  <1>1. IInv => PipelineInv
    BY DEF IInv, PipelineInv, StreamInv, OneStreamPerDecoder
  <1> QED BY InitInv, NextInv, <1>1, PTL DEF Spec

-----------------------------------------------------------------------------
(* The sink's staging slots *)

SlotsOf(q) == {q[i] : i \in DOMAIN q}

(* A slot is in the queue q once. *)
Once(q) ==
    /\ q \in Seq(Slots) /\ Cardinality(SlotsOf(q)) = Len(q)
    /\ \A i, j \in 1..Len(q) : q[i] = q[j] => i = j

(* A pending slot has a picture of its own geometry if that is the geometry  *)
(* width and height name; the other slots have none.                         *)
SlotsInv ==
    /\ size \in [Slots -> Shapes] /\ picture \in [Slots -> Shapes] /\ width \in Shapes
    /\ Once(pending)
    /\ \A s \in Busy : size[s] = width => picture[s] = width
    /\ \A s \in Slots \ Busy : picture[s] = NoGeometry
ThreadInv ==
    /\ sink \in {"none", "wait", "ring", "write"}
    /\ shot \in [geometry : Shapes, picture : Shapes, sound : BOOLEAN]
    /\ PictureGeometry
    /\ shape \in Shapes /\ state \in States
    /\ desired \in Geometries /\ request \in Shapes \cup {Gone}
FlagInv == connected \in BOOLEAN

LEMMA SlotsFinite == ASSUME NEW T \in SUBSET Slots PROVE IsFiniteSet(T)
  <1>1. IsFiniteSet(Slots)
    BY StagingAssumption, FS_Interval DEF Slots
  <1> QED BY <1>1, FS_Subset

LEMMA FirstIsFree ==
  ASSUME NEW free \in SUBSET Slots, free # {}
  PROVE  First(free) \in free
  <1> DEFINE R == OpToRel(<, Nat)
  <1>1. IsWellFoundedOn(R, Nat)
    BY NatLessThanWellFounded
  <1>2. free \subseteq Nat
    BY StagingAssumption DEF Slots
  <1> HIDE DEF R
  <1>3. PICK x \in free : \A y \in free : ~(<<y, x>> \in R)
    BY <1>1, <1>2, WFMin
  <1>4. \A y \in free : x <= y
    <2> TAKE y \in free
    <2>1. x \in Nat /\ y \in Nat
      BY <1>2
    <2>2. ~(y < x)
      BY <1>3, <2>1 DEF R, OpToRel
    <2> QED BY <2>1, <2>2
  <1> QED BY <1>4 DEF First

LEMMA AppendOnce ==
  ASSUME NEW q, Once(q), NEW s \in Slots \ SlotsOf(q)
  PROVE  Once(Append(q, s)) /\ SlotsOf(Append(q, s)) = SlotsOf(q) \cup {s}
  <1> DEFINE r == Append(q, s)
  <1>0. q \in Seq(Slots)
    BY DEF Once
  <1>1. /\ r \in Seq(Slots) /\ Len(r) = Len(q) + 1 /\ Len(q) \in Nat
        /\ \A i \in 1..Len(q) : r[i] = q[i]
        /\ r[Len(q) + 1] = s
    BY <1>0
  <1>2. DOMAIN q = 1..Len(q) /\ DOMAIN r = 1..(Len(q) + 1)
    BY <1>0, <1>1
  <1> HIDE DEF r
  <1>3. SlotsOf(r) = SlotsOf(q) \cup {s}
    BY <1>1, <1>2 DEF SlotsOf
  <1>4. SlotsOf(q) \in SUBSET Slots
    BY <1>0, <1>2 DEF SlotsOf
  <1>5. Cardinality(SlotsOf(r)) = Len(r)
    <2>1. IsFiniteSet(SlotsOf(q))
      BY <1>4, SlotsFinite
    <2>2. Cardinality(SlotsOf(q) \cup {s}) = Cardinality(SlotsOf(q)) + 1
      BY <2>1, FS_AddElement
    <2> QED BY <1>1, <1>3, <2>2 DEF Once
  <1>6. \A i, j \in 1..Len(r) : r[i] = r[j] => i = j
    <2>1. \A i \in 1..Len(r) : i \in 1..Len(q) \/ i = Len(q) + 1
      BY <1>1
    <2>2. \A i \in 1..Len(q) : q[i] # s
      BY <1>2 DEF SlotsOf
    <2> QED BY <1>1, <2>1, <2>2 DEF Once
  <1> QED BY <1>1, <1>3, <1>5, <1>6 DEF Once, r

LEMMA TailOnce ==
  ASSUME NEW q, Once(q), q # <<>>
  PROVE  /\ Once(Tail(q)) /\ Head(q) \in SlotsOf(q) /\ Head(q) \in Slots
         /\ SlotsOf(Tail(q)) = SlotsOf(q) \ {Head(q)}
  <1> DEFINE r == Tail(q)
  <1>0. q \in Seq(Slots)
    BY DEF Once
  <1>1. /\ r \in Seq(Slots) /\ Len(r) = Len(q) - 1 /\ Len(q) \in Nat \ {0}
        /\ \A i \in 1..Len(r) : r[i] = q[i + 1]
        /\ Head(q) = q[1]
    BY <1>0
  <1>2. DOMAIN q = 1..Len(q) /\ DOMAIN r = 1..Len(r)
    BY <1>0, <1>1
  <1> HIDE DEF r
  <1>3. Head(q) \in SlotsOf(q) /\ Head(q) \in Slots
    BY <1>0, <1>1, <1>2 DEF SlotsOf
  <1>4. SlotsOf(r) = SlotsOf(q) \ {Head(q)}
    <2>1. ASSUME NEW x \in SlotsOf(r) PROVE x \in SlotsOf(q) /\ x # Head(q)
      <3>1. PICK i \in 1..Len(r) : x = r[i]
        BY <2>1, <1>2 DEF SlotsOf
      <3>2. i + 1 \in 1..Len(q) /\ x = q[i + 1] /\ i + 1 # 1 /\ 1 \in 1..Len(q)
        BY <1>1, <3>1
      <3> QED BY <1>1, <1>2, <3>2 DEF SlotsOf, Once
    <2>2. ASSUME NEW x \in SlotsOf(q), x # Head(q) PROVE x \in SlotsOf(r)
      <3>1. PICK i \in 1..Len(q) : x = q[i]
        BY <2>2, <1>2 DEF SlotsOf
      <3>2. i # 1 /\ i - 1 \in 1..Len(r) /\ (i - 1) + 1 = i
        BY <1>1, <2>2, <3>1
      <3>3. r[i - 1] = x
        BY <1>1, <3>1, <3>2
      <3> QED BY <1>2, <3>2, <3>3 DEF SlotsOf
    <2> QED BY <2>1, <2>2
  <1>5. Cardinality(SlotsOf(r)) = Len(r)
    <2>1. SlotsOf(q) \in SUBSET Slots
      BY <1>0, <1>2 DEF SlotsOf
    <2>2. Cardinality(SlotsOf(q) \ {Head(q)}) = Cardinality(SlotsOf(q)) - 1
      BY <1>3, <2>1, SlotsFinite, FS_RemoveElement
    <2> QED BY <1>1, <1>4, <2>2 DEF Once
  <1>6. \A i, j \in 1..Len(r) : r[i] = r[j] => i = j
    <2> TAKE i, j \in 1..Len(r)
    <2> HAVE r[i] = r[j]
    <2>1. i + 1 \in 1..Len(q) /\ j + 1 \in 1..Len(q) /\ q[i + 1] = q[j + 1]
      BY <1>1
    <2> QED BY <2>1 DEF Once
  <1> QED BY <1>1, <1>3, <1>4, <1>5, <1>6 DEF Once, r

LEMMA EmptyOnce == Once(<<>>) /\ SlotsOf(<<>>) = {}
  <1>1. <<>> \in Seq(Slots) /\ Len(<<>>) = 0 /\ SlotsOf(<<>>) = {}
    BY DEF SlotsOf
  <1> QED BY <1>1, FS_EmptySet DEF Once

(* publish, from slots sizes, pictures and order that satisfy the invariant  *)
(* for the picture's geometry.                                               *)
LEMMA StageKeeps ==
  ASSUME NEW sizes \in [Slots -> Shapes], NEW pictures \in [Slots -> Shapes], NEW order, Once(order),
         shape \in Shapes, width' = shape,
         \A s \in SlotsOf(order) : sizes[s] = shape => pictures[s] = shape,
         \A s \in Slots \ SlotsOf(order) : pictures[s] = NoGeometry,
         Stage(sizes, pictures, order, Slots \ SlotsOf(order))
  PROVE  SlotsInv'
  <1> DEFINE free == Slots \ SlotsOf(order)
             f == First(free)
  <1>0. Busy' = SlotsOf(pending')
    BY DEF Busy, SlotsOf
  <1>1. CASE free = {}
    <2>1. size' = sizes /\ picture' = pictures /\ pending' = order
      BY <1>1 DEF Stage
    <2> QED BY <1>0, <2>1 DEF SlotsInv
  <1>2. CASE free # {}
    <2>1. f \in free
      BY <1>2, FirstIsFree
    <2>2. /\ size' = sizes /\ pending' = Append(order, f)
          /\ picture' = [pictures EXCEPT ![f] = IF sizes[f] = shape THEN shape ELSE NoGeometry]
      BY <1>2 DEF Stage
    <2> HIDE DEF f
    <2>3. Once(pending') /\ Busy' = SlotsOf(order) \cup {f}
      BY <1>0, <2>1, <2>2, AppendOnce
    <2>4. NoGeometry \in Shapes
      BY DEF Shapes
    <2>5. picture' \in [Slots -> Shapes]
      BY <2>1, <2>2, <2>4
    <2>6. \A s \in Busy' : size'[s] = width' => picture'[s] = width'
      BY <2>1, <2>2, <2>3
    <2>7. \A s \in Slots \ Busy' : picture'[s] = NoGeometry
      BY <2>1, <2>2, <2>3
    <2> QED BY <2>2, <2>3, <2>5, <2>6, <2>7 DEF SlotsInv
  <1> QED BY <1>1, <1>2

LEMMA EmptiedSlots ==
  ASSUME size' \in [Slots -> Shapes], picture' = Empty, pending' = <<>>, width' \in Shapes
  PROVE  SlotsInv'
  <1>1. Busy' = {} /\ Once(pending')
    BY EmptyOnce DEF Busy, SlotsOf
  <1> QED BY <1>1 DEF SlotsInv, Empty, Shapes

(* The sink's thread takes the oldest slot. *)
LEMMA TakenSlot ==
  ASSUME SlotsInv, pending # <<>>, pending' = Tail(pending), Free(Head(pending)), UNCHANGED <<size, width>>
  PROVE  SlotsInv'
  <1>0. Busy = SlotsOf(pending) /\ Busy' = SlotsOf(pending')
    BY DEF Busy, SlotsOf
  <1>1. Once(pending') /\ Busy' = Busy \ {Head(pending)} /\ Head(pending) \in Slots
    BY <1>0, TailOnce DEF SlotsInv
  <1>2. picture' = [picture EXCEPT ![Head(pending)] = NoGeometry] /\ NoGeometry \in Shapes
    BY DEF Free, Shapes
  <1> QED BY <1>1, <1>2 DEF SlotsInv

LEMMA SlotsNext == SlotsInv /\ ThreadInv /\ [SinkNext]_sinkVars => SlotsInv'
  <1> SUFFICES ASSUME SlotsInv, ThreadInv, [SinkNext]_sinkVars PROVE SlotsInv'
    OBVIOUS
  <1>0. Busy = SlotsOf(pending)
    BY DEF Busy, SlotsOf
  <1>k. ASSUME UNCHANGED slotVars PROVE SlotsInv'
    BY <1>k DEF slotVars, SlotsInv, Busy
  <1>1. CASE Publish
    <2>1. CASE Configured
      <3>1. width' = shape /\ Stage(size, picture, pending, Slots \ SlotsOf(pending))
        BY <1>0, <1>1, <2>1 DEF Publish, Configured
      <3>2. /\ \A s \in SlotsOf(pending) : size[s] = shape => picture[s] = shape
            /\ \A s \in Slots \ SlotsOf(pending) : picture[s] = NoGeometry
        BY <1>0, <2>1 DEF Configured, SlotsInv
      <3> QED BY <3>1, <3>2, StageKeeps DEF SlotsInv, ThreadInv
    <2>2. CASE ~Configured
      <3>1. width' = shape /\ Stage([s \in Slots |-> shape], Empty, <<>>, Slots \ SlotsOf(<<>>))
        BY <1>1, <2>2, EmptyOnce DEF Publish
      <3>2. [s \in Slots |-> shape] \in [Slots -> Shapes] /\ Empty \in [Slots -> Shapes]
            /\ \A s \in Slots : Empty[s] = NoGeometry
        BY DEF ThreadInv, Empty, Shapes
      <3> QED BY <3>1, <3>2, EmptyOnce, StageKeeps DEF ThreadInv
    <2> QED BY <2>1, <2>2
  <1>2. CASE ConfigureFails
    <2>1. size' \in [Slots -> Shapes]
      BY <1>2 DEF ConfigureFails, ThreadInv, Shapes
    <2> QED BY <1>2, <2>1, EmptiedSlots DEF ConfigureFails, SlotsInv
  <1>3. CASE ReadBack \/ ReadFails
    BY <1>3, TakenSlot DEF ReadBack, ReadFails, GivesBack
  <1>4. CASE Stop
    BY <1>4, EmptiedSlots DEF Stop, Empty, Shapes
  <1>5. CASE Start \/ Transform \/ PublishFails \/ ConvertFails \/ OpenFails \/ AskRing \/ WriteRing
    BY <1>5, <1>k DEF Start, Transform, PublishFails, ConvertFails, OpenFails, AskRing, WriteRing
  <1>6. ASSUME NEW r \in Geometries \cup {NoGeometry, Gone}, Camera(r) PROVE SlotsInv'
    BY <1>6, <1>k DEF Camera
  <1>7. CASE UNCHANGED sinkVars
    BY <1>7, <1>k DEF sinkVars
  <1> QED BY <1>1, <1>2, <1>3, <1>4, <1>5, <1>6, <1>7 DEF SinkNext, Work, Thread

LEMMA ThreadNext == SlotsInv /\ ThreadInv /\ [SinkNext]_sinkVars => ThreadInv'
  <1> SUFFICES ASSUME SlotsInv, ThreadInv, [SinkNext]_sinkVars PROVE ThreadInv'
    OBVIOUS
  <1>n. NoShot \in [geometry : Shapes, picture : Shapes, sound : BOOLEAN]
    BY DEF NoShot, Shapes
  <1> USE DEF ThreadInv, PictureGeometry
  <1>1. CASE ReadBack
    <2> DEFINE h == Head(pending)
               all == \A s \in Slots : size[s] = width
    <2>0. Busy = SlotsOf(pending)
      BY DEF Busy, SlotsOf
    <2>1. h \in Slots /\ h \in Busy /\ picture[h] \in Shapes /\ width \in Shapes
      BY <1>1, <2>0, TailOnce DEF ReadBack, SlotsInv
    <2>2. all => picture[h] = width
      BY <2>1 DEF SlotsInv
    <2>3. all \in BOOLEAN
      BY Zenon
    <2>4. shot' = [geometry |-> width, picture |-> picture[h], sound |-> all] /\ sink' = "ring"
          /\ UNCHANGED <<shape, state, desired, request>>
      BY <1>1 DEF ReadBack
    <2> HIDE DEF h, all
    <2> QED BY <2>1, <2>2, <2>3, <2>4
  <1>2. CASE Start \/ Stop \/ Transform \/ Publish \/ ConfigureFails \/ PublishFails \/ ReadFails
    BY <1>2 DEF Start, Stop, Transform, Publish, ConfigureFails, PublishFails, ReadFails, threadVars, Shapes, States
  <1>3. CASE ConvertFails \/ OpenFails \/ WriteRing
    BY <1>3, <1>n DEF ConvertFails, OpenFails, WriteRing, Drops, States
  <1>4. CASE AskRing
    BY <1>4, <1>n DEF AskRing, Drops, States, NewDesired
  <1>5. ASSUME NEW r \in Geometries \cup {NoGeometry, Gone}, Camera(r) PROVE ThreadInv'
    BY <1>5 DEF Camera, threadVars, Shapes
  <1>6. CASE UNCHANGED sinkVars
    BY <1>6 DEF sinkVars, threadVars
  <1> QED BY <1>1, <1>2, <1>3, <1>4, <1>5, <1>6 DEF SinkNext, Work, Thread

LEMMA FlagNext == FlagInv /\ [SinkNext]_sinkVars => FlagInv'
  BY Zenon DEF FlagInv, SinkNext, Work, Thread, Start, Stop, Transform, Publish, ConfigureFails, PublishFails, ReadBack,
     ReadFails, ConvertFails, OpenFails, AskRing, WriteRing, Drops, Camera, threadVars, sinkVars

LEMMA SinkStarts == SinkInit => SlotsInv /\ ThreadInv /\ FlagInv
  <1> SUFFICES ASSUME SinkInit PROVE SlotsInv /\ ThreadInv /\ FlagInv
    OBVIOUS
  <1>1. SlotsInv
    <2>1. Busy = {} /\ Once(pending)
      BY EmptyOnce DEF SinkInit, Busy, SlotsOf
    <2> QED BY <2>1 DEF SinkInit, SlotsInv, Empty, Shapes
  <1>2. ThreadInv
    BY DEF SinkInit, ThreadInv, PictureGeometry, NoShot, Shapes, States
  <1>3. FlagInv
    BY Zenon DEF SinkInit, FlagInv
  <1> QED BY <1>1, <1>2, <1>3

(* A staging slot is pending at most once and holds a picture only then, and *)
(* what the sink's thread reads back has the geometry it is published with,  *)
(* although publish reconfigures the slots while others are pending          *)
(* (frame_ring_sink.cpp, publish, configure and run).                        *)
THEOREM SinkSafe == SinkSpec => []SinkInv
  <1>1. SlotsInv /\ ThreadInv /\ FlagInv => SinkInv
    BY DEF SlotsInv, ThreadInv, FlagInv, SinkInv, SinkTypeOK, Once, Busy, SlotsOf
  <1> QED BY SinkStarts, SlotsNext, ThreadNext, FlagNext, <1>1, PTL DEF SinkSpec

-----------------------------------------------------------------------------
(***************************************************************************)
(* The loops of MediaBytes.  A recursive function is CHOSEN among those    *)
(* that satisfy its equation, so it takes two arguments: that one exists,  *)
(* and what holds of every one that does.  Both go from a number to the    *)
(* next; the argument is the least number of a set that lacks it (WFMin).  *)
(***************************************************************************)

(* What holds of a number as soon as it holds of all smaller ones holds of   *)
(* every number.                                                             *)
LEMMA NaturalsFrom ==
  ASSUME NEW T, \A n \in Nat : (\A m \in Nat : m < n => m \in T) => n \in T
  PROVE  Nat \subseteq T
  <1> DEFINE R == OpToRel(<, Nat)
             C == Nat \ T
  <1>1. IsWellFoundedOn(R, Nat)
    BY NatLessThanWellFounded DEF R
  <1>2. ASSUME C # {} PROVE FALSE
    <2> HIDE DEF R
    <2>1. PICK x \in C : \A y \in C : ~(<<y, x>> \in R)
      BY <1>1, <1>2, WFMin
    <2>2. \A y \in Nat : y < x => y \in T
      <3> TAKE y \in Nat
      <3>1. HAVE y < x
      <3>2. <<y, x>> \in R
        BY <2>1, <3>1 DEF R, OpToRel
      <3> QED BY <2>1, <3>2
    <2> QED BY <2>1, <2>2
  <1> QED BY <1>2

LEMMA NaturalsUpTo ==
  ASSUME NEW T, 0 \in T, \A n \in Nat \ {0} : n - 1 \in T => n \in T
  PROVE  Nat \subseteq T
  <1>1. ASSUME NEW n \in Nat, \A m \in Nat : m < n => m \in T PROVE n \in T
    <2>1. CASE n = 0
      BY <2>1
    <2>2. CASE n # 0
      <3>1. n - 1 \in Nat /\ n - 1 < n
        BY <2>2
      <3> QED BY <1>1, <2>2, <3>1
    <2> QED BY <2>1, <2>2
  <1> QED BY <1>1, NaturalsFrom

(* A recursive function of the numbers up to n exists: f[k] is what step k   *)
(* makes of f[k - 1].                                                        *)
Iterates(f, n, b, G) == f[0] = b /\ \A k \in 1..n : f[k] = G[k][f[k - 1]]

LEMMA IterationExists ==
  ASSUME NEW V, NEW b \in V, NEW G \in [Nat -> [V -> V]], NEW n \in Nat
  PROVE  \E f \in [0..n -> V] : Iterates(f, n, b, G)
  <1> DEFINE T == {k \in Nat : \E f \in [0..k -> V] : Iterates(f, k, b, G)}
  <1>1. 0 \in T
    <2> DEFINE f == [i \in 0..0 |-> b]
    <2>1. f \in [0..0 -> V] /\ Iterates(f, 0, b, G)
      BY DEF Iterates
    <2> QED BY <2>1
  <1>2. ASSUME NEW k \in Nat \ {0}, k - 1 \in T PROVE k \in T
    <2>1. PICK g \in [0..k-1 -> V] : Iterates(g, k - 1, b, G)
      BY <1>2
    <2> DEFINE f == [i \in 0..k |-> IF i = k THEN G[k][g[k - 1]] ELSE g[i]]
    <2>2. f \in [0..k -> V]
      <3>1. g[k - 1] \in V
        BY <2>1
      <3>2. G[k][g[k - 1]] \in V
        BY <3>1
      <3>3. \A i \in 0..k : i # k => i \in 0..k-1
        OBVIOUS
      <3> QED BY <2>1, <3>2, <3>3
    <2>3. f[0] = b
      BY <2>1 DEF Iterates
    <2>4. \A i \in 1..k : f[i] = G[i][f[i - 1]]
      <3> TAKE i \in 1..k
      <3>1. f[i - 1] = g[i - 1]
        OBVIOUS
      <3>2. CASE i = k
        BY <3>1, <3>2
      <3>3. CASE i # k
        BY <2>1, <3>1, <3>3 DEF Iterates
      <3> QED BY <3>2, <3>3
    <2> HIDE DEF f
    <2>5. Iterates(f, k, b, G)
      BY <2>3, <2>4 DEF Iterates
    <2> QED BY <2>2, <2>5
  <1>3. Nat \subseteq T
    <2> HIDE DEF T
    <2> QED BY <1>1, <1>2, NaturalsUpTo
  <1> QED BY <1>3

-----------------------------------------------------------------------------
(* FlattenSeq *)

Flattens(f, s) == f = [i \in 1..Len(s) |-> IF i = 1 THEN s[i] ELSE f[i - 1] \o s[i]]

LEMMA FlattensExists ==
  ASSUME NEW S, NEW s \in Seq(Seq(S)), s # <<>>
  PROVE  \E f : Flattens(f, s) /\ f \in [1..Len(s) -> Seq(S)]
  <1> DEFINE V == Seq(S)
             n == Len(s) - 1
             G == [i \in Nat |-> [v \in V |-> IF i \in 1..n THEN v \o s[i + 1] ELSE v]]
  <1>1. n \in Nat /\ Len(s) = n + 1 /\ s[1] \in V /\ \A i \in 1..n : s[i + 1] \in V
    BY EmptySeq, ElementOfSeq
  <1>2. G \in [Nat -> [V -> V]]
    <2>1. \A i \in 1..n, v \in V : v \o s[i + 1] \in V
      BY <1>1, ConcatProperties
    <2> QED BY <2>1
  <1>3. PICK g \in [0..n -> V] : Iterates(g, n, s[1], G)
    <2> HIDE DEF G, n, V
    <2> QED BY <1>1, <1>2, IterationExists
  <1> DEFINE f == [i \in 1..Len(s) |-> g[i - 1]]
  <1>4. f \in [1..Len(s) -> V]
    BY <1>1, <1>3
  <1>5. \A i \in 1..Len(s) : f[i] = IF i = 1 THEN s[i] ELSE f[i - 1] \o s[i]
    <2> TAKE i \in 1..Len(s)
    <2>1. CASE i = 1
      BY <1>1, <1>3, <2>1 DEF Iterates
    <2>2. CASE i # 1
      <3>1. i - 1 \in 1..n /\ i - 1 \in 1..Len(s) /\ (i - 1) - 1 \in 0..n /\ (i - 1) + 1 = i
        BY <1>1, <2>2
      <3>2. g[i - 1] = G[i - 1][g[(i - 1) - 1]]
        BY <1>3, <3>1 DEF Iterates
      <3>3. G[i - 1][g[(i - 1) - 1]] = g[(i - 1) - 1] \o s[(i - 1) + 1]
        <4>1. g[(i - 1) - 1] \in V
          BY <1>3, <3>1
        <4>2. i - 1 \in Nat
          BY <3>1
        <4> HIDE DEF V, n
        <4> QED BY <3>1, <4>1, <4>2
      <3> HIDE DEF G
      <3> QED BY <2>2, <3>1, <3>2, <3>3
    <2> QED BY <2>1, <2>2
  <1>6. Flattens(f, s)
    BY <1>5 DEF Flattens
  <1> QED BY <1>4, <1>6

LEMMA FlattenChosen ==
  ASSUME NEW S, NEW s \in Seq(Seq(S)), s # <<>>
  PROVE  \E f : /\ Flattens(f, s) /\ FlattenSeq(s) = f[Len(s)]
                /\ f \in [1..Len(s) -> Seq(S)]
  <1>1. \E f : Flattens(f, s)
    BY FlattensExists
  <1>2. Len(s) # 0
    BY EmptySeq
  <1>3. PICK f : Flattens(f, s) /\ FlattenSeq(s) = f[Len(s)]
    BY <1>1, <1>2 DEF Flattens, FlattenSeq
  <1>4. f \in [1..Len(s) -> Seq(S)]
    <2> DEFINE T == {k \in Nat : k \in 1..Len(s) => f[k] \in Seq(S)}
    <2>1. \A i \in 1..Len(s) : f[i] = IF i = 1 THEN s[i] ELSE f[i - 1] \o s[i]
      BY <1>3 DEF Flattens
    <2>2. \A i \in 1..Len(s) : s[i] \in Seq(S)
      BY ElementOfSeq
    <2>3. 0 \in T
      OBVIOUS
    <2>4. ASSUME NEW k \in Nat \ {0}, k - 1 \in T PROVE k \in T
      <3> SUFFICES ASSUME k \in 1..Len(s) PROVE f[k] \in Seq(S)
        OBVIOUS
      <3>1. CASE k = 1
        BY <2>1, <2>2, <3>1
      <3>2. CASE k # 1
        <4>1. k - 1 \in 1..Len(s)
          BY <3>2, LenProperties
        <4>2. f[k - 1] \in Seq(S) /\ s[k] \in Seq(S)
          BY <2>2, <2>4, <4>1
        <4> QED BY <2>1, <3>2, <4>2, ConcatProperties
      <3> QED BY <3>1, <3>2
    <2>5. Nat \subseteq T
      <3> HIDE DEF T
      <3> QED BY <2>3, <2>4, NaturalsUpTo
    <2>6. DOMAIN f = 1..Len(s) /\ f = [i \in DOMAIN f |-> f[i]]
      BY <1>3 DEF Flattens
    <2>7. \A i \in 1..Len(s) : f[i] \in Seq(S)
      <3>1. Len(s) \in Nat
        BY LenProperties
      <3> QED BY <2>5, <3>1
    <2> QED BY <2>6, <2>7
  <1> QED BY <1>3, <1>4

LEMMA FlattenLast ==
  ASSUME NEW S, NEW s \in Seq(Seq(S)), s # <<>>
  PROVE  FlattenSeq(s) = FlattenSeq(SubSeq(s, 1, Len(s) - 1)) \o s[Len(s)]
  <1> DEFINE n == Len(s)
             r == SubSeq(s, 1, n - 1)
  <1>1. n \in Nat \ {0} /\ \A i \in 1..n : s[i] \in Seq(S)
    BY EmptySeq, ElementOfSeq
  <1>2. r \in Seq(Seq(S)) /\ Len(r) = n - 1 /\ \A i \in 1..(n - 1) : r[i] = s[i]
    <2>1. \A i \in 1..(n - 1) : s[i] \in Seq(S)
      BY <1>1
    <2>2. n - 1 \in Int /\ 1 \in Int
      BY <1>1
    <2>3. /\ r \in Seq(Seq(S)) /\ Len(r) = IF 1 <= n - 1 THEN (n - 1) - 1 + 1 ELSE 0
          /\ \A i \in 1..(n - 1) - 1 + 1 : r[i] = s[1 + i - 1]
      <3> HIDE DEF n
      <3> QED BY <2>1, <2>2, SubSeqProperties
    <2> HIDE DEF n, r
    <2> QED BY <1>1, <2>3
  <1>3. PICK f : /\ Flattens(f, s) /\ FlattenSeq(s) = f[n] /\ f \in [1..n -> Seq(S)]
    BY FlattenChosen
  <1> HIDE DEF n, r
  <1>4. \A i \in 1..n : f[i] = IF i = 1 THEN s[i] ELSE f[i - 1] \o s[i]
    BY <1>3 DEF Flattens, n
  <1>5. CASE n = 1
    <2>1. r = <<>> /\ FlattenSeq(r) = r
      BY <1>2, <1>5, EmptySeq DEF FlattenSeq
    <2>2. FlattenSeq(s) = s[n]
      BY <1>3, <1>4, <1>5
    <2> QED BY <1>1, <1>5, <2>1, <2>2, ConcatEmptySeq DEF n, r
  <1>6. CASE n # 1
    <2>1. n - 1 \in 1..n /\ n - 1 \in Nat /\ r # <<>>
      BY <1>1, <1>2, <1>6, EmptySeq
    <2>2. PICK g : /\ Flattens(g, r) /\ FlattenSeq(r) = g[n - 1]
      BY <1>2, <2>1, FlattenChosen
    <2>3. \A i \in 1..(n - 1) : g[i] = IF i = 1 THEN r[i] ELSE g[i - 1] \o r[i]
      BY <1>2, <2>2 DEF Flattens
    <2> DEFINE T == {k \in Nat : k \in 1..(n - 1) => g[k] = f[k]}
    <2>4. 0 \in T
      OBVIOUS
    <2>5. ASSUME NEW k \in Nat \ {0}, k - 1 \in T PROVE k \in T
      <3> SUFFICES ASSUME k \in 1..(n - 1) PROVE g[k] = f[k]
        OBVIOUS
      <3>1. k \in 1..n /\ (k # 1 => k - 1 \in 1..(n - 1))
        BY <1>1
      <3> QED BY <1>2, <1>4, <2>3, <2>5, <3>1
    <2>6. Nat \subseteq T
      <3> HIDE DEF T
      <3> QED BY <2>4, <2>5, NaturalsUpTo
    <2>7. g[n - 1] = f[n - 1]
      BY <2>1, <2>6
    <2>8. n \in 1..n
      BY <1>1
    <2> QED BY <1>3, <1>4, <1>6, <2>2, <2>7, <2>8 DEF n, r
  <1> QED BY <1>5, <1>6

(* Part of a sequence of bytes *)
LEMMA Slice ==
  ASSUME NEW s \in Seq(Nat), NEW a \in Nat \ {0}, NEW b \in Nat, b <= Len(s), a <= b + 1
  PROVE  /\ SubSeq(s, a, b) \in Seq(Nat) /\ Len(SubSeq(s, a, b)) = b - a + 1
         /\ \A i \in 1..b - a + 1 : SubSeq(s, a, b)[i] = s[a + i - 1]
  <1>1. \A i \in a..b : s[i] \in Nat
    <2>1. \A i \in a..b : i \in 1..Len(s)
      BY LenProperties
    <2> QED BY <2>1, ElementOfSeq
  <1>2. /\ SubSeq(s, a, b) \in Seq(Nat)
        /\ Len(SubSeq(s, a, b)) = IF a <= b THEN b - a + 1 ELSE 0
        /\ \A i \in 1..b - a + 1 : SubSeq(s, a, b)[i] = s[a + i - 1]
    <2>1. a \in Int /\ b \in Int
      OBVIOUS
    <2> QED BY <1>1, <2>1, SubSeqProperties
  <1>3. (IF a <= b THEN b - a + 1 ELSE 0) = b - a + 1
    OBVIOUS
  <1> QED BY <1>2, <1>3

(* The first m pieces, joined *)
Joined(s, m) == FlattenSeq(SubSeq(s, 1, m))

LEMMA FrontPieces ==
  ASSUME NEW S, NEW s \in Seq(S), NEW m \in 0..Len(s)
  PROVE  /\ SubSeq(s, 1, m) \in Seq(S) /\ Len(SubSeq(s, 1, m)) = m
         /\ \A i \in 1..m : SubSeq(s, 1, m)[i] = s[i]
  <1>1. m \in Int /\ 1 \in Int /\ \A i \in 1..m : s[i] \in S
    BY LenProperties, ElementOfSeq
  <1> QED BY <1>1, SubSeqProperties

LEMMA JoinedNone == ASSUME NEW s PROVE Joined(s, 0) = <<>>
  <1>1. SubSeq(s, 1, 0) = <<>>
    BY SubSeqEmpty
  <1> QED BY <1>1, EmptySeq DEF Joined, FlattenSeq

LEMMA JoinedNext ==
  ASSUME NEW S, NEW s \in Seq(Seq(S)), NEW m \in 0..Len(s) - 1
  PROVE  Joined(s, m + 1) = Joined(s, m) \o s[m + 1]
  <1> DEFINE t == SubSeq(s, 1, m + 1)
  <1>1. Len(s) \in Nat /\ m + 1 \in 0..Len(s) /\ m \in 0..Len(s) /\ m + 1 \in 1..m + 1
    BY LenProperties
  <1>2. t \in Seq(Seq(S)) /\ Len(t) = m + 1 /\ \A i \in 1..m + 1 : t[i] = s[i]
    BY <1>1, FrontPieces
  <1>3. t # <<>>
    <2>1. Len(<<>>) = 0
      BY EmptySeq
    <2> HIDE DEF t
    <2> QED BY <1>1, <1>2, <2>1
  <1>4. SubSeq(t, 1, m) = SubSeq(s, 1, m)
    <2>1. m \in 0..Len(t)
      BY <1>1, <1>2
    <2>2. SubSeq(t, 1, m) \in Seq(Seq(S)) /\ Len(SubSeq(t, 1, m)) = m
          /\ \A i \in 1..m : SubSeq(t, 1, m)[i] = t[i]
      BY <1>2, <2>1, FrontPieces
    <2>3. SubSeq(s, 1, m) \in Seq(Seq(S)) /\ Len(SubSeq(s, 1, m)) = m
          /\ \A i \in 1..m : SubSeq(s, 1, m)[i] = s[i]
      BY <1>1, FrontPieces
    <2>4. \A i \in 1..m : t[i] = s[i]
      BY <1>1, <1>2
    <2> HIDE DEF t
    <2> QED BY <2>2, <2>3, <2>4, SeqEqual
  <1> HIDE DEF t
  <1>5. FlattenSeq(t) = FlattenSeq(SubSeq(t, 1, Len(t) - 1)) \o t[Len(t)]
    BY <1>2, <1>3, FlattenLast
  <1>6. Len(t) - 1 = m /\ t[Len(t)] = s[m + 1]
    BY <1>1, <1>2
  <1> QED BY <1>4, <1>5, <1>6 DEF Joined, t

LEMMA JoinedIsSeq ==
  ASSUME NEW S, NEW s \in Seq(Seq(S))
  PROVE  \A m \in 0..Len(s) : Joined(s, m) \in Seq(S)
  <1> DEFINE T == {m \in Nat : m \in 0..Len(s) => Joined(s, m) \in Seq(S)}
  <1>1. 0 \in T
    BY JoinedNone, EmptySeq
  <1>2. ASSUME NEW m \in Nat \ {0}, m - 1 \in T PROVE m \in T
    <2> SUFFICES ASSUME m \in 0..Len(s) PROVE Joined(s, m) \in Seq(S)
      OBVIOUS
    <2>1. m - 1 \in 0..Len(s) - 1 /\ m - 1 \in 0..Len(s) /\ (m - 1) + 1 = m /\ m \in 1..Len(s)
      BY LenProperties
    <2>2. Joined(s, m) = Joined(s, m - 1) \o s[m]
      BY <2>1, JoinedNext
    <2>3. s[m] \in Seq(S) /\ Joined(s, m - 1) \in Seq(S)
      BY <1>2, <2>1, ElementOfSeq
    <2> QED BY <2>2, <2>3, ConcatProperties
  <1>3. Nat \subseteq T
    <2> HIDE DEF T
    <2> QED BY <1>1, <1>2, NaturalsUpTo
  <1> QED BY <1>3, LenProperties

(* The m-th piece ends at place EndOf(s, m) of all pieces together. *)
EndOf(s, m) == Len(Joined(s, m))

LEMMA EndNext ==
  ASSUME NEW S, NEW s \in Seq(Seq(S)), NEW m \in 0..Len(s) - 1
  PROVE  /\ EndOf(s, m) \in Nat /\ EndOf(s, m + 1) = EndOf(s, m) + Len(s[m + 1])
         /\ s[m + 1] \in Seq(S) /\ Len(s[m + 1]) \in Nat
         /\ \A i \in 1..EndOf(s, m) : Joined(s, m + 1)[i] = Joined(s, m)[i]
         /\ \A i \in 1..Len(s[m + 1]) : Joined(s, m + 1)[EndOf(s, m) + i] = s[m + 1][i]
  <1> DEFINE a == Joined(s, m)
             b == s[m + 1]
             c == Joined(s, m + 1)
  <1>1. m \in 0..Len(s) /\ m + 1 \in 1..Len(s)
    BY LenProperties
  <1>2. a \in Seq(S) /\ b \in Seq(S)
    BY <1>1, JoinedIsSeq, ElementOfSeq
  <1>3. c = a \o b
    BY JoinedNext
  <1> HIDE DEF a, b, c
  <1>4. /\ Len(c) = Len(a) + Len(b) /\ Len(a) \in Nat /\ Len(b) \in Nat
        /\ \A i \in 1..Len(a) + Len(b) : c[i] = IF i <= Len(a) THEN a[i] ELSE b[i - Len(a)]
    BY <1>2, <1>3, ConcatProperties, LenProperties
  <1>5. \A i \in 1..Len(a) : c[i] = a[i]
    BY <1>4
  <1>6. \A i \in 1..Len(b) : c[Len(a) + i] = b[i]
    <2> TAKE i \in 1..Len(b)
    <2>1. Len(a) + i \in 1..Len(a) + Len(b)
      BY <1>4
    <2>2. PICK j \in 1..Len(a) + Len(b) : j = Len(a) + i
      BY <2>1
    <2>3. ~(j <= Len(a)) /\ j - Len(a) = i
      BY <1>4, <2>2
    <2>4. c[j] = b[j - Len(a)]
      BY <1>4, <2>3
    <2> QED BY <2>2, <2>3, <2>4
  <1> QED BY <1>2, <1>4, <1>5, <1>6 DEF a, b, c, EndOf

(* Where the pieces are in the whole *)
LEMMA Layout ==
  ASSUME NEW S, NEW s \in Seq(Seq(S))
  PROVE  /\ FlattenSeq(s) \in Seq(S) /\ Len(s) \in Nat
         /\ EndOf(s, 0) = 0 /\ EndOf(s, Len(s)) = Len(FlattenSeq(s))
         /\ \A m \in 0..Len(s) : EndOf(s, m) \in Nat /\ EndOf(s, m) <= EndOf(s, Len(s))
         /\ \A k \in 0..Len(s) : \A m \in 0..k : EndOf(s, m) <= EndOf(s, k)
         /\ \A m \in 0..Len(s) - 1 :
              /\ s[m + 1] \in Seq(S) /\ Len(s[m + 1]) \in Nat
              /\ EndOf(s, m + 1) = EndOf(s, m) + Len(s[m + 1])
              /\ \A i \in 1..Len(s[m + 1]) : FlattenSeq(s)[EndOf(s, m) + i] = s[m + 1][i]
  <1> DEFINE n == Len(s)
  <1>1. n \in Nat /\ Joined(s, n) = FlattenSeq(s)
    BY LenProperties, SubSeqFull DEF Joined
  <1>2. \A m \in 0..n : Joined(s, m) \in Seq(S) /\ EndOf(s, m) \in Nat
    BY JoinedIsSeq, LenProperties DEF EndOf
  <1>3. EndOf(s, 0) = 0
    BY JoinedNone, EmptySeq DEF EndOf
  <1> DEFINE Within(m, k) ==
               /\ EndOf(s, m) <= EndOf(s, k)
               /\ \A i \in 1..EndOf(s, m) : Joined(s, k)[i] = Joined(s, m)[i]
             T == {k \in Nat : k \in 0..n => \A m \in 0..k : Within(m, k)}
  <1>4. 0 \in T
    BY <1>2
  <1>5. ASSUME NEW k \in Nat \ {0}, k - 1 \in T PROVE k \in T
    <2> SUFFICES ASSUME k \in 0..n, NEW m \in 0..k PROVE Within(m, k)
      OBVIOUS
    <2>1. k - 1 \in 0..n - 1 /\ (k - 1) + 1 = k /\ m \in 0..n
      BY <1>1
    <2>2. CASE m = k
      BY <1>2, <2>2
    <2>3. CASE m # k
      <3>1. Within(m, k - 1)
        <4>1. m \in 0..k - 1 /\ k - 1 \in 0..n
          BY <1>1, <2>1, <2>3
        <4> HIDE DEF Within
        <4> QED BY <1>5, <4>1
      <3>2. /\ EndOf(s, k) = EndOf(s, k - 1) + Len(s[k]) /\ Len(s[k]) \in Nat
            /\ EndOf(s, k - 1) \in Nat
            /\ \A i \in 1..EndOf(s, k - 1) : Joined(s, k)[i] = Joined(s, k - 1)[i]
        BY <2>1, EndNext
      <3> QED BY <1>2, <2>1, <3>1, <3>2
    <2> QED BY <2>2, <2>3
  <1>6. \A k \in 0..n : \A m \in 0..k : Within(m, k)
    <2>1. Nat \subseteq T
      <3> HIDE DEF T
      <3> QED BY <1>4, <1>5, NaturalsUpTo
    <2> HIDE DEF Within
    <2> QED BY <1>1, <2>1
  <1>7. ASSUME NEW m \in 0..n - 1
        PROVE  /\ s[m + 1] \in Seq(S) /\ Len(s[m + 1]) \in Nat
               /\ EndOf(s, m + 1) = EndOf(s, m) + Len(s[m + 1])
               /\ \A i \in 1..Len(s[m + 1]) : FlattenSeq(s)[EndOf(s, m) + i] = s[m + 1][i]
    <2>1. /\ EndOf(s, m) \in Nat /\ EndOf(s, m + 1) = EndOf(s, m) + Len(s[m + 1])
          /\ s[m + 1] \in Seq(S) /\ Len(s[m + 1]) \in Nat
          /\ \A i \in 1..Len(s[m + 1]) : Joined(s, m + 1)[EndOf(s, m) + i] = s[m + 1][i]
      BY EndNext
    <2>2. \A i \in 1..EndOf(s, m + 1) : FlattenSeq(s)[i] = Joined(s, m + 1)[i]
      <3>1. n \in 0..n /\ m + 1 \in 0..n
        BY <1>1
      <3>2. Within(m + 1, n)
        BY <1>6, <3>1
      <3> QED BY <1>1, <3>2
    <2>3. \A e, l, f : e \in Nat /\ l \in Nat /\ f = e + l => \A i \in 1..l : e + i \in 1..f
      OBVIOUS
    <2>4. \A i \in 1..Len(s[m + 1]) : EndOf(s, m) + i \in 1..EndOf(s, m + 1)
      BY <2>1, <2>3
    <2> QED BY <2>1, <2>2, <2>4
  <1>8. EndOf(s, n) = Len(FlattenSeq(s)) /\ FlattenSeq(s) \in Seq(S)
    <2>1. n \in 0..n
      BY <1>1
    <2> QED BY <1>1, <1>2, <2>1 DEF EndOf
  <1>9. \A k \in 0..n : \A m \in 0..k : EndOf(s, m) <= EndOf(s, k)
    BY <1>6
  <1>10. \A m \in 0..n : EndOf(s, m) \in Nat /\ EndOf(s, m) <= EndOf(s, n)
    <2>1. n \in 0..n
      BY <1>1
    <2> QED BY <1>2, <1>9, <2>1
  <1> QED BY <1>1, <1>3, <1>7, <1>8, <1>9, <1>10

LEMMA Along ==
  ASSUME NEW V, NEW f, NEW n \in Nat, f[0] \in V, \A k \in 1..n : f[k - 1] \in V => f[k] \in V
  PROVE  \A k \in 0..n : f[k] \in V
  <1> DEFINE T == {k \in Nat : k \in 0..n => f[k] \in V}
  <1>1. 0 \in T
    OBVIOUS
  <1>2. ASSUME NEW k \in Nat \ {0}, k - 1 \in T PROVE k \in T
    BY <1>2
  <1>3. Nat \subseteq T
    <2> HIDE DEF T
    <2> QED BY <1>1, <1>2, NaturalsUpTo
  <1> QED BY <1>3

-----------------------------------------------------------------------------
(* The wire decoder *)

AnyFrame == [flags : Nat, payload : Seq(Nat)]
Reading == [offset : Nat, out : Seq(AnyFrame)]

LEMMA PassType ==
  ASSUME NEW buffer \in Seq(Nat), NEW r \in Reading
  PROVE  Pass(buffer, r) \in Reading
  <1>1. CASE Complete(buffer, r.offset) /\ ~Refused(buffer, r.offset)
    <2> DEFINE at == r.offset
               l == buffer[at + 1]
               frame == FrameAt(buffer, at)
    <2>1. at \in Nat /\ r.out \in Seq(AnyFrame) /\ Len(buffer) \in Nat
      BY LenProperties DEF Reading
    <2> HIDE DEF at
    <2>2. Len(buffer) - at >= 3 /\ Len(buffer) - at - 3 >= l
      BY <1>1 DEF Complete, HeaderBytes, at
    <2>3. at + 1 \in 1..Len(buffer) /\ at + 2 \in 1..Len(buffer)
      BY <2>1, <2>2
    <2>4. l \in Nat /\ buffer[at + 2] \in Nat
      BY <2>3, ElementOfSeq
    <2> HIDE DEF l
    <2>5. SubSeq(buffer, at + HeaderBytes + 1, at + HeaderBytes + l) \in Seq(Nat)
      <3>1. \A i \in (at + HeaderBytes + 1)..(at + HeaderBytes + l) : buffer[i] \in Nat
        <4>1. \A i \in (at + HeaderBytes + 1)..(at + HeaderBytes + l) : i \in 1..Len(buffer)
          BY <2>1, <2>2, <2>4 DEF HeaderBytes
        <4> QED BY <4>1, ElementOfSeq
      <3>2. at + HeaderBytes + 1 \in Int /\ at + HeaderBytes + l \in Int
        BY <2>1, <2>4 DEF HeaderBytes
      <3> QED BY <3>1, <3>2, SubSeqProperties
    <2>6. frame \in AnyFrame
      BY <2>4, <2>5 DEF FrameAt, AnyFrame, l
    <2> HIDE DEF frame
    <2>7. Append(r.out, frame) \in Seq(AnyFrame)
      BY <2>1, <2>6, AppendProperties
    <2>8. at + HeaderBytes + l \in Nat
      BY <2>1, <2>4 DEF HeaderBytes
    <2> QED BY <1>1, <2>7, <2>8 DEF Pass, Reading, at, l, frame
  <1>2. CASE ~(Complete(buffer, r.offset) /\ ~Refused(buffer, r.offset))
    BY <1>2 DEF Pass
  <1> QED BY <1>1, <1>2

(* The loop of append, from start on *)
Passes(f, buffer, start, out) ==
  f = [k \in 0..Len(buffer) |->
         IF k = 0 THEN [offset |-> start, out |-> out] ELSE Pass(buffer, f[k - 1])]

LEMMA PassesExist ==
  ASSUME NEW buffer \in Seq(Nat), NEW start \in Nat, NEW out \in Seq(AnyFrame)
  PROVE  \E f : Passes(f, buffer, start, out)
  <1> DEFINE b == [offset |-> start, out |-> out]
             n == Len(buffer)
             G == [k \in Nat |-> [r \in Reading |-> Pass(buffer, r)]]
  <1>1. b \in Reading /\ n \in Nat
    BY LenProperties DEF Reading
  <1>2. G \in [Nat -> [Reading -> Reading]]
    BY PassType
  <1>3. PICK f \in [0..n -> Reading] : Iterates(f, n, b, G)
    <2> HIDE DEF b, n, G
    <2> QED BY <1>1, <1>2, IterationExists
  <1>4. \A k \in 0..n : f[k] = IF k = 0 THEN b ELSE Pass(buffer, f[k - 1])
    <2> HIDE DEF b, n
    <2> TAKE k \in 0..n
    <2>1. CASE k = 0
      BY <1>3, <2>1 DEF Iterates
    <2>2. CASE k # 0
      <3>1. k \in 1..n /\ k \in Nat /\ k - 1 \in 0..n
        BY <1>1, <2>2
      <3>2. f[k - 1] \in Reading
        BY <1>3, <3>1
      <3>3. f[k] = G[k][f[k - 1]]
        BY <1>3, <3>1 DEF Iterates
      <3> QED BY <2>2, <3>1, <3>2, <3>3
    <2> QED BY <2>1, <2>2
  <1> QED BY <1>3, <1>4 DEF Passes

LEMMA ParsedPasses ==
  ASSUME NEW buffer \in Seq(Nat), NEW start \in Nat, NEW out \in Seq(AnyFrame)
  PROVE  \E f :
           /\ f[0] = [offset |-> start, out |-> out]
           /\ \A k \in 1..Len(buffer) : f[k] = Pass(buffer, f[k - 1])
           /\ \A k \in 0..Len(buffer) : f[k] \in Reading
           /\ Parsed(buffer, start, out) =
                LET at == f[Len(buffer)].offset
                IN [buffer |-> buffer, offset |-> at, out |-> f[Len(buffer)].out,
                    error |-> IF Refused(buffer, at)
                              THEN HeaderError(buffer[at + 1], buffer[at + 2], buffer[at + 3])
                              ELSE "None"]
  <1> DEFINE n == Len(buffer)
  <1>1. n \in Nat
    BY LenProperties
  <1>2. \E f : Passes(f, buffer, start, out)
    BY PassesExist
  <1>3. PICK f : /\ Passes(f, buffer, start, out)
                 /\ Parsed(buffer, start, out) =
                      LET at == f[Len(buffer)].offset
                      IN [buffer |-> buffer, offset |-> at, out |-> f[Len(buffer)].out,
                          error |-> IF Refused(buffer, at)
                                    THEN HeaderError(buffer[at + 1], buffer[at + 2], buffer[at + 3])
                                    ELSE "None"]
    <2> DEFINE g == CHOOSE f : Passes(f, buffer, start, out)
    <2>1. Passes(g, buffer, start, out)
      BY <1>2
    <2>2. g = CHOOSE f : f = [k \in 0..Len(buffer) |->
                IF k = 0 THEN [offset |-> start, out |-> out] ELSE Pass(buffer, f[k - 1])]
      BY DEF Passes
    <2> HIDE DEF g
    <2> QED BY <2>1, <2>2 DEF Parsed
  <1>4. f[0] = [offset |-> start, out |-> out]
    BY <1>1, <1>3 DEF Passes
  <1>5. \A k \in 1..n : f[k] = Pass(buffer, f[k - 1])
    <2> TAKE k \in 1..n
    <2>1. k \in 0..n /\ k # 0
      BY <1>1
    <2> QED BY <1>3, <2>1 DEF Passes
  <1>6. \A k \in 0..n : f[k] \in Reading
    <2>1. f[0] \in Reading
      BY <1>4 DEF Reading
    <2>2. \A k \in 1..n : f[k - 1] \in Reading => f[k] \in Reading
      BY <1>5, PassType
    <2> HIDE DEF n
    <2> QED BY <1>1, <2>1, <2>2, Along
  <1> QED BY <1>3, <1>4, <1>5, <1>6

(* A frame that is not refused, as bytes *)
GoodFrame(f) ==
  /\ f \in Seq(Nat) /\ Len(f) \in Nat /\ Len(f) >= 3 /\ Len(f) = 3 + f[1]
  /\ f[1] \in Nat /\ f[2] \in Nat /\ HeaderError(f[1], f[2], f[3]) = "None"

LEMMA HeaderAndPayload ==
  ASSUME NEW a \in Nat, NEW b \in Nat, NEW c \in Nat, NEW p \in Seq(Nat)
  PROVE  /\ <<a, b, c>> \o p \in Seq(Nat) /\ Len(<<a, b, c>> \o p) = 3 + Len(p)
         /\ (<<a, b, c>> \o p)[1] = a /\ (<<a, b, c>> \o p)[2] = b /\ (<<a, b, c>> \o p)[3] = c
         /\ \A i \in 1..Len(p) : (<<a, b, c>> \o p)[3 + i] = p[i]
  <1> DEFINE h == <<a, b, c>>
             s == h \o p
  <1>1. h \in Seq(Nat) /\ Len(h) = 3 /\ h[1] = a /\ h[2] = b /\ h[3] = c
    OBVIOUS
  <1> HIDE DEF h
  <1>2. /\ s \in Seq(Nat) /\ Len(s) = 3 + Len(p) /\ Len(p) \in Nat
        /\ \A i \in 1..3 + Len(p) : s[i] = IF i <= 3 THEN h[i] ELSE p[i - 3]
    <2>1. /\ s \in Seq(Nat) /\ Len(s) = Len(h) + Len(p)
          /\ \A i \in 1..Len(h) + Len(p) : s[i] = IF i <= Len(h) THEN h[i] ELSE p[i - Len(h)]
      BY <1>1, ConcatProperties
    <2> HIDE DEF s
    <2> QED BY <1>1, <2>1, LenProperties
  <1> HIDE DEF s
  <1>3. s[1] = a /\ s[2] = b /\ s[3] = c
    <2>1. 1 \in 1..3 + Len(p) /\ 2 \in 1..3 + Len(p) /\ 3 \in 1..3 + Len(p)
      BY <1>2
    <2> QED BY <1>1, <1>2, <2>1
  <1>4. \A i \in 1..Len(p) : s[3 + i] = p[i]
    <2> TAKE i \in 1..Len(p)
    <2>1. 3 + i \in 1..3 + Len(p)
      BY <1>2
    <2>2. PICK j \in 1..3 + Len(p) : j = 3 + i
      BY <2>1
    <2>3. ~(j <= 3) /\ j - 3 = i
      BY <1>2, <2>2
    <2> QED BY <1>2, <2>2, <2>3
  <1> QED BY <1>2, <1>3, <1>4 DEF s, h

LEMMA GoodFramesAreGood == ASSUME NEW f \in GoodFrames PROVE GoodFrame(f)
  <1>1. PICK r \in [flags : {0, KnownMask - 1}, payload : Payloads] : f = Encode(r)
    BY DEF GoodFrames
  <1> DEFINE g == r.flags
             p == r.payload
  <1>2. g \in {0, KnownMask - 1} /\ p \in Payloads
    OBVIOUS
  <1> HIDE DEF g, p
  <1>3. MaxPayload \in Nat /\ WireBytes \subseteq Nat
    BY WireAssumption
  <1>4. p \in Seq(Nat) /\ Len(p) \in 0..MaxPayload
    <2>1. PICK m \in 0..MaxPayload : p \in [1..m -> WireBytes]
      BY <1>2 DEF Payloads, BoundedSeq, SeqOf
    <2>2. m \in Nat /\ p \in [1..m -> Nat]
      <3>1. m \in Nat
        BY <1>3, <2>1
      <3>2. DOMAIN p = 1..m /\ \A i \in 1..m : p[i] \in Nat
        BY <1>3, <2>1
      <3>3. p = [i \in 1..m |-> p[i]]
        BY <2>1
      <3> QED BY <3>1, <3>2, <3>3
    <2>3. p \in Seq(Nat) /\ Len(p) = m
      BY <2>2
    <2> QED BY <2>1, <2>3
  <1>5. g \in Nat /\ ~(g >= KnownMask)
    BY <1>2 DEF KnownMask
  <1>6. f = <<Len(p), g, 0>> \o p
    BY <1>1 DEF Encode, g, p
  <1>7. Len(p) \in Nat /\ ~(Len(p) > MaxPayload)
    BY <1>3, <1>4
  <1>8. /\ f \in Seq(Nat) /\ Len(f) = 3 + Len(p)
        /\ f[1] = Len(p) /\ f[2] = g /\ f[3] = 0
    BY <1>4, <1>5, <1>6, <1>7, HeaderAndPayload
  <1> QED BY <1>5, <1>7, <1>8 DEF GoodFrame, HeaderError

(* What the bytes of a buffer say, and what the decoder makes of them *)
Holds(buffer, at, f) == \A i \in 1..Len(f) : buffer[at + i] = f[i]

LEMMA FrameTaken ==
  ASSUME NEW buffer \in Seq(Nat), NEW at \in Nat, NEW f, GoodFrame(f),
         at + Len(f) <= Len(buffer), Holds(buffer, at, f)
  PROVE  /\ Complete(buffer, at) /\ ~Refused(buffer, at)
         /\ Encode(FrameAt(buffer, at)) = f
         /\ at + HeaderBytes + buffer[at + 1] = at + Len(f)
  <1> DEFINE n == f[1]
             p == SubSeq(buffer, at + HeaderBytes + 1, at + HeaderBytes + n)
  <1>1. Len(f) \in Nat /\ Len(f) >= 3
    BY DEF GoodFrame
  <1>2. /\ f \in Seq(Nat) /\ Len(f) = 3 + n /\ n \in Nat /\ f[2] \in Nat /\ f[3] = 0
        /\ HeaderError(n, f[2], f[3]) = "None"
    <2>1. f[3] = 0
      BY DEF GoodFrame, HeaderError
    <2> QED BY <2>1 DEF GoodFrame
  <1>3. Len(buffer) \in Nat
    BY LenProperties
  <1>4. buffer[at + 1] = n /\ buffer[at + 2] = f[2] /\ buffer[at + 3] = f[3]
    <2>1. 1 \in 1..Len(f) /\ 2 \in 1..Len(f) /\ 3 \in 1..Len(f)
      BY <1>1
    <2> QED BY <2>1 DEF Holds
  <1> HIDE DEF n
  <1>5. Complete(buffer, at)
    BY <1>2, <1>3, <1>4 DEF Complete, HeaderBytes
  <1>6. ~Refused(buffer, at)
    BY <1>2, <1>4 DEF Refused
  <1>7. p \in Seq(Nat) /\ Len(p) = n /\ \A i \in 1..n : p[i] = f[3 + i]
    <2>1. \A i \in (at + 4)..(at + 3 + n) : buffer[i] \in Nat
      <3>1. \A i \in (at + 4)..(at + 3 + n) : i \in 1..Len(buffer)
        BY <1>2, <1>3
      <3> QED BY <3>1, ElementOfSeq
    <2>2. at + 4 \in Int /\ at + 3 + n \in Int
      BY <1>2
    <2> DEFINE a == at + 4
               b == at + 3 + n
               q == SubSeq(buffer, a, b)
    <2>3. /\ q \in Seq(Nat) /\ Len(q) = IF a <= b THEN b - a + 1 ELSE 0
          /\ \A i \in 1..b - a + 1 : q[i] = buffer[a + i - 1]
      <3> HIDE DEF a, b
      <3> QED BY <2>1, <2>2, SubSeqProperties DEF a, b
    <2>4. p = q
      <3>1. at + HeaderBytes + 1 = at + 4 /\ at + HeaderBytes + n = at + 3 + n
        BY <1>2 DEF HeaderBytes
      <3> QED BY <3>1
    <2> HIDE DEF p, q
    <2>5. Len(q) = n /\ b - a + 1 = n
      BY <1>2, <2>3
    <2>6. \A i \in 1..n : q[i] = f[3 + i]
      <3> TAKE i \in 1..n
      <3>1. at + 4 + i - 1 = at + (3 + i) /\ 3 + i \in 1..Len(f)
        BY <1>2
      <3>2. q[i] = buffer[at + 4 + i - 1]
        BY <2>3, <2>5
      <3>3. buffer[at + (3 + i)] = f[3 + i]
        BY <3>1 DEF Holds
      <3> QED BY <3>1, <3>2, <3>3
    <2> QED BY <2>3, <2>4, <2>5, <2>6
  <1>8. Encode(FrameAt(buffer, at)) = <<n, f[2], 0>> \o p
    <2>1. FrameAt(buffer, at) = [flags |-> f[2], payload |-> p]
      BY <1>4 DEF FrameAt
    <2> HIDE DEF p
    <2>2. Encode([flags |-> f[2], payload |-> p]) = <<Len(p), f[2], 0>> \o p
      BY DEF Encode
    <2> QED BY <1>7, <2>1, <2>2
  <1> DEFINE e == <<n, f[2], 0>> \o p
  <1>9. /\ e \in Seq(Nat) /\ Len(e) = 3 + Len(p)
        /\ e[1] = n /\ e[2] = f[2] /\ e[3] = 0 /\ \A i \in 1..Len(p) : e[3 + i] = p[i]
    <2> HIDE DEF p
    <2> DEFINE g == f[2]
    <2>1. n \in Nat /\ g \in Nat /\ 0 \in Nat /\ p \in Seq(Nat)
      BY <1>2, <1>7
    <2> HIDE DEF g
    <2>2. /\ <<n, g, 0>> \o p \in Seq(Nat) /\ Len(<<n, g, 0>> \o p) = 3 + Len(p)
          /\ (<<n, g, 0>> \o p)[1] = n /\ (<<n, g, 0>> \o p)[2] = g /\ (<<n, g, 0>> \o p)[3] = 0
          /\ \A i \in 1..Len(p) : (<<n, g, 0>> \o p)[3 + i] = p[i]
      BY <2>1, HeaderAndPayload, SMTT(40)
    <2> QED BY <2>2 DEF g
  <1>10. e = f
    <2> HIDE DEF e, p
    <2>1. \A i \in 1..Len(e) : e[i] = f[i]
      <3> TAKE i \in 1..Len(e)
      <3>1. i \in 1..3 + n
        BY <1>2, <1>7, <1>9
      <3>2. CASE i = 1
        BY <1>9, <3>2 DEF n
      <3>3. CASE i = 2
        BY <1>9, <3>3
      <3>4. CASE i = 3
        BY <1>2, <1>9, <3>4
      <3>5. CASE i > 3
        <4>1. PICK j \in 1..n : i = 3 + j
          <5>1. i - 3 \in 1..n /\ i = 3 + (i - 3)
            BY <1>2, <3>1, <3>5
          <5> QED BY <5>1
        <4> QED BY <1>7, <1>9, <4>1
      <3> QED BY <1>2, <3>1, <3>2, <3>3, <3>4, <3>5
    <2>2. Len(e) = Len(f) /\ e \in Seq(Nat) /\ f \in Seq(Nat)
      BY <1>2, <1>7, <1>9
    <2> QED BY <2>1, <2>2, SeqEqual
  <1>11. at + HeaderBytes + buffer[at + 1] = at + Len(f)
    BY <1>2, <1>4 DEF HeaderBytes
  <1>12. Encode(FrameAt(buffer, at)) = f
    BY <1>8, <1>10
  <1> QED BY <1>5, <1>6, <1>11, <1>12

(* The bytes st are n frames, the m-th of which ends at E[m], and then       *)
(* perhaps a header that must be refused, bad.                               *)
Streams(st, frames, n, E, bad) ==
  /\ st \in Seq(Nat) /\ Len(st) \in Nat /\ n \in Nat
  /\ E[0] = 0 /\ \A m \in 0..n : E[m] \in Nat /\ E[m] <= E[n]
  /\ \A m \in 0..n - 1 :
       /\ GoodFrame(frames[m + 1]) /\ E[m + 1] = E[m] + Len(frames[m + 1])
       /\ Holds(st, E[m], frames[m + 1])
  /\ E[n] <= Len(st)
  /\ \/ bad = <<>> /\ Len(st) = E[n]
     \/ /\ bad # <<>> /\ E[n] + 3 <= Len(st) /\ \A i \in 1..3 : st[E[n] + i] = bad[i]
        /\ HeaderError(bad[1], bad[2], bad[3]) # "None"

(* Of the first k bytes: another frame is whole, or the header has come. *)
MoreWhole(n, E, m, k) == m < n /\ E[m + 1] <= k
BadCame(n, E, bad, k) == bad # <<>> /\ E[n] + 3 <= k

(* The decoder gave m frames, and its buffer holds the bytes after them. *)
Given(frames, out, m) ==
  /\ out \in Seq(AnyFrame) /\ Len(out) = m
  /\ \A i \in 1..m : Encode(out[i]) = frames[i]

Reads(st, frames, n, E, buffer, k, r, m) ==
  /\ m \in 0..n /\ r \in Reading /\ Given(frames, r.out, m)
  /\ E[m] <= k /\ r.offset <= Len(buffer) /\ Len(buffer) - r.offset = k - E[m]
  /\ \A i \in 1..k - E[m] : buffer[r.offset + i] = st[E[m] + i]

LEMMA GivenMore ==
  ASSUME NEW frames, NEW out, NEW m \in Nat, Given(frames, out, m),
         NEW x \in AnyFrame, Encode(x) = frames[m + 1]
  PROVE  Given(frames, Append(out, x), m + 1)
  <1> DEFINE o == Append(out, x)
  <1>1. /\ o \in Seq(AnyFrame) /\ Len(o) = m + 1
        /\ \A i \in 1..m : o[i] = out[i]
        /\ o[m + 1] = x
    BY AppendProperties DEF Given
  <1> HIDE DEF o
  <1>2. \A i \in 1..m + 1 : Encode(o[i]) = frames[i]
    <2> TAKE i \in 1..m + 1
    <2>1. CASE i = m + 1
      BY <1>1, <2>1
    <2>2. CASE i # m + 1
      <3>1. i \in 1..m
        BY <2>2
      <3> QED BY <1>1, <3>1 DEF Given
    <2> QED BY <2>1, <2>2
  <1> QED BY <1>1, <1>2 DEF Given, o

LEMMA TakesWhole ==
  ASSUME NEW st, NEW frames, NEW n, NEW E, NEW bad, Streams(st, frames, n, E, bad),
         NEW buffer \in Seq(Nat), NEW k \in 0..Len(st), NEW r, NEW m,
         Reads(st, frames, n, E, buffer, k, r, m), MoreWhole(n, E, m, k)
  PROVE  /\ Reads(st, frames, n, E, buffer, k, Pass(buffer, r), m + 1)
         /\ Pass(buffer, r).offset > r.offset
  <1> DEFINE f == frames[m + 1]
             at == r.offset
             p == Pass(buffer, r)
             l == Len(f)
             total == Len(buffer)
             e == E[m]
             d == E[m + 1]
  <1>1. n \in Nat /\ k \in Nat /\ m \in 0..n /\ m < n /\ d <= k
    BY DEF Streams, Reads, MoreWhole
  <1>2. m \in 0..n - 1 /\ m + 1 \in 0..n /\ m \in Nat /\ m + 1 \in Nat
    BY <1>1
  <1>3. e \in Nat /\ d \in Nat
    BY <1>1, <1>2 DEF Streams
  <1>4. GoodFrame(f) /\ d = e + l /\ Holds(st, e, f)
    BY <1>2 DEF Streams
  <1>5. at \in Nat /\ r \in Reading /\ at <= total /\ total - at = k - e
        /\ \A i \in 1..k - e : buffer[at + i] = st[e + i]
    BY DEF Reads, Reading
  <1>6. l \in Nat /\ l >= 3 /\ total \in Nat
    BY <1>4, LenProperties DEF GoodFrame
  <1> HIDE DEF f, at, p, l, total, e, d
  <1>7. at + l <= total
    BY <1>1, <1>3, <1>4, <1>5, <1>6
  <1>8. Holds(buffer, at, f)
    <2> SUFFICES ASSUME NEW i \in 1..Len(f) PROVE buffer[at + i] = f[i]
      BY DEF Holds
    <2>1. i \in 1..l
      BY DEF l
    <2>2. i \in 1..k - e
      BY <1>1, <1>3, <1>4, <1>6, <2>1
    <2> QED BY <1>4, <1>5, <2>2 DEF Holds
  <1>9. /\ Complete(buffer, at) /\ ~Refused(buffer, at)
        /\ Encode(FrameAt(buffer, at)) = f
        /\ at + HeaderBytes + buffer[at + 1] = at + l
    <2>1. at + Len(f) <= Len(buffer)
      BY <1>7 DEF l, total
    <2> QED BY <1>4, <1>5, <1>8, <2>1, FrameTaken DEF l
  <1>10. p = [offset |-> at + l, out |-> Append(r.out, FrameAt(buffer, at))]
    BY <1>9 DEF Pass, p, at
  <1>11. FrameAt(buffer, at) \in AnyFrame
    <2>1. at + 1 \in 1..total /\ at + 2 \in 1..total
      <3>1. at \in Nat
        BY <1>5
      <3> QED BY <1>6, <1>7, <3>1
    <2>2. \A i \in 1..total : buffer[i] \in Nat
      BY ElementOfSeq DEF total
    <2>3. buffer[at + 1] \in Nat /\ buffer[at + 2] \in Nat
      BY <2>1, <2>2
    <2>4. SubSeq(buffer, at + HeaderBytes + 1, at + HeaderBytes + buffer[at + 1]) \in Seq(Nat)
      <3> DEFINE a == at + HeaderBytes + 1
                 b == at + HeaderBytes + buffer[at + 1]
      <3>1. b = at + l
        BY <1>9
      <3>2. a \in Int /\ a >= 1
        BY <1>5 DEF HeaderBytes
      <3> HIDE DEF a, b
      <3>3. b \in Int /\ \A i \in a..b : i \in 1..total
        BY <1>5, <1>6, <1>7, <3>1, <3>2
      <3>4. SubSeq(buffer, a, b) \in Seq(Nat)
        BY <2>2, <3>2, <3>3, SubSeqProperties
      <3> QED BY <3>4 DEF a, b
    <2> QED BY <2>3, <2>4 DEF FrameAt, AnyFrame
  <1>12. p \in Reading
    BY <1>5, PassType DEF p
  <1>13. Given(frames, p.out, m + 1)
    <2>1. Given(frames, r.out, m) /\ Encode(FrameAt(buffer, at)) = frames[m + 1]
      BY <1>9 DEF Reads, f
    <2> QED BY <1>2, <1>10, <1>11, <2>1, GivenMore
  <1>14. p.offset = at + l
    BY <1>10
  <1>15. p.offset <= total /\ p.offset > at /\ total - p.offset = k - d
    BY <1>1, <1>3, <1>4, <1>5, <1>6, <1>7, <1>14
  <1>16. ASSUME NEW i \in 1..k - d PROVE buffer[p.offset + i] = st[d + i]
    <2>1. PICK j \in 1..k - e : j = l + i
      <3>1. l + i \in 1..k - e
        BY <1>1, <1>3, <1>4, <1>6
      <3> QED BY <3>1
    <2>2. p.offset + i = at + j /\ d + i = e + j
      BY <1>1, <1>3, <1>4, <1>5, <1>6, <1>14, <2>1
    <2> QED BY <1>5, <2>2
  <1>17. /\ p.offset <= Len(buffer) /\ Len(buffer) - p.offset = k - E[m + 1]
         /\ E[m + 1] <= k
         /\ \A i \in 1..k - E[m + 1] : buffer[p.offset + i] = st[E[m + 1] + i]
    BY <1>1, <1>15, <1>16 DEF total, d
  <1>18. Reads(st, frames, n, E, buffer, k, p, m + 1)
    BY <1>2, <1>12, <1>13, <1>17 DEF Reads
  <1> QED BY <1>15, <1>18 DEF p, at

LEMMA TakesNothing ==
  ASSUME NEW st, NEW frames, NEW n, NEW E, NEW bad, Streams(st, frames, n, E, bad),
         NEW buffer \in Seq(Nat), NEW k \in 0..Len(st), NEW r, NEW m,
         Reads(st, frames, n, E, buffer, k, r, m), ~MoreWhole(n, E, m, k)
  PROVE  /\ Pass(buffer, r) = r
         /\ Refused(buffer, r.offset) <=> BadCame(n, E, bad, k)
         /\ BadCame(n, E, bad, k) =>
              HeaderError(buffer[r.offset + 1], buffer[r.offset + 2], buffer[r.offset + 3])
                = HeaderError(bad[1], bad[2], bad[3])
  <1> DEFINE at == r.offset
             rest == k - E[m]
  <1>1. /\ n \in Nat /\ m \in 0..n /\ m \in Nat /\ k \in Nat /\ Len(buffer) \in Nat
        /\ E[m] \in Nat /\ E[n] \in Nat /\ E[m] <= E[n] /\ n \in 0..n
    BY LenProperties DEF Streams, Reads
  <1>2. \A i \in 1..rest : buffer[at + i] = st[E[m] + i]
    BY DEF Reads
  <1>3. at \in Nat /\ rest \in Nat /\ Len(buffer) - at = rest
    BY <1>1 DEF Reads, Reading
  <1> HIDE DEF at, rest
  <1>4. CASE m # n
    <2> DEFINE f == frames[m + 1]
               l == Len(f)
               d == E[m + 1]
               z == E[n]
               e == E[m]
    <2>1. m \in 0..n - 1 /\ m < n /\ m + 1 \in 0..n
      BY <1>1, <1>4
    <2>2. /\ GoodFrame(f) /\ d = e + l /\ Holds(st, e, f)
          /\ d \in Nat /\ d <= z /\ z \in Nat /\ e \in Nat /\ rest = k - e
      BY <1>1, <2>1 DEF Streams, rest
    <2>3. ~(d <= k)
      BY <2>1 DEF MoreWhole
    <2>4. BadCame(n, E, bad, k) => z + 3 <= k
      BY DEF BadCame
    <2>5. l \in Nat /\ l = 3 + f[1] /\ f[1] \in Nat
          /\ HeaderError(f[1], f[2], f[3]) = "None"
      BY <2>2 DEF GoodFrame
    <2>6. \A i \in 1..l : st[e + i] = f[i]
      BY <2>2 DEF Holds
    <2>7. \A i \in 1..rest : buffer[at + i] = st[e + i]
      BY <1>2
    <2> HIDE DEF f, l, d, e, z
    <2>8. ~BadCame(n, E, bad, k)
      BY <1>1, <2>2, <2>3, <2>4
    <2>9. rest < l
      <3>1. d = e + l /\ rest = k - e /\ d \in Nat /\ e \in Nat /\ l \in Nat /\ k \in Nat
        BY <1>1, <2>2, <2>5
      <3> QED BY <2>3, <3>1
    <2>10. rest >= 3 => buffer[at + 1] = f[1] /\ buffer[at + 2] = f[2] /\ buffer[at + 3] = f[3]
      <3> HAVE rest >= 3
      <3>1. l >= 3 /\ l \in Nat
        BY <2>5
      <3>2. 1 \in 1..rest /\ 2 \in 1..rest /\ 3 \in 1..rest
            /\ 1 \in 1..l /\ 2 \in 1..l /\ 3 \in 1..l
        BY <1>3, <3>1
      <3> QED BY <2>6, <2>7, <3>2
    <2>11. ~Refused(buffer, at)
      <3> SUFFICES ASSUME Refused(buffer, at) PROVE FALSE
        OBVIOUS
      <3>1. rest >= 3
        BY <1>3 DEF Refused, HeaderBytes
      <3> QED BY <2>5, <2>10, <3>1 DEF Refused
    <2>12. ~Complete(buffer, at)
      <3> SUFFICES ASSUME Complete(buffer, at) PROVE FALSE
        OBVIOUS
      <3> DEFINE b == buffer[at + 1]
      <3>1. rest >= 3 /\ rest - 3 >= b
        BY <1>3 DEF Complete, HeaderBytes
      <3>2. b = f[1]
        BY <2>10, <3>1
      <3>3. l = 3 + b /\ l \in Nat /\ b \in Nat
        BY <2>5, <3>2
      <3> HIDE DEF b
      <3> QED BY <1>3, <2>9, <3>1, <3>3
    <2> QED BY <2>8, <2>11, <2>12 DEF Pass, at
  <1>5. CASE m = n
    <2>1. BadCame(n, E, bad, k) <=> rest >= 3
      <3>1. CASE bad = <<>>
        BY <1>1, <1>5, <3>1 DEF Streams, BadCame, rest
      <3>2. CASE bad # <<>>
        BY <1>1, <1>5, <3>2 DEF BadCame, rest
      <3> QED BY <3>1, <3>2
    <2>2. CASE rest >= 3
      <3>1. bad # <<>>
        BY <2>1, <2>2 DEF BadCame
      <3>2. (\A i \in 1..3 : st[E[n] + i] = bad[i]) /\ HeaderError(bad[1], bad[2], bad[3]) # "None"
        BY <3>1 DEF Streams
      <3>3. 1 \in 1..rest /\ 2 \in 1..rest /\ 3 \in 1..rest /\ 1 \in 1..3 /\ 2 \in 1..3 /\ 3 \in 1..3
        BY <1>3, <2>2
      <3>4. buffer[at + 1] = bad[1] /\ buffer[at + 2] = bad[2] /\ buffer[at + 3] = bad[3]
        BY <1>2, <1>5, <3>2, <3>3
      <3>5. Refused(buffer, at)
        BY <1>3, <2>2, <3>2, <3>4 DEF Refused, HeaderBytes
      <3> QED BY <2>1, <2>2, <3>4, <3>5 DEF Pass, at
    <2>3. CASE ~(rest >= 3)
      <3>1. ~Refused(buffer, at) /\ ~Complete(buffer, at)
        BY <1>3, <2>3 DEF Refused, Complete, HeaderBytes
      <3> QED BY <2>1, <2>3, <3>1 DEF Pass, at
    <2> QED BY <2>2, <2>3
  <1> QED BY <1>4, <1>5

LEMMA ParsedReads ==
  ASSUME NEW st, NEW frames, NEW n, NEW E, NEW bad, Streams(st, frames, n, E, bad),
         NEW buffer \in Seq(Nat), NEW k \in 0..Len(st),
         NEW start \in Nat, NEW out \in Seq(AnyFrame), NEW m0,
         Reads(st, frames, n, E, buffer, k, [offset |-> start, out |-> out], m0)
  PROVE  LET d == Parsed(buffer, start, out)
         IN \E m \in 0..n :
              /\ Reads(st, frames, n, E, buffer, k, [offset |-> d.offset, out |-> d.out], m)
              /\ ~MoreWhole(n, E, m, k) /\ d.buffer = buffer
              /\ d.error = IF BadCame(n, E, bad, k) THEN HeaderError(bad[1], bad[2], bad[3])
                           ELSE "None"
  <1> DEFINE total == Len(buffer)
             R(r, m) == Reads(st, frames, n, E, buffer, k, r, m)
             More(m) == MoreWhole(n, E, m, k)
             d == Parsed(buffer, start, out)
  <1>1. total \in Nat /\ n \in Nat
    BY LenProperties DEF Streams
  <1>2. PICK f :
          /\ f[0] = [offset |-> start, out |-> out]
          /\ \A j \in 1..total : f[j] = Pass(buffer, f[j - 1])
          /\ \A j \in 0..total : f[j] \in Reading
          /\ d = LET at == f[total].offset
                 IN [buffer |-> buffer, offset |-> at, out |-> f[total].out,
                     error |-> IF Refused(buffer, at)
                               THEN HeaderError(buffer[at + 1], buffer[at + 2], buffer[at + 3])
                               ELSE "None"]
    BY ParsedPasses
  <1> HIDE DEF d, total
  <1> DEFINE I(j) == \E m \in 0..n : R(f[j], m) /\ (More(m) => f[j].offset >= j)
             T == {j \in Nat : j \in 0..total => I(j)}
  <1>3. \A r, m : R(r, m) => m \in 0..n /\ r.offset \in Nat
    BY DEF Reads, Reading
  <1>4. 0 \in T
    <2>1. R(f[0], m0)
      BY <1>2
    <2>2. f[0].offset >= 0 /\ m0 \in 0..n
      BY <1>3, <2>1
    <2> QED BY <2>1, <2>2
  <1>5. ASSUME NEW j \in Nat \ {0}, j - 1 \in T PROVE j \in T
    <2> SUFFICES ASSUME j \in 0..total PROVE I(j)
      OBVIOUS
    <2>1. j - 1 \in 0..total /\ j \in 1..total /\ j - 1 \in Nat
      BY <1>1
    <2>2. PICK m \in 0..n : R(f[j - 1], m) /\ (More(m) => f[j - 1].offset >= j - 1)
      BY <1>5, <2>1
    <2>3. f[j] = Pass(buffer, f[j - 1])
      BY <1>2, <2>1
    <2>4. CASE More(m)
      <3>1. R(f[j], m + 1) /\ f[j].offset > f[j - 1].offset
        BY <2>2, <2>3, <2>4, TakesWhole
      <3>2. f[j].offset \in Nat /\ f[j - 1].offset \in Nat /\ m + 1 \in 0..n
        BY <1>3, <2>2, <3>1
      <3>3. f[j].offset >= j
        <4> DEFINE a == f[j].offset
                   b == f[j - 1].offset
        <4>1. a \in Nat /\ b \in Nat /\ a > b /\ b >= j - 1
          BY <2>2, <2>4, <3>1, <3>2
        <4> HIDE DEF a, b
        <4>2. a >= j
          BY <4>1
        <4> QED BY <4>2 DEF a
      <3> HIDE DEF R, More
      <3> QED BY <3>1, <3>2, <3>3
    <2>5. CASE ~More(m)
      <3>1. f[j] = f[j - 1]
        BY <2>2, <2>3, <2>5, TakesNothing
      <3> HIDE DEF R, More
      <3> QED BY <2>2, <2>5, <3>1
    <2> QED BY <2>4, <2>5
  <1>6. I(total)
    <2>1. Nat \subseteq T
      <3> HIDE DEF T
      <3> QED BY <1>4, <1>5, NaturalsUpTo
    <2> HIDE DEF I
    <2> QED BY <1>1, <2>1
  <1>7. PICK m \in 0..n : R(f[total], m) /\ (More(m) => f[total].offset >= total)
    BY <1>6
  <1>8. ~More(m)
    <2> SUFFICES ASSUME More(m) PROVE FALSE
      OBVIOUS
    <2> DEFINE a == f[total].offset
               e == E[m]
               g == E[m + 1]
               l == Len(frames[m + 1])
    <2>1. m \in 0..n - 1 /\ m \in 0..n /\ m + 1 \in 0..n
      BY <1>1, <1>7 DEF MoreWhole
    <2>2. a >= total /\ a <= total /\ total - a = k - e /\ g <= k
      BY <1>7 DEF Reads, MoreWhole, total
    <2>3. a \in Nat /\ e \in Nat /\ g \in Nat
      BY <1>3, <1>7, <2>1 DEF Streams
    <2>4. g = e + l /\ l \in Nat /\ l >= 3
      BY <2>1 DEF Streams, GoodFrame
    <2>5. k \in Nat
      BY DEF Streams
    <2> HIDE DEF a, e, g, l
    <2> QED BY <1>1, <2>2, <2>3, <2>4, <2>5
  <1> DEFINE at == f[total].offset
             r == [offset |-> d.offset, out |-> d.out]
  <1>9. /\ d.buffer = buffer /\ d.offset = at /\ d.out = f[total].out
        /\ d.error = IF Refused(buffer, at)
                     THEN HeaderError(buffer[at + 1], buffer[at + 2], buffer[at + 3])
                     ELSE "None"
    BY <1>2
  <1>10. r = f[total]
    <2>1. f[total] \in Reading
      BY <1>1, <1>2
    <2> QED BY <1>9, <2>1 DEF Reading
  <1>11. /\ Refused(buffer, at) <=> BadCame(n, E, bad, k)
         /\ BadCame(n, E, bad, k) =>
              HeaderError(buffer[at + 1], buffer[at + 2], buffer[at + 3])
                = HeaderError(bad[1], bad[2], bad[3])
    BY <1>7, <1>8, TakesNothing
  <1>12. d.error = IF BadCame(n, E, bad, k) THEN HeaderError(bad[1], bad[2], bad[3]) ELSE "None"
    BY <1>9, <1>11
  <1>13. R(r, m)
    BY <1>7, <1>10
  <1>14. /\ m \in 0..n /\ R(r, m) /\ ~More(m) /\ d.buffer = buffer
         /\ d.error = IF BadCame(n, E, bad, k) THEN HeaderError(bad[1], bad[2], bad[3]) ELSE "None"
    BY <1>8, <1>9, <1>12, <1>13
  <1> QED BY <1>14 DEF d

(* What the decoder is after the first k bytes, however they came *)
Got(st, frames, n, E, bad, d, k) ==
  \E m \in 0..n :
    /\ Given(frames, d.out, m) /\ E[m] <= k /\ ~MoreWhole(n, E, m, k)
    /\ d.error = IF BadCame(n, E, bad, k) THEN HeaderError(bad[1], bad[2], bad[3]) ELSE "None"
    /\ d.error = "None" =>
         /\ d.buffer \in Seq(Nat)
         /\ Reads(st, frames, n, E, d.buffer, k, [offset |-> d.offset, out |-> d.out], m)

LEMMA CompactedReads ==
  ASSUME NEW st, NEW frames, NEW n, NEW E, NEW k \in Nat, NEW m, E[m] \in Nat,
         NEW b \in Seq(Nat), NEW at, NEW error, NEW out,
         Reads(st, frames, n, E, b, k, [offset |-> at, out |-> out], m)
  PROVE  LET c == Compacted([buffer |-> b, offset |-> at, error |-> error, out |-> out])
         IN /\ c.buffer \in Seq(Nat) /\ c.out = out /\ c.error = error
            /\ Reads(st, frames, n, E, c.buffer, k, [offset |-> c.offset, out |-> c.out], m)
  <1> DEFINE d == [buffer |-> b, offset |-> at, error |-> error, out |-> out]
             c == Compacted(d)
             total == Len(b)
             e == E[m]
             s == SubSeq(b, at + 1, total)
  <1>1. CASE c = d
    BY <1>1
  <1>2. CASE c # d
    <2>1. c = Dropped(d)
      BY <1>2 DEF Compacted
    <2>2. c = [buffer |-> s, offset |-> 0, error |-> error, out |-> out]
      BY <2>1 DEF Dropped
    <2>3. /\ at \in Nat /\ total \in Nat /\ at <= total /\ total - at = k - e /\ e <= k /\ e \in Nat
      BY LenProperties DEF Reads, Reading
    <2>4. m \in 0..n /\ Given(frames, out, m) /\ out \in Seq(AnyFrame)
      BY DEF Reads, Reading
    <2>5. \A i \in 1..k - e : b[at + i] = st[e + i]
      BY DEF Reads
    <2>6. \A i \in 1..total : b[i] \in Nat
      BY ElementOfSeq
    <2> HIDE DEF total, e, c, d
    <2> DEFINE a == at + 1
    <2>7. a = at + 1 /\ a \in Nat /\ a >= 1 /\ k - e \in Nat
      BY <2>3
    <2> HIDE DEF a
    <2>8. total - a + 1 = k - e
      BY <2>3, <2>7
    <2>9. a \in Nat \ {0} /\ total \in Nat /\ total <= Len(b) /\ a <= total + 1
      BY <2>3, <2>7 DEF total
    <2>10. /\ SubSeq(b, a, total) \in Seq(Nat) /\ Len(SubSeq(b, a, total)) = total - a + 1
           /\ \A i \in 1..total - a + 1 : SubSeq(b, a, total)[i] = b[a + i - 1]
      BY <2>9, Slice
    <2>11. s = SubSeq(b, a, total)
      BY DEF a
    <2> HIDE DEF s
    <2>12. /\ s \in Seq(Nat) /\ Len(s) = total - a + 1
           /\ \A i \in 1..total - a + 1 : s[i] = b[a + i - 1]
      BY <2>10, <2>11
    <2>13. \A i \in 1..k - e : s[0 + i] = st[e + i]
      <3> TAKE i \in 1..k - e
      <3>1. a + i - 1 = at + i /\ 0 + i = i
        BY <2>3, <2>7
      <3>2. s[i] = b[a + i - 1]
        BY <2>8, <2>12
      <3> QED BY <2>5, <3>1, <3>2
    <2> DEFINE r == [offset |-> 0, out |-> out]
    <2>14. r \in Reading /\ r.offset = 0 /\ r.out = out
      BY <2>4 DEF Reading
    <2>15. 0 <= Len(s) /\ Len(s) - 0 = k - e
      BY <2>3, <2>8, <2>12
    <2> HIDE DEF r
    <2>16. Reads(st, frames, n, E, s, k, r, m)
      BY <2>3, <2>4, <2>13, <2>14, <2>15 DEF Reads, e
    <2>17. c.buffer = s /\ c.out = out /\ c.error = error /\ [offset |-> c.offset, out |-> c.out] = r
      BY <2>2 DEF r
    <2> QED BY <2>12, <2>16, <2>17 DEF c, d
  <1> QED BY <1>1, <1>2

(* Whatever chunk comes next *)
LEMMA AppendGets ==
  ASSUME NEW st, NEW frames, NEW n, NEW E, NEW bad, Streams(st, frames, n, E, bad),
         NEW k \in 0..Len(st), NEW k2 \in k..Len(st), NEW d,
         Got(st, frames, n, E, bad, d, k)
  PROVE  Got(st, frames, n, E, bad, DecoderAppend(d, SubSeq(st, k + 1, k2)), k2)
  <1> DEFINE chunk == SubSeq(st, k + 1, k2)
             refusal == HeaderError(bad[1], bad[2], bad[3])
  <1>1. n \in Nat /\ k \in Nat /\ k2 \in Nat /\ k <= k2 /\ k2 <= Len(st) /\ Len(st) \in Nat
        /\ k2 \in 0..Len(st) /\ st \in Seq(Nat)
    BY DEF Streams
  <1>2. PICK m \in 0..n :
          /\ Given(frames, d.out, m) /\ E[m] <= k /\ ~MoreWhole(n, E, m, k)
          /\ d.error = IF BadCame(n, E, bad, k) THEN refusal ELSE "None"
          /\ d.error = "None" =>
               /\ d.buffer \in Seq(Nat)
               /\ Reads(st, frames, n, E, d.buffer, k, [offset |-> d.offset, out |-> d.out], m)
    BY DEF Got
  <1>3. E[m] \in Nat /\ E[n] \in Nat /\ E[m] <= E[n] /\ m \in Nat
    BY <1>1, <1>2 DEF Streams
  <1>4. BadCame(n, E, bad, k) => refusal # "None"
    BY DEF BadCame, Streams
  <1>5. CASE BadCame(n, E, bad, k)
    <2>1. DecoderAppend(d, chunk) = d
      BY <1>2, <1>4, <1>5 DEF DecoderAppend
    <2>2. BadCame(n, E, bad, k2)
      <3> DEFINE e == E[n]
      <3>1. e \in Nat /\ e + 3 <= k
        BY <1>3, <1>5 DEF BadCame
      <3> HIDE DEF e
      <3>2. e + 3 <= k2
        BY <1>1, <3>1
      <3> QED BY <1>5, <3>2 DEF BadCame, e
    <2>3. ~MoreWhole(n, E, m, k2)
      <3>1. CASE m = n
        BY <1>1, <3>1 DEF MoreWhole
      <3>2. CASE m # n
        <4> DEFINE e == E[n]
                   g == E[m + 1]
        <4>1. m < n /\ m + 1 \in 0..n
          BY <1>1, <1>2, <3>2
        <4>2. g \in Nat /\ e \in Nat /\ g <= e
          BY <1>3, <4>1 DEF Streams
        <4>3. e + 3 <= k /\ ~(g <= k)
          BY <1>2, <1>5, <4>1 DEF BadCame, MoreWhole
        <4> HIDE DEF e, g
        <4> QED BY <1>1, <4>2, <4>3
      <3> QED BY <3>1, <3>2
    <2>4. E[m] <= k2
      <3> DEFINE e == E[m]
      <3>1. e \in Nat /\ e <= k
        BY <1>2, <1>3
      <3> HIDE DEF e
      <3>2. e <= k2
        BY <1>1, <3>1
      <3> QED BY <3>2 DEF e
    <2>5. d.error # "None" /\ d.error = IF BadCame(n, E, bad, k2) THEN refusal ELSE "None"
      BY <1>2, <1>4, <1>5, <2>2
    <2> QED BY <1>2, <2>1, <2>3, <2>4, <2>5 DEF Got
  <1>6. CASE ~BadCame(n, E, bad, k)
    <2> DEFINE b == d.buffer
               at == d.offset
               out == d.out
               total == Len(b)
               e == E[m]
               all == b \o chunk
    <2>1. d.error = "None"
      BY <1>2, <1>6
    <2>2. b \in Seq(Nat) /\ Reads(st, frames, n, E, b, k, [offset |-> at, out |-> out], m)
      BY <1>2, <2>1
    <2>3. DecoderAppend(d, chunk) = Compacted(Parsed(all, at, out))
      BY <2>1 DEF DecoderAppend
    <2>4. /\ at \in Nat /\ at <= total /\ total - at = k - e /\ e <= k /\ e \in Nat
      BY <1>3, <2>2 DEF Reads, Reading
    <2>5. \A i \in 1..k - e : b[at + i] = st[e + i]
      BY <2>2 DEF Reads
    <2>6. m \in 0..n /\ Given(frames, out, m) /\ out \in Seq(AnyFrame)
      BY <2>2 DEF Reads, Reading
    <2>7. total \in Nat
      BY <2>2, LenProperties
    <2> HIDE DEF b, at, out, total, e, chunk, refusal
    <2>8. chunk \in Seq(Nat) /\ Len(chunk) = k2 - k /\ \A i \in 1..k2 - k : chunk[i] = st[k + i]
      <3> DEFINE a == k + 1
      <3>1. a \in Nat \ {0} /\ a = k + 1 /\ k2 \in Nat /\ a <= k2 + 1 /\ k2 - a + 1 = k2 - k
        BY <1>1
      <3>2. chunk = SubSeq(st, a, k2)
        BY DEF a, chunk
      <3> HIDE DEF a
      <3>3. /\ chunk \in Seq(Nat) /\ Len(chunk) = k2 - a + 1
            /\ \A i \in 1..k2 - a + 1 : chunk[i] = st[a + i - 1]
        BY <1>1, <3>1, <3>2, Slice
      <3>4. \A i \in 1..k2 - k : chunk[i] = st[k + i]
        <4> TAKE i \in 1..k2 - k
        <4>1. a + i - 1 = k + i
          BY <1>1, <3>1
        <4> QED BY <3>1, <3>3, <4>1
      <3> QED BY <3>1, <3>3, <3>4
    <2>9. /\ all \in Seq(Nat) /\ Len(all) = total + (k2 - k)
          /\ \A i \in 1..total + (k2 - k) : all[i] = IF i <= total THEN b[i] ELSE chunk[i - total]
      <3>1. /\ b \o chunk \in Seq(Nat) /\ Len(b \o chunk) = Len(b) + Len(chunk)
            /\ \A i \in 1..Len(b) + Len(chunk) :
                 (b \o chunk)[i] = IF i <= Len(b) THEN b[i] ELSE chunk[i - Len(b)]
        BY <2>2, <2>8, ConcatProperties
      <3> QED BY <2>8, <3>1 DEF total
    <2> HIDE DEF all
    <2>10. \A i \in 1..k2 - e : all[at + i] = st[e + i]
      <3> TAKE i \in 1..k2 - e
      <3>1. PICK j \in 1..total + (k2 - k) : j = at + i
        <4>1. at + i \in 1..total + (k2 - k)
          BY <1>1, <2>4, <2>7
        <4> QED BY <4>1
      <3>2. CASE i <= k - e
        <4>1. i \in 1..k - e /\ j <= total
          BY <1>1, <2>4, <2>7, <3>1, <3>2
        <4> QED BY <2>5, <2>9, <3>1, <4>1
      <3>3. CASE ~(i <= k - e)
        <4>1. PICK h \in 1..k2 - k : h = j - total
          <5>1. j - total \in 1..k2 - k
            BY <1>1, <2>4, <2>7, <3>1, <3>3
          <5> QED BY <5>1
        <4>2. ~(j <= total) /\ k + h = e + i
          BY <1>1, <2>4, <2>7, <3>1, <3>3, <4>1
        <4>3. all[j] = chunk[h]
          BY <2>9, <4>1, <4>2
        <4>4. chunk[h] = st[k + h]
          BY <2>8
        <4> QED BY <3>1, <4>2, <4>3, <4>4
      <3> QED BY <3>2, <3>3
    <2>11. /\ e <= k2 /\ at <= Len(all) /\ Len(all) - at = k2 - e
      BY <1>1, <2>4, <2>7, <2>9
    <2> DEFINE r == [offset |-> at, out |-> out]
    <2>12. Reads(st, frames, n, E, all, k2, r, m)
      <3>1. r \in Reading /\ r.offset = at /\ r.out = out
        BY <2>4, <2>6 DEF Reading
      <3> HIDE DEF r
      <3> QED BY <2>6, <2>10, <2>11, <3>1 DEF Reads, e
    <2> DEFINE p == Parsed(all, at, out)
    <2>13. PICK w \in 0..n :
             /\ Reads(st, frames, n, E, all, k2, [offset |-> p.offset, out |-> p.out], w)
             /\ ~MoreWhole(n, E, w, k2) /\ p.buffer = all
             /\ p.error = IF BadCame(n, E, bad, k2) THEN refusal ELSE "None"
      <3>1. Reads(st, frames, n, E, all, k2, [offset |-> at, out |-> out], m)
        BY <2>12
      <3> HIDE DEF p, r
      <3>2. /\ all \in Seq(Nat) /\ k2 \in 0..Len(st) /\ at \in Nat /\ out \in Seq(AnyFrame)
        BY <1>1, <2>4, <2>6, <2>9
      <3>3. LET v == Parsed(all, at, out)
            IN \E w \in 0..n :
             /\ Reads(st, frames, n, E, all, k2, [offset |-> v.offset, out |-> v.out], w)
             /\ ~MoreWhole(n, E, w, k2) /\ v.buffer = all
             /\ v.error = IF BadCame(n, E, bad, k2) THEN HeaderError(bad[1], bad[2], bad[3])
                          ELSE "None"
        BY <3>1, <3>2, ParsedReads
      <3> QED BY <3>3 DEF refusal, p
    <2>14. p = [buffer |-> all, offset |-> p.offset, error |-> p.error, out |-> p.out]
      BY <2>13 DEF Parsed
    <2> HIDE DEF p
    <2>15. E[w] \in Nat /\ E[w] <= k2 /\ Given(frames, p.out, w)
      BY <2>13 DEF Reads, Streams
    <2> DEFINE c == Compacted([buffer |-> all, offset |-> p.offset, error |-> p.error, out |-> p.out])
    <2>16. /\ c.buffer \in Seq(Nat) /\ c.out = p.out /\ c.error = p.error
           /\ Reads(st, frames, n, E, c.buffer, k2, [offset |-> c.offset, out |-> c.out], w)
      BY <1>1, <2>9, <2>13, <2>15, CompactedReads
    <2> HIDE DEF c
    <2>17. Got(st, frames, n, E, bad, c, k2)
      BY <2>13, <2>15, <2>16 DEF Got, refusal
    <2>18. c = Compacted(p)
      BY <2>14 DEF c
    <2> QED BY <2>3, <2>17, <2>18 DEF p, chunk
  <1> QED BY <1>5, <1>6

LEMMA NewGets ==
  ASSUME NEW st, NEW frames, NEW n, NEW E, NEW bad, Streams(st, frames, n, E, bad)
  PROVE  Got(st, frames, n, E, bad, NewDecoder, 0)
  <1>1. n \in Nat /\ 0 \in 0..n /\ E[0] = 0
    BY DEF Streams
  <1>2. ~BadCame(n, E, bad, 0)
    <2> DEFINE e == E[n]
    <2>1. e \in Nat
      BY <1>1 DEF Streams
    <2> HIDE DEF e
    <2>2. ~(e + 3 <= 0)
      BY <2>1
    <2> QED BY <2>2 DEF BadCame, e
  <1>3. ~MoreWhole(n, E, 0, 0)
    <2> SUFFICES ASSUME 0 < n PROVE ~(E[1] <= 0)
      BY DEF MoreWhole
    <2> DEFINE l == Len(frames[1])
               e == E[1]
    <2>1. 0 \in 0..n - 1 /\ 0 + 1 = 1
      BY <1>1
    <2>2. e = 0 + l /\ l \in Nat /\ l >= 3
      BY <1>1, <2>1 DEF Streams, GoodFrame
    <2> HIDE DEF e, l
    <2>3. ~(e <= 0)
      BY <2>2
    <2> QED BY <2>3 DEF e
  <1> DEFINE r == [offset |-> 0, out |-> <<>>]
  <1>4. <<>> \in Seq(AnyFrame) /\ Len(<<>>) = 0 /\ <<>> \in Seq(Nat)
    BY EmptySeq
  <1>5. Given(frames, <<>>, 0)
    BY <1>4 DEF Given
  <1>6. Reads(st, frames, n, E, <<>>, 0, r, 0)
    <2>1. r \in Reading /\ r.offset = 0 /\ r.out = <<>>
      BY <1>4 DEF Reading
    <2> HIDE DEF r
    <2> QED BY <1>1, <1>4, <1>5, <2>1 DEF Reads
  <1>7. /\ NewDecoder.out = <<>> /\ NewDecoder.error = "None" /\ NewDecoder.buffer = <<>>
        /\ [offset |-> NewDecoder.offset, out |-> NewDecoder.out] = r
    BY DEF NewDecoder
  <1> HIDE DEF r
  <1> QED BY <1>1, <1>2, <1>3, <1>4, <1>5, <1>6, <1>7 DEF Got

(* The chunks of a stream, in the order they come; cut[q] is where the q-th  *)
(* of them ends and D[q] is the decoder after it.                            *)
Chunked(st, c, cut, D) ==
  /\ c \in Nat /\ cut[0] = 0 /\ D[0] = NewDecoder
  /\ \A q \in 1..c :
       /\ cut[q] \in cut[q - 1]..Len(st)
       /\ D[q] = DecoderAppend(D[q - 1], SubSeq(st, cut[q - 1] + 1, cut[q]))

(* Decoder::append, wire.cpp: a stream of frames, of any number and any      *)
(* lengths, cut into chunks anywhere and any number of times.  The decoder   *)
(* has given exactly the frames whose last byte has come, an error is there  *)
(* if and only if the header that follows them has come and is refused, and  *)
(* otherwise its buffer ends in the bytes of the frame that is not whole.    *)
THEOREM AnyChunks ==
  ASSUME NEW st, NEW frames, NEW n, NEW E, NEW bad, Streams(st, frames, n, E, bad),
         NEW c, NEW cut, NEW D, Chunked(st, c, cut, D)
  PROVE  \A q \in 0..c : cut[q] \in 0..Len(st) /\ Got(st, frames, n, E, bad, D[q], cut[q])
  <1> DEFINE T == {q \in Nat : q \in 0..c =>
                     cut[q] \in 0..Len(st) /\ Got(st, frames, n, E, bad, D[q], cut[q])}
  <1>1. Len(st) \in Nat /\ c \in Nat
    BY DEF Streams, Chunked
  <1>2. 0 \in T
    <2>1. cut[0] = 0 /\ D[0] = NewDecoder
      BY DEF Chunked
    <2> QED BY <1>1, <2>1, NewGets
  <1>3. ASSUME NEW q \in Nat \ {0}, q - 1 \in T PROVE q \in T
    <2> SUFFICES ASSUME q \in 0..c
                 PROVE  cut[q] \in 0..Len(st) /\ Got(st, frames, n, E, bad, D[q], cut[q])
      OBVIOUS
    <2>1. q \in 1..c /\ q - 1 \in 0..c
      BY <1>1
    <2>2. cut[q - 1] \in 0..Len(st) /\ Got(st, frames, n, E, bad, D[q - 1], cut[q - 1])
      BY <1>3, <2>1
    <2>3. /\ cut[q] \in cut[q - 1]..Len(st)
          /\ D[q] = DecoderAppend(D[q - 1], SubSeq(st, cut[q - 1] + 1, cut[q]))
      BY <2>1 DEF Chunked
    <2>4. Got(st, frames, n, E, bad, D[q], cut[q])
      BY <2>2, <2>3, AppendGets
    <2>5. cut[q] \in 0..Len(st)
      <3> DEFINE a == cut[q - 1]
                 b == cut[q]
                 l == Len(st)
      <3>1. a \in 0..l /\ b \in a..l /\ l \in Nat
        BY <1>1, <2>2, <2>3
      <3> HIDE DEF a, b, l
      <3>2. b \in 0..l
        BY <3>1
      <3> QED BY <3>2 DEF b, l
    <2> QED BY <2>4, <2>5
  <1>4. Nat \subseteq T
    <2> HIDE DEF T
    <2> QED BY <1>2, <1>3, NaturalsUpTo
  <1> QED BY <1>4

LEMMA FrontOfFront ==
  ASSUME NEW s \in Seq(Nat), NEW k \in 0..Len(s), NEW a \in Nat \ {0}, NEW b \in 0..k
  PROVE  SubSeq(SubSeq(s, 1, k), a, b) = SubSeq(s, a, b)
  <1> DEFINE f == SubSeq(s, 1, k)
             x == SubSeq(f, a, b)
             y == SubSeq(s, a, b)
  <1>1. /\ Len(s) \in Nat /\ k \in Nat /\ b \in Nat /\ b <= k /\ k <= Len(s)
        /\ a \in Int /\ b \in Int
    BY LenProperties
  <1>2. f \in Seq(Nat) /\ Len(f) = k /\ \A i \in 1..k : f[i] = s[i]
    BY FrontPieces
  <1> HIDE DEF f
  <1>3. (\A i \in a..b : i \in 1..k) /\ (\A i \in a..b : i \in 1..Len(s)) /\ 1..k \subseteq 1..Len(s)
    BY <1>1
  <1>4. (\A i \in a..b : f[i] \in Nat) /\ (\A i \in a..b : s[i] \in Nat)
    BY <1>2, <1>3, ElementOfSeq
  <1> DEFINE l == IF a <= b THEN b - a + 1 ELSE 0
  <1>5. x \in Seq(Nat) /\ Len(x) = l /\ \A i \in 1..b - a + 1 : x[i] = f[a + i - 1]
    BY <1>1, <1>2, <1>4, SubSeqProperties
  <1>6. y \in Seq(Nat) /\ Len(y) = l /\ \A i \in 1..b - a + 1 : y[i] = s[a + i - 1]
    BY <1>1, <1>4, SubSeqProperties
  <1> HIDE DEF x, y
  <1>7. \A i \in 1..l : i \in 1..b - a + 1 /\ a + i - 1 \in 1..k
    BY <1>1
  <1>8. \A i \in 1..l : x[i] = y[i]
    <2> HIDE DEF l
    <2> TAKE i \in 1..l
    <2>1. x[i] = f[a + i - 1] /\ y[i] = s[a + i - 1] /\ f[a + i - 1] = s[a + i - 1]
      BY <1>2, <1>5, <1>6, <1>7
    <2> QED BY <2>1
  <1> HIDE DEF l
  <1>9. x = y
    BY <1>5, <1>6, <1>8, SeqEqual
  <1> QED BY <1>9 DEF x, y, f

(* What a stream that ChunksReassembled looks at is made of *)
LEMMA BadHeaderParts ==
  ASSUME NEW bad \in BadHeaders
  PROVE  /\ bad \in Seq(Nat) /\ Len(bad) = 3 /\ bad # <<>>
         /\ HeaderError(bad[1], bad[2], bad[3]) # "None"
  <1>1. PICK a \in Nat, b \in Nat, c \in Nat : bad = <<a, b, c>> /\ HeaderError(a, b, c) # "None"
    <2>1. MaxPayload \in Nat /\ MaxPayload + 1 \in Nat /\ MaxPayload + 1 > MaxPayload
          /\ KnownMask \in Nat /\ KnownMask >= KnownMask
      BY WireAssumption DEF KnownMask
    <2>2. HeaderError(MaxPayload + 1, 0, 0) # "None"
      BY <2>1 DEF HeaderError
    <2>3. HeaderError(1, KnownMask, 0) # "None"
      BY <2>1 DEF HeaderError
    <2>4. HeaderError(0, 0, 1) # "None"
      BY <2>1 DEF HeaderError
    <2>5. CASE bad = <<MaxPayload + 1, 0, 0>>
      BY <2>1, <2>2, <2>5
    <2>6. CASE bad = <<1, KnownMask, 0>>
      BY <2>1, <2>3, <2>6
    <2>7. CASE bad = <<0, 0, 1>>
      BY <2>4, <2>7
    <2> QED BY <2>5, <2>6, <2>7 DEF BadHeaders
  <1>2. bad \in Seq(Nat) /\ Len(bad) = 3 /\ bad[1] = a /\ bad[2] = b /\ bad[3] = c
    BY <1>1
  <1>3. bad # <<>>
    BY <1>2, EmptySeq
  <1> QED BY <1>1, <1>2, <1>3

LEMMA StreamsOf ==
  ASSUME NEW n \in Nat, NEW frames \in [1..n -> GoodFrames], NEW bad \in BadHeaders \cup {<<>>}
  PROVE  /\ frames \in Seq(Seq(Nat)) /\ Len(frames) = n
         /\ LET st == FlattenSeq(frames) \o bad \o (IF bad = <<>> THEN <<>> ELSE <<0>>)
            IN Streams(st, frames, n, [m \in 0..n |-> EndOf(frames, m)], bad)
  <1> DEFINE w == FlattenSeq(frames)
             t == IF bad = <<>> THEN <<>> ELSE <<0>>
             st == w \o bad \o t
             E == [m \in 0..n |-> EndOf(frames, m)]
             l == Len(w)
  <1>1. \A i \in 1..n : GoodFrame(frames[i]) /\ frames[i] \in Seq(Nat)
    <2> TAKE i \in 1..n
    <2>1. frames[i] \in GoodFrames
      OBVIOUS
    <2> QED BY <2>1, GoodFramesAreGood DEF GoodFrame
  <1>2. frames \in Seq(Seq(Nat)) /\ Len(frames) = n
    <2>1. frames \in [1..n -> Seq(Nat)]
      BY <1>1
    <2> QED BY <2>1
  <1>3. /\ w \in Seq(Nat) /\ EndOf(frames, 0) = 0 /\ EndOf(frames, n) = l /\ l \in Nat
        /\ \A m \in 0..n : EndOf(frames, m) \in Nat /\ EndOf(frames, m) <= EndOf(frames, n)
        /\ \A m \in 0..n - 1 :
             /\ EndOf(frames, m + 1) = EndOf(frames, m) + Len(frames[m + 1])
             /\ \A i \in 1..Len(frames[m + 1]) : w[EndOf(frames, m) + i] = frames[m + 1][i]
    BY <1>2, Layout, LenProperties
  <1>4. /\ bad \in Seq(Nat) /\ Len(bad) = IF bad = <<>> THEN 0 ELSE 3
        /\ t \in Seq(Nat) /\ Len(t) = IF bad = <<>> THEN 0 ELSE 1
    <2>1. <<>> \in Seq(Nat) /\ Len(<<>>) = 0 /\ <<0>> \in Seq(Nat) /\ Len(<<0>>) = 1
      OBVIOUS
    <2>2. CASE bad = <<>>
      BY <2>1, <2>2
    <2>3. CASE bad # <<>>
      <3>1. bad \in BadHeaders
        BY <2>3
      <3>2. bad \in Seq(Nat) /\ Len(bad) = 3
        BY <3>1, BadHeaderParts
      <3> QED BY <2>1, <2>3, <3>2
    <2> QED BY <2>2, <2>3
  <1> HIDE DEF w, t, l
  <1> DEFINE v == w \o bad
  <1>5. /\ v \in Seq(Nat) /\ Len(v) = l + Len(bad)
        /\ \A i \in 1..l + Len(bad) : v[i] = IF i <= l THEN w[i] ELSE bad[i - l]
    BY <1>3, <1>4, ConcatProperties DEF l
  <1> HIDE DEF v
  <1>6. /\ st \in Seq(Nat) /\ Len(st) = l + Len(bad) + Len(t)
        /\ \A i \in 1..l + Len(bad) + Len(t) :
             st[i] = IF i <= l + Len(bad) THEN v[i] ELSE t[i - (l + Len(bad))]
    <2>1. st = v \o t
      BY DEF v
    <2>2. /\ v \o t \in Seq(Nat) /\ Len(v \o t) = Len(v) + Len(t)
          /\ \A i \in 1..Len(v) + Len(t) :
               (v \o t)[i] = IF i <= Len(v) THEN v[i] ELSE t[i - Len(v)]
      BY <1>4, <1>5, ConcatProperties
    <2> HIDE DEF st
    <2> QED BY <1>5, <2>1, <2>2
  <1> HIDE DEF st
  <1> DEFINE h == Len(bad)
             g == Len(t)
  <1>7. h \in Nat /\ g \in Nat /\ (bad = <<>> => h = 0 /\ g = 0) /\ (bad # <<>> => h = 3)
    BY <1>4
  <1> HIDE DEF h, g
  <1>8. \A i \in 1..l + h : st[i] = v[i]
    <2> TAKE i \in 1..l + h
    <2>1. i \in 1..l + h + g /\ i <= l + h
      BY <1>3, <1>7
    <2> QED BY <1>6, <2>1 DEF h, g
  <1>9. \A i \in 1..l : st[i] = w[i]
    <2> TAKE i \in 1..l
    <2>1. i \in 1..l + h /\ i <= l
      BY <1>3, <1>7
    <2> QED BY <1>5, <1>8, <2>1 DEF h
  <1>10. E[0] = 0 /\ E[n] = l /\ \A m \in 0..n : E[m] = EndOf(frames, m) /\ E[m] \in Nat /\ E[m] <= E[n]
    <2>1. 0 \in 0..n /\ n \in 0..n
      OBVIOUS
    <2> QED BY <1>3, <2>1
  <1> HIDE DEF E
  <1>11. ASSUME NEW m \in 0..n - 1
         PROVE  /\ GoodFrame(frames[m + 1]) /\ E[m + 1] = E[m] + Len(frames[m + 1])
                /\ Holds(st, E[m], frames[m + 1])
    <2> DEFINE f == frames[m + 1]
               e == E[m]
               d == E[m + 1]
               z == Len(f)
    <2>1. m \in 0..n /\ m + 1 \in 0..n /\ m + 1 \in 1..n
      OBVIOUS
    <2>2. GoodFrame(f) /\ d = e + z /\ \A i \in 1..z : w[e + i] = f[i]
      BY <1>1, <1>3, <1>10, <2>1
    <2>3. e \in Nat /\ d \in Nat /\ d <= l /\ z \in Nat
      BY <1>10, <2>1, <2>2 DEF GoodFrame
    <2>4. \A i \in 1..z : st[e + i] = f[i]
      <3> HIDE DEF f, e, d, z
      <3> TAKE i \in 1..z
      <3>1. PICK j \in 1..l : j = e + i
        <4>1. e + i \in 1..l
          BY <1>3, <2>2, <2>3
        <4> QED BY <4>1
      <3> QED BY <1>9, <2>2, <3>1
    <2> QED BY <2>2, <2>4 DEF Holds
  <1>12. Len(st) = l + h + g
    BY <1>6 DEF h, g
  <1>13. CASE bad = <<>>
    <2>1. Len(st) = E[n] /\ Len(st) \in Nat /\ E[n] <= Len(st)
      BY <1>3, <1>7, <1>10, <1>12, <1>13
    <2>2. Streams(st, frames, n, E, bad)
      BY <1>6, <1>10, <1>11, <1>13, <2>1 DEF Streams
    <2> QED BY <1>2, <2>2 DEF st, E, t, w
  <1>14. CASE bad # <<>>
    <2>1. HeaderError(bad[1], bad[2], bad[3]) # "None"
      BY <1>14, BadHeaderParts
    <2>2. \A i \in 1..3 : st[l + i] = bad[i]
      <3> TAKE i \in 1..3
      <3>1. PICK j \in 1..l + h : j = l + i
        <4>1. l + i \in 1..l + h
          BY <1>3, <1>7, <1>14
        <4> QED BY <4>1
      <3>2. ~(j <= l) /\ j - l = i
        BY <1>3, <3>1
      <3>3. v[j] = bad[j - l]
        BY <1>5, <3>2 DEF h
      <3> QED BY <1>8, <3>1, <3>2, <3>3
    <2>3. l + 3 <= Len(st) /\ l <= Len(st) /\ Len(st) \in Nat
      BY <1>3, <1>7, <1>12, <1>14
    <2>4. Streams(st, frames, n, E, bad)
      BY <1>6, <1>10, <1>11, <1>14, <2>1, <2>2, <2>3 DEF Streams
    <2> QED BY <1>2, <2>4 DEF st, E, t, w
  <1> QED BY <1>13, <1>14

(* What ChunksReassembled says of the decoder after k bytes *)
AsSent(frames, n, bad, d, k) ==
  LET upTo(m) == Len(FlattenSeq(SubSeq(frames, 1, m)))
      came == {m \in 0..n : upTo(m) <= k}
      refused == bad # <<>> /\ upTo(n) + HeaderBytes <= k
  IN /\ [m \in DOMAIN d.out |-> Encode(d.out[m])] = SubSeq(frames, 1, Max(came))
     /\ (d.error # "None") = refused
     /\ refused => d.error = HeaderError(bad[1], bad[2], bad[3])

LEMMA GotMeans ==
  ASSUME NEW n \in Nat, NEW frames \in [1..n -> GoodFrames],
         NEW bad \in BadHeaders \cup {<<>>}, NEW st, NEW k \in Nat, NEW d,
         Got(st, frames, n, [m \in 0..n |-> EndOf(frames, m)], bad, d, k)
  PROVE  AsSent(frames, n, bad, d, k)
  <1> DEFINE E == [m \in 0..n |-> EndOf(frames, m)]
             came == {m \in 0..n : EndOf(frames, m) <= k}
             refused == bad # <<>> /\ EndOf(frames, n) + HeaderBytes <= k
             refusal == HeaderError(bad[1], bad[2], bad[3])
  <1>1. frames \in Seq(Seq(Nat)) /\ Len(frames) = n
    BY StreamsOf
  <1>2. /\ \A m \in 0..n : EndOf(frames, m) \in Nat
        /\ \A j \in 0..n : \A m \in 0..j : EndOf(frames, m) <= EndOf(frames, j)
    BY <1>1, Layout
  <1>3. PICK m \in 0..n :
          /\ Given(frames, d.out, m) /\ E[m] <= k /\ ~MoreWhole(n, E, m, k)
          /\ d.error = IF BadCame(n, E, bad, k) THEN refusal ELSE "None"
    BY DEF Got
  <1>4. m \in came
    BY <1>3
  <1>5. ASSUME NEW j \in came, j > m PROVE FALSE
    <2>1. m \in 0..n /\ j \in 0..n /\ m < n /\ m + 1 \in 0..n /\ m + 1 \in 0..j /\ EndOf(frames, j) <= k
      BY <1>5
    <2> DEFINE e == EndOf(frames, m + 1)
               g == EndOf(frames, j)
    <2>2. e \in Nat /\ g \in Nat /\ e <= g /\ g <= k
      BY <1>2, <2>1
    <2>3. E[m + 1] = e
      BY <2>1
    <2>4. ~(e <= k)
      BY <1>3, <2>1, <2>3 DEF MoreWhole
    <2> HIDE DEF e, g
    <2> QED BY <2>2, <2>4
  <1>6. Max(came) = m
    <2>1. \A j \in came : j \in Nat /\ m \in Nat /\ m >= j
      BY <1>3, <1>5
    <2> HIDE DEF came
    <2>2. \A x \in came : (\A y \in came : x >= y) => x = m
      BY <1>4, <2>1
    <2> QED BY <1>4, <2>1, <2>2 DEF Max
  <1>7. [i \in DOMAIN d.out |-> Encode(d.out[i])] = SubSeq(frames, 1, m)
    <2> DEFINE f == SubSeq(frames, 1, m)
               o == d.out
    <2>1. f \in Seq(Seq(Nat)) /\ Len(f) = m /\ \A i \in 1..m : f[i] = frames[i]
      BY <1>1, <1>3, FrontPieces
    <2>2. o \in Seq(AnyFrame) /\ Len(o) = m /\ \A i \in 1..m : Encode(o[i]) = frames[i]
      BY <1>3 DEF Given
    <2> HIDE DEF f, o
    <2>3. DOMAIN o = 1..m
      BY <2>2
    <2>4. f = [i \in 1..m |-> f[i]]
      BY <2>1
    <2>5. \A i \in 1..m : f[i] = Encode(o[i])
      BY <2>1, <2>2
    <2>6. [i \in DOMAIN o |-> Encode(o[i])] = f
      BY <2>3, <2>4, <2>5
    <2> QED BY <2>6 DEF f, o
  <1>8. BadCame(n, E, bad, k) <=> refused
    <2>1. E[n] = EndOf(frames, n)
      OBVIOUS
    <2> QED BY <2>1 DEF BadCame, HeaderBytes
  <1>9. bad # <<>> => refusal # "None"
    BY BadHeaderParts
  <1>10. (d.error # "None") = refused /\ (refused => d.error = refusal)
    <2> HIDE DEF E, refusal
    <2>1. CASE refused
      BY <1>3, <1>8, <1>9, <2>1
    <2>2. CASE ~refused
      BY <1>3, <1>8, <2>2
    <2> QED BY <2>1, <2>2
  <1> QED BY <1>6, <1>7, <1>10 DEF AsSent, EndOf, Joined

(* Decoder::append, wire.cpp, and what LivePipeline takes its queue to be:   *)
(* whichever frames a stream consists of and wherever three chunks of it     *)
(* begin and end, the frames are the ones that were sent.  This is for every *)
(* bound on the payload and on the number of frames and for every threshold  *)
(* of the buffer's compaction.                                               *)
THEOREM FramesReassembled == Spec => []ChunksReassembled
  <1>1. ASSUME NEW n \in 1..MaxFrames PROVE Reassembles[n]
    <2> SUFFICES
          ASSUME NEW frames \in [1..n -> GoodFrames], NEW bad \in BadHeaders \cup {<<>>}
          PROVE  LET stream == FlattenSeq(frames) \o bad \o (IF bad = <<>> THEN <<>> ELSE <<0>>)
                 IN \A k \in 0 .. Len(stream) : \A j \in 0 .. k : \A i \in 0 .. j :
                      AsSent(frames, n, bad, Fed3(SubSeq(stream, 1, k), i, j), k)
      BY DEF Reassembles, AsSent
    <2> DEFINE st == FlattenSeq(frames) \o bad \o (IF bad = <<>> THEN <<>> ELSE <<0>>)
               E == [m \in 0..n |-> EndOf(frames, m)]
    <2>1. n \in Nat
      BY WireAssumption
    <2>2. Streams(st, frames, n, E, bad)
      BY <2>1, StreamsOf
    <2>3. st \in Seq(Nat) /\ Len(st) \in Nat
      BY <2>2 DEF Streams
    <2> HIDE DEF st
    <2>4. ASSUME NEW k \in 0..Len(st), NEW j \in 0..k, NEW i \in 0..j
          PROVE  Got(st, frames, n, E, bad, Fed3(SubSeq(st, 1, k), i, j), k)
      <3> DEFINE f == SubSeq(st, 1, k)
                 l == Len(st)
                 a == SubSeq(f, 1, i)
                 b == SubSeq(f, i + 1, j)
                 c == SubSeq(f, j + 1, Len(f))
                 d1 == DecoderAppend(NewDecoder, a)
                 d2 == DecoderAppend(d1, b)
      <3>1. /\ k \in Nat /\ j \in Nat /\ i \in Nat /\ l \in Nat
            /\ 0 \in 0..l /\ i \in 0..l /\ j \in 0..l /\ i \in 0..k /\ j \in 0..k /\ k \in 0..k
            /\ 0 + 1 = 1 /\ i + 1 \in Nat \ {0} /\ j + 1 \in Nat \ {0} /\ 1 \in Nat \ {0}
            /\ i \in 0..l /\ j \in i..l /\ k \in j..l
        BY <2>3
      <3>2. Len(f) = k
        BY <2>3, FrontPieces
      <3>3. a = SubSeq(st, 0 + 1, i)
        BY <2>3, <3>1, FrontOfFront
      <3>4. b = SubSeq(st, i + 1, j)
        BY <2>3, <3>1, FrontOfFront
      <3>5. c = SubSeq(st, j + 1, k)
        BY <2>3, <3>1, <3>2, FrontOfFront
      <3> HIDE DEF f, l, a, b, c, E
      <3>6. Got(st, frames, n, E, bad, NewDecoder, 0)
        BY <2>2, NewGets
      <3>7. Got(st, frames, n, E, bad, d1, i)
        BY <2>2, <3>1, <3>3, <3>6, AppendGets DEF l
      <3>8. Got(st, frames, n, E, bad, d2, j)
        <4> HIDE DEF d1
        <4> QED BY <2>2, <3>1, <3>4, <3>7, AppendGets DEF l
      <3>9. Got(st, frames, n, E, bad, DecoderAppend(d2, c), k)
        <4> HIDE DEF d2
        <4> QED BY <2>2, <3>1, <3>5, <3>8, AppendGets DEF l
      <3> QED BY <3>9 DEF Fed3, f, a, b, c
    <2>5. ASSUME NEW k \in 0..Len(st), NEW j \in 0..k, NEW i \in 0..j
          PROVE  AsSent(frames, n, bad, Fed3(SubSeq(st, 1, k), i, j), k)
      <3> DEFINE z == Fed3(SubSeq(st, 1, k), i, j)
      <3>1. Got(st, frames, n, E, bad, z, k) /\ k \in Nat
        BY <2>3, <2>4
      <3> HIDE DEF z
      <3>2. AsSent(frames, n, bad, z, k)
        BY <2>1, <3>1, GotMeans
      <3> QED BY <3>2 DEF z
    <2> QED BY <2>5 DEF st
  <1>2. ChunksReassembled
    BY <1>1 DEF ChunksReassembled
  <1> QED BY <1>2, PTL

-----------------------------------------------------------------------------
(* Access units *)

(* What emulation prevention leaves of a NAL unit: no start code in it, and  *)
(* its last byte is not zero.                                                *)
GoodNal(x) ==
  /\ x \in Seq(Nat) /\ Len(x) \in Nat /\ Len(x) >= 1 /\ x[Len(x)] # 0
  /\ \A i \in 1..Len(x) - 2 : ~(x[i] = 0 /\ x[i + 1] = 0 /\ x[i + 2] \in {0, 1})

GoodCode(c) == c = <<0, 0, 1>> \/ c = <<0, 0, 0, 1>>

LEMMA PrefixedBytes ==
  ASSUME NEW data \in Seq(Nat), NEW i \in Nat \ {0}
  PROVE  /\ Prefixed(data, i, <<0, 0, 1>>) <=>
              i + 2 <= Len(data) /\ data[i] = 0 /\ data[i + 1] = 0 /\ data[i + 2] = 1
         /\ Prefixed(data, i, <<0, 0, 0, 1>>) <=>
              /\ i + 3 <= Len(data) /\ data[i] = 0 /\ data[i + 1] = 0
              /\ data[i + 2] = 0 /\ data[i + 3] = 1
  <1>1. Len(data) \in Nat /\ \A j \in 1..Len(data) : data[j] \in Nat
    BY LenProperties, ElementOfSeq
  <1>2. ASSUME NEW b \in Nat, i <= b, b <= Len(data)
        PROVE  /\ SubSeq(data, i, b) \in Seq(Nat) /\ Len(SubSeq(data, i, b)) = b - i + 1
               /\ \A j \in 1..b - i + 1 : SubSeq(data, i, b)[j] = data[i + j - 1]
    <2>1. i \in Int /\ b \in Int /\ \A j \in i..b : data[j] \in Nat
      <3>1. \A j \in i..b : j \in 1..Len(data)
        BY <1>1, <1>2
      <3> QED BY <1>1, <3>1
    <2>2. (IF i <= b THEN b - i + 1 ELSE 0) = b - i + 1
      BY <1>2
    <2> QED BY <2>1, <2>2, SubSeqProperties
  <1>3. Prefixed(data, i, <<0, 0, 1>>) <=>
          i + 2 <= Len(data) /\ data[i] = 0 /\ data[i + 1] = 0 /\ data[i + 2] = 1
    <2> DEFINE b == i + 2
               s == SubSeq(data, i, b)
               c == <<0, 0, 1>>
    <2>1. c \in Seq(Nat) /\ Len(c) = 3 /\ c[1] = 0 /\ c[2] = 0 /\ c[3] = 1
      OBVIOUS
    <2>2. Prefixed(data, i, c) <=> b <= Len(data) /\ s = c
      <3>1. i + Len(c) - 1 = b
        BY <2>1
      <3> HIDE DEF c, b
      <3> QED BY <3>1 DEF Prefixed
    <2>3. ASSUME b <= Len(data)
          PROVE  s = c <=> data[i] = 0 /\ data[i + 1] = 0 /\ data[i + 2] = 1
      <3>1. b \in Nat /\ i <= b /\ b - i + 1 = 3
        OBVIOUS
      <3>2. s \in Seq(Nat) /\ Len(s) = 3 /\ \A j \in 1..3 : s[j] = data[i + j - 1]
        BY <1>2, <2>3, <3>1
      <3>3. s[1] = data[i] /\ s[2] = data[i + 1] /\ s[3] = data[i + 2]
        <4>1. i + 1 - 1 = i /\ i + 2 - 1 = i + 1 /\ i + 3 - 1 = i + 2
          OBVIOUS
        <4>2. 1 \in 1..3 /\ 2 \in 1..3 /\ 3 \in 1..3
          OBVIOUS
        <4> HIDE DEF s, b
        <4> QED BY <3>2, <4>1, <4>2
      <3> HIDE DEF s, c
      <3>4. (\A j \in 1..3 : s[j] = c[j]) <=> s[1] = c[1] /\ s[2] = c[2] /\ s[3] = c[3]
        OBVIOUS
      <3>5. s = c <=> \A j \in 1..3 : s[j] = c[j]
        BY <2>1, <3>2, SeqEqual
      <3> QED BY <2>1, <3>3, <3>4, <3>5
    <2> QED BY <2>2, <2>3
  <1>4. Prefixed(data, i, <<0, 0, 0, 1>>) <=>
          /\ i + 3 <= Len(data) /\ data[i] = 0 /\ data[i + 1] = 0
          /\ data[i + 2] = 0 /\ data[i + 3] = 1
    <2> DEFINE b == i + 3
               s == SubSeq(data, i, b)
               c == <<0, 0, 0, 1>>
    <2>1. c \in Seq(Nat) /\ Len(c) = 4 /\ c[1] = 0 /\ c[2] = 0 /\ c[3] = 0 /\ c[4] = 1
      OBVIOUS
    <2>2. Prefixed(data, i, c) <=> b <= Len(data) /\ s = c
      <3>1. i + Len(c) - 1 = b
        BY <2>1
      <3> HIDE DEF c, b
      <3> QED BY <3>1 DEF Prefixed
    <2>3. ASSUME b <= Len(data)
          PROVE  s = c <=> data[i] = 0 /\ data[i + 1] = 0 /\ data[i + 2] = 0 /\ data[i + 3] = 1
      <3>1. b \in Nat /\ i <= b /\ b - i + 1 = 4
        OBVIOUS
      <3>2. s \in Seq(Nat) /\ Len(s) = 4 /\ \A j \in 1..4 : s[j] = data[i + j - 1]
        BY <1>2, <2>3, <3>1
      <3>3. s[1] = data[i] /\ s[2] = data[i + 1] /\ s[3] = data[i + 2] /\ s[4] = data[i + 3]
        <4>1. i + 1 - 1 = i /\ i + 2 - 1 = i + 1 /\ i + 3 - 1 = i + 2 /\ i + 4 - 1 = i + 3
          OBVIOUS
        <4>2. 1 \in 1..4 /\ 2 \in 1..4 /\ 3 \in 1..4 /\ 4 \in 1..4
          OBVIOUS
        <4> HIDE DEF s, b
        <4> QED BY <3>2, <4>1, <4>2
      <3> HIDE DEF s, c
      <3>4. (\A j \in 1..4 : s[j] = c[j])
              <=> s[1] = c[1] /\ s[2] = c[2] /\ s[3] = c[3] /\ s[4] = c[4]
        OBVIOUS
      <3>5. s = c <=> \A j \in 1..4 : s[j] = c[j]
        BY <2>1, <3>2, SeqEqual
      <3> QED BY <2>1, <3>3, <3>4, <3>5
    <2> QED BY <2>2, <2>3
  <1> QED BY <1>3, <1>4

(* A code is found where it is, *)
LEMMA CodeFound ==
  ASSUME NEW data \in Seq(Nat), NEW e \in Nat, NEW c, GoodCode(c),
         e + Len(c) <= Len(data), \A i \in 1..Len(c) : data[e + i] = c[i]
  PROVE  StartCodeAt(data, e + 1) = Len(c) /\ Len(c) \in {3, 4}
  <1> DEFINE i == e + 1
  <1>1. i \in Nat \ {0} /\ i = e + 1 /\ i + 1 = e + 2 /\ i + 2 = e + 3 /\ i + 3 = e + 4
    OBVIOUS
  <1> HIDE DEF i
  <1>2. CASE c = <<0, 0, 1>>
    <2>1. Len(c) = 3 /\ c[1] = 0 /\ c[2] = 0 /\ c[3] = 1
      BY <1>2
    <2>2. 1 \in 1..3 /\ 2 \in 1..3 /\ 3 \in 1..3
      OBVIOUS
    <2>3. data[i] = 0 /\ data[i + 1] = 0 /\ data[i + 2] = 1 /\ i + 2 <= Len(data)
      BY <1>1, <2>1, <2>2
    <2>4. Prefixed(data, i, <<0, 0, 1>>)
      BY <1>1, <2>3, PrefixedBytes
    <2>5. ~Prefixed(data, i, <<0, 0, 0, 1>>)
      BY <1>1, <2>3, PrefixedBytes
    <2>6. StartCodeAt(data, i) = 3
      BY <2>4, <2>5 DEF StartCodeAt
    <2> QED BY <1>1, <2>1, <2>6
  <1>3. CASE c = <<0, 0, 0, 1>>
    <2>1. Len(c) = 4 /\ c[1] = 0 /\ c[2] = 0 /\ c[3] = 0 /\ c[4] = 1
      BY <1>3
    <2>2. 1 \in 1..4 /\ 2 \in 1..4 /\ 3 \in 1..4 /\ 4 \in 1..4
      OBVIOUS
    <2>3. data[i] = 0 /\ data[i + 1] = 0 /\ data[i + 2] = 0 /\ data[i + 3] = 1 /\ i + 3 <= Len(data)
      BY <1>1, <2>1, <2>2
    <2>4. ~Prefixed(data, i, <<0, 0, 1>>)
      BY <1>1, <2>3, PrefixedBytes, SMTT(40)
    <2>5. Prefixed(data, i, <<0, 0, 0, 1>>)
      BY <1>1, <2>3, PrefixedBytes
    <2>6. StartCodeAt(data, i) = 4
      BY <2>4, <2>5 DEF StartCodeAt
    <2> QED BY <1>1, <2>1, <2>6
  <1> QED BY <1>2, <1>3 DEF GoodCode

(* and none where the bytes are those of a NAL unit, whatever follows it.    *)
LEMMA NoCodeInNal ==
  ASSUME NEW data \in Seq(Nat), NEW a \in Nat, NEW x, GoodNal(x),
         \A i \in 1..Len(x) : data[a + i] = x[i], NEW i \in 1..Len(x)
  PROVE  StartCodeAt(data, a + i) = 0
  <1> DEFINE j == a + i
             l == Len(x)
  <1>1. /\ l \in Nat /\ l >= 1 /\ x[l] # 0 /\ x \in Seq(Nat)
        /\ \A h \in 1..l - 2 : ~(x[h] = 0 /\ x[h + 1] = 0 /\ x[h + 2] \in {0, 1})
        /\ \A h \in 1..l : data[a + h] = x[h]
    BY DEF GoodNal
  <1>2. i \in Nat \ {0} /\ i <= l /\ j \in Nat \ {0} /\ j + 1 = a + (i + 1) /\ j + 2 = a + (i + 2)
    BY <1>1
  <1>3. data[j] = x[i]
    BY <1>1
  <1>4. ~(data[j] = 0 /\ data[j + 1] = 0 /\ data[j + 2] \in {0, 1})
    <2>1. CASE i = l
      BY <1>1, <1>3, <2>1
    <2>2. CASE i + 1 = l
      <3>1. i + 1 \in 1..l
        BY <1>1, <2>2
      <3>2. data[j + 1] = x[i + 1]
        BY <1>1, <1>2, <3>1
      <3> QED BY <1>1, <2>2, <3>2
    <2>3. CASE i \in 1..l - 2
      <3>1. i + 1 \in 1..l /\ i + 2 \in 1..l
        BY <1>1, <2>3
      <3>2. data[j + 1] = x[i + 1] /\ data[j + 2] = x[i + 2]
        BY <1>1, <1>2, <3>1
      <3> QED BY <1>1, <1>3, <2>3, <3>2
    <2>4. i = l \/ i + 1 = l \/ i \in 1..l - 2
      BY <1>1, <1>2
    <2> QED BY <2>1, <2>2, <2>3, <2>4
  <1> HIDE DEF j
  <1>5. ~Prefixed(data, j, <<0, 0, 1>>) /\ ~Prefixed(data, j, <<0, 0, 0, 1>>)
    BY <1>2, <1>4, PrefixedBytes
  <1> QED BY <1>5 DEF StartCodeAt, j

(* The bytes data are n NAL units x, each after a code c; the m-th ends at   *)
(* E[m].                                                                     *)
UnitsAre(data, c, x, n, E) ==
  /\ data \in Seq(Nat) /\ Len(data) \in Nat /\ n \in Nat /\ E[0] = 0 /\ E[n] = Len(data)
  /\ \A m \in 0..n : E[m] \in Nat /\ E[m] <= Len(data)
  /\ \A m \in 0..n - 1 :
       /\ GoodCode(c[m + 1]) /\ GoodNal(x[m + 1])
       /\ E[m + 1] = E[m] + Len(c[m + 1]) + Len(x[m + 1])
       /\ \A i \in 1..Len(c[m + 1]) : data[E[m] + i] = c[m + 1][i]
       /\ \A i \in 1..Len(x[m + 1]) : data[E[m] + Len(c[m + 1]) + i] = x[m + 1][i]

(* The units that the first m of them are, as split gives them *)
Nal(codec, x) == [type |-> NalTypeOf(codec, x[1]), bytes |-> x]
Found(codec, x, E, m) == [at |-> E[m] + 1, nals |-> [i \in 1..m |-> Nal(codec, x[i])]]

LEMMA LeastIs ==
  ASSUME NEW S \in SUBSET Int, NEW m \in S, \A y \in S : m <= y
  PROVE  Min(S) = m
  <1>1. \A x \in S : (\A y \in S : x <= y) => x = m
    OBVIOUS
  <1> QED BY <1>1 DEF Min

LEMMA CodeOf ==
  ASSUME NEW data, NEW c, NEW x, NEW n, NEW E, UnitsAre(data, c, x, n, E), NEW m \in 0..n - 1
  PROVE  StartCodeAt(data, E[m] + 1) = Len(c[m + 1]) /\ Len(c[m + 1]) \in {3, 4}
  <1> DEFINE e == E[m]
             d == E[m + 1]
             b == c[m + 1]
             y == x[m + 1]
  <1>1. /\ data \in Seq(Nat) /\ GoodCode(b) /\ d = e + Len(b) + Len(y)
        /\ \A i \in 1..Len(b) : data[e + i] = b[i]
        /\ GoodNal(y) /\ Len(data) \in Nat
    BY DEF UnitsAre
  <1>2. e \in Nat /\ d \in Nat /\ d <= Len(data)
    <2>1. m \in 0..n /\ m + 1 \in 0..n
      BY DEF UnitsAre
    <2> QED BY <2>1 DEF UnitsAre
  <1> HIDE DEF e, d, b, y
  <1>3. Len(b) \in Nat
    BY <1>1 DEF GoodCode
  <1>4. Len(y) \in Nat
    BY <1>1 DEF GoodNal
  <1>5. e + Len(b) <= Len(data)
    BY <1>1, <1>2, <1>3, <1>4
  <1>6. StartCodeAt(data, e + 1) = Len(b) /\ Len(b) \in {3, 4}
    BY <1>1, <1>2, <1>5, CodeFound
  <1> QED BY <1>6 DEF e, b

LEMMA UnitsPass ==
  ASSUME NEW data, NEW c, NEW x, NEW n, NEW E, UnitsAre(data, c, x, n, E), NEW codec, NEW m \in 0..n
  PROVE  NalPass(data, codec, Found(codec, x, E, m)) = Found(codec, x, E, IF m = n THEN n ELSE m + 1)
  <1>1. data \in Seq(Nat) /\ Len(data) \in Nat /\ n \in Nat /\ m \in Nat
    BY DEF UnitsAre
  <1>2. CASE m = n
    <2> DEFINE l == Len(data)
    <2>1. E[m] + 1 = l + 1 /\ l \in Nat /\ l + 1 \in Nat \ {0} /\ ~(l + 1 + 2 <= l) /\ ~(l + 1 + 3 <= l)
      <3>1. E[n] = l /\ l \in Nat
        BY DEF UnitsAre
      <3> HIDE DEF l
      <3> QED BY <1>2, <3>1
    <2>2. ~Prefixed(data, l + 1, <<0, 0, 1>>) /\ ~Prefixed(data, l + 1, <<0, 0, 0, 1>>)
      BY <1>1, <2>1, PrefixedBytes
    <2>3. StartCodeAt(data, l + 1) = 0
      BY <2>2 DEF StartCodeAt
    <2>4. Found(codec, x, E, m).at = l + 1
      BY <2>1 DEF Found
    <2> DEFINE f == Found(codec, x, E, m)
    <2> HIDE DEF l, f
    <2>5. f.at + StartCodeAt(data, f.at) > l
      BY <2>1, <2>3, <2>4 DEF f
    <2>6. NalPass(data, codec, f) = f
      BY <2>5 DEF NalPass, l
    <2> QED BY <1>2, <2>6 DEF f
  <1>3. CASE m # n
    <2> DEFINE e == E[m]
               d == E[m + 1]
               b == c[m + 1]
               y == x[m + 1]
               h == Len(b)
               g == Len(y)
               l == Len(data)
               start == e + 1 + h
    <2>1. m \in 0..n - 1 /\ m + 1 \in 0..n /\ m + 1 \in Nat
      BY <1>1, <1>3
    <2>2. /\ GoodNal(y) /\ d = e + h + g
          /\ \A i \in 1..g : data[e + h + i] = y[i]
      BY <2>1 DEF UnitsAre
    <2>3. e \in Nat /\ d \in Nat /\ d <= l /\ l \in Nat
      BY <1>1, <2>1 DEF UnitsAre
    <2>4. StartCodeAt(data, e + 1) = h /\ h \in {3, 4}
      BY <2>1, CodeOf
    <2>5. g \in Nat /\ g >= 1 /\ y \in Seq(Nat)
      BY <2>2 DEF GoodNal
    <2>6. d < l => StartCodeAt(data, d + 1) # 0
      <3> SUFFICES ASSUME d < l PROVE StartCodeAt(data, d + 1) # 0
        OBVIOUS
      <3>1. m + 1 # n
        BY <2>3 DEF UnitsAre
      <3>2. PICK j \in 0..n - 1 : j = m + 1
        BY <1>1, <2>1, <3>1
      <3>3. StartCodeAt(data, E[j] + 1) \in {3, 4}
        BY CodeOf
      <3> QED BY <3>2, <3>3
    <2> HIDE DEF d, b, y, h, g, l
    <2>7. \A i \in 1..g : StartCodeAt(data, e + h + i) = 0
      <3>1. e + h \in Nat
        BY <2>3, <2>4
      <3>2. \A i \in 1..Len(y) : data[e + h + i] = y[i]
        BY <2>2 DEF g
      <3> QED BY <1>1, <2>2, <3>1, <3>2, NoCodeInNal DEF g
    <2> HIDE DEF e
    <2>8. start \in Nat /\ start <= d /\ start <= l /\ d - start + 1 = g
      BY <2>2, <2>3, <2>4, <2>5
    <2>9. \A j \in start..d : StartCodeAt(data, j) = 0
      <3> TAKE j \in start..d
      <3>1. PICK i \in 1..g : j = e + h + i
        <4>1. j - (e + h) \in 1..g /\ j = e + h + (j - (e + h))
          BY <2>2, <2>3, <2>4, <2>5, <2>8
        <4> QED BY <4>1
      <3> QED BY <2>7, <3>1
    <2>10. start = e + 1 + h
      OBVIOUS
    <2> HIDE DEF start
    <2>11. NextCode(data, start) = d + 1
      <3> DEFINE S == {j \in start..l : StartCodeAt(data, j) # 0} \cup {l + 1}
      <3>1. S \in SUBSET Int
        BY <2>3, <2>8
      <3>2. d + 1 \in S
        <4>1. CASE d < l
          <5>1. d + 1 \in start..l
            BY <2>3, <2>8, <4>1
          <5> QED BY <2>6, <4>1, <5>1
        <4>2. CASE ~(d < l)
          <5>1. d + 1 = l + 1
            BY <2>3, <4>2
          <5> QED BY <5>1
        <4> QED BY <4>1, <4>2
      <3>3. \A j \in S : d + 1 <= j
        <4> TAKE j \in S
        <4>1. CASE j = l + 1
          BY <2>3, <4>1
        <4>2. CASE j \in start..l /\ StartCodeAt(data, j) # 0
          <5>1. ~(j \in start..d)
            BY <2>9, <4>2
          <5> QED BY <2>3, <2>8, <4>2, <5>1
        <4> QED BY <4>1, <4>2
      <3> HIDE DEF S
      <3>4. Min(S) = d + 1
        BY <3>1, <3>2, <3>3, LeastIs
      <3> QED BY <3>4 DEF NextCode, S, l
    <2>12. data[start] = y[1]
      <3>1. 1 \in 1..g /\ e + h + 1 = start
        BY <2>3, <2>4, <2>5, <2>10
      <3> QED BY <2>2, <3>1
    <2>13. SubSeq(data, start, d) = y
      <3> DEFINE s == SubSeq(data, start, d)
      <3>1. \A j \in start..d : j \in 1..l
        BY <2>3, <2>4, <2>8, <2>10
      <3>2. \A j \in start..d : data[j] \in Nat
        BY <1>1, <3>1, ElementOfSeq DEF l
      <3>3. start \in Int /\ d \in Int
        BY <2>3, <2>8
      <3>4. /\ SubSeq(data, start, d) \in Seq(Nat)
            /\ Len(SubSeq(data, start, d)) = IF start <= d THEN d - start + 1 ELSE 0
            /\ \A i \in 1..d - start + 1 : SubSeq(data, start, d)[i] = data[start + i - 1]
        BY <3>2, <3>3, SubSeqProperties
      <3>5. s \in Seq(Nat) /\ Len(s) = g /\ \A i \in 1..g : s[i] = data[start + i - 1]
        BY <2>8, <3>4
      <3> HIDE DEF s
      <3>6. \A i \in 1..g : s[i] = y[i]
        <4> TAKE i \in 1..g
        <4>1. start + i - 1 = e + h + i
          BY <2>3, <2>4, <2>5, <2>10
        <4> QED BY <2>2, <3>5, <4>1
      <3>7. s = y
        BY <2>5, <3>5, <3>6, SeqEqual DEF g
      <3> QED BY <3>7 DEF s
    <2> DEFINE f == Found(codec, x, E, m)
               o == f.nals
    <2>14. f.at = e + 1 /\ o = [i \in 1..m |-> Nal(codec, x[i])]
      BY DEF Found, e
    <2> HIDE DEF f
    <2>15. NalPass(data, codec, f) = [at |-> d + 1, nals |-> Append(o, Nal(codec, y))]
      <3> DEFINE a == f.at + StartCodeAt(data, f.at)
                 z == NextCode(data, a)
      <3>1. a = start /\ ~(start > Len(data)) /\ ~(d + 1 = start)
        BY <2>3, <2>4, <2>8, <2>10, <2>14 DEF l
      <3>2. Nal(codec, y) = [type |-> NalTypeOf(codec, data[start]), bytes |-> SubSeq(data, start, d)]
        BY <2>12, <2>13 DEF Nal
      <3>3. NalPass(data, codec, f) =
              IF a > Len(data) THEN f
              ELSE [at |-> z,
                    nals |-> IF z = a THEN o
                             ELSE Append(o, [type |-> NalTypeOf(codec, data[a]),
                                             bytes |-> SubSeq(data, a, z - 1)])]
        BY DEF NalPass
      <3> HIDE DEF a
      <3>4. z = d + 1
        BY <2>11, <3>1
      <3> HIDE DEF z, o
      <3>5. ~(a > Len(data)) /\ ~(z = a)
        BY <3>1, <3>4
      <3>6. [type |-> NalTypeOf(codec, data[a]), bytes |-> SubSeq(data, a, z - 1)] = Nal(codec, y)
        <4>1. z - 1 = d
          BY <2>3, <3>4
        <4> QED BY <3>1, <3>2, <4>1
      <3>7. NalPass(data, codec, f) = [at |-> z, nals |-> Append(o, Nal(codec, y))]
        BY <3>3, <3>5, <3>6
      <3> QED BY <3>4, <3>7
    <2>16. Append(o, Nal(codec, y)) = [i \in 1..m + 1 |-> Nal(codec, x[i])]
      <3> DEFINE A == {Nal(codec, x[i]) : i \in 1..n}
                 p == [i \in 1..m + 1 |-> Nal(codec, x[i])]
                 v == Nal(codec, y)
      <3>1. o \in Seq(A) /\ Len(o) = m /\ v \in A /\ \A i \in 1..m : o[i] = Nal(codec, x[i])
        <4>1. 1..m \subseteq 1..n /\ m + 1 \in 1..n
          BY <1>1, <2>1
        <4>2. o \in [1..m -> A] /\ \A i \in 1..m : o[i] = Nal(codec, x[i])
          BY <2>14, <4>1
        <4>3. v \in A
          BY <4>1 DEF y
        <4> HIDE DEF A, o, v
        <4> QED BY <1>1, <4>2, <4>3
      <3>2. p \in Seq(A) /\ Len(p) = m + 1 /\ \A i \in 1..m + 1 : p[i] = Nal(codec, x[i])
        <4>1. 1..m + 1 \subseteq 1..n
          BY <1>1, <2>1
        <4>2. p \in [1..m + 1 -> A] /\ \A i \in 1..m + 1 : p[i] = Nal(codec, x[i])
          BY <4>1
        <4> HIDE DEF A, p
        <4> QED BY <2>1, <4>2
      <3>3. v = Nal(codec, x[m + 1])
        BY DEF y
      <3> HIDE DEF A, p, o, v
      <3>4. Append(o, v) \in Seq(A) /\ Len(Append(o, v)) = m + 1
            /\ (\A i \in 1..m : Append(o, v)[i] = o[i]) /\ Append(o, v)[m + 1] = v
        BY <3>1, AppendProperties
      <3>5. \A i \in 1..m + 1 : Append(o, v)[i] = p[i]
        <4> TAKE i \in 1..m + 1
        <4>1. CASE i = m + 1
          BY <3>2, <3>3, <3>4, <4>1
        <4>2. CASE i # m + 1
          <5>1. i \in 1..m
            BY <1>1, <4>2
          <5> QED BY <3>1, <3>2, <3>4, <5>1
        <4> QED BY <4>1, <4>2
      <3>6. Append(o, v) = p
        BY <3>2, <3>4, <3>5, SeqEqual
      <3> QED BY <3>6 DEF p, v
    <2>17. NalPass(data, codec, f) = Found(codec, x, E, m + 1)
      BY <2>15, <2>16 DEF Found, d
    <2> QED BY <1>3, <2>17 DEF f
  <1> QED BY <1>2, <1>3

(* The loop of split *)
NalPasses(f, data, codec) ==
  f = [k \in 0..Len(data) |->
         IF k = 0 THEN [at |-> NextCode(data, 1), nals |-> <<>>]
         ELSE NalPass(data, codec, f[k - 1])]

LEMMA UnitsLength ==
  ASSUME NEW data, NEW c, NEW x, NEW n, NEW E, UnitsAre(data, c, x, n, E)
  PROVE  \A m \in 0..n : E[m] >= 4 * m
  <1> DEFINE T == {m \in Nat : m \in 0..n => E[m] >= 4 * m}
  <1>1. n \in Nat /\ E[0] = 0
    BY DEF UnitsAre
  <1>2. 0 \in T
    BY <1>1
  <1>3. ASSUME NEW m \in Nat \ {0}, m - 1 \in T PROVE m \in T
    <2> SUFFICES ASSUME m \in 0..n PROVE E[m] >= 4 * m
      OBVIOUS
    <2>1. PICK j \in 0..n - 1 : m = j + 1 /\ j = m - 1
      <3>1. m - 1 \in 0..n - 1 /\ m = (m - 1) + 1
        BY <1>1
      <3> QED BY <3>1
    <2> DEFINE e == E[j]
               d == E[j + 1]
               b == Len(c[j + 1])
               g == Len(x[j + 1])
    <2>2. e \in Nat /\ d = e + b + g
      <3>1. j \in 0..n
        BY <1>1
      <3> QED BY <3>1 DEF UnitsAre
    <2>3. b \in {3, 4}
      BY CodeOf
    <2>4. g \in Nat /\ g >= 1
      BY DEF UnitsAre, GoodNal
    <2>5. e >= 4 * j
      <3>1. j \in 0..n
        BY <1>1
      <3> QED BY <1>3, <2>1, <3>1
    <2> HIDE DEF e, d, b, g
    <2>6. d >= 4 * (j + 1)
      BY <2>2, <2>3, <2>4, <2>5
    <2> QED BY <2>1, <2>6 DEF d
  <1>4. Nat \subseteq T
    <2> HIDE DEF T
    <2> QED BY <1>2, <1>3, NaturalsUpTo
  <1> QED BY <1>4

LEMMA FirstCode ==
  ASSUME NEW data, NEW c, NEW x, NEW n, NEW E, UnitsAre(data, c, x, n, E), n # 0
  PROVE  NextCode(data, 1) = 1
  <1> DEFINE S == {j \in 1..Len(data) : StartCodeAt(data, j) # 0} \cup {Len(data) + 1}
  <1>1. n \in Nat /\ Len(data) \in Nat /\ E[0] = 0 /\ E[n] = Len(data)
    BY DEF UnitsAre
  <1>2. Len(data) >= 4
    <2> DEFINE l == Len(data)
    <2>1. E[n] >= 4 * n
      <3>1. n \in 0..n
        BY <1>1
      <3> QED BY <3>1, UnitsLength
    <2>2. l \in Nat /\ l >= 4 * n
      BY <1>1, <2>1
    <2> HIDE DEF l
    <2>3. l >= 4
      BY <1>1, <2>2
    <2> QED BY <2>3 DEF l
  <1>3. StartCodeAt(data, 1) # 0
    <2>1. PICK m \in 0..n - 1 : m = 0
      BY <1>1
    <2>2. StartCodeAt(data, E[m] + 1) \in {3, 4}
      BY CodeOf
    <2>3. E[m] + 1 = 1
      BY <1>1, <2>1
    <2> QED BY <2>2, <2>3
  <1>4. S \in SUBSET Int /\ 1 \in S /\ \A y \in S : 1 <= y
    BY <1>1, <1>2, <1>3
  <1> HIDE DEF S
  <1>5. Min(S) = 1
    BY <1>4, LeastIs
  <1> QED BY <1>5 DEF NextCode, S

(* split, annexb.cpp: it finds every NAL unit, with its bytes, and nothing   *)
(* else, whatever their number, their lengths and the codes before them.     *)
LEMMA SplitFinds ==
  ASSUME NEW data, NEW c, NEW x, NEW n, NEW E, UnitsAre(data, c, x, n, E), n # 0, NEW codec
  PROVE  Split(data, codec) = [i \in 1..n |-> Nal(codec, x[i])]
  <1> DEFINE l == Len(data)
             Done(k) == IF k < n THEN k ELSE n
             F == [k \in 0..l |-> Found(codec, x, E, Done(k))]
  <1>1. n \in Nat /\ n >= 1 /\ l \in Nat /\ E[0] = 0 /\ E[n] = l
    BY DEF UnitsAre
  <1>2. l >= n /\ l >= 4
    <2>1. l >= 4 * n
      <3>1. n \in 0..n
        BY <1>1
      <3>2. E[n] >= 4 * n
        BY <3>1, UnitsLength
      <3> QED BY <1>1, <3>2
    <2> HIDE DEF l
    <2> QED BY <1>1, <2>1
  <1>3. [at |-> NextCode(data, 1), nals |-> <<>>] = Found(codec, x, E, 0)
    <2>1. [i \in 1..0 |-> Nal(codec, x[i])] = <<>>
      OBVIOUS
    <2>2. NextCode(data, 1) = E[0] + 1
      BY <1>1, FirstCode
    <2> QED BY <2>1, <2>2 DEF Found
  <1>4. \A k \in 1..l : Found(codec, x, E, Done(k)) = NalPass(data, codec, Found(codec, x, E, Done(k - 1)))
    <2> TAKE k \in 1..l
    <2>1. PICK m \in 0..n : m = Done(k - 1)
      <3> HIDE DEF l
      <3>1. Done(k - 1) \in 0..n
        BY <1>1
      <3> QED BY <3>1
    <2>2. Done(k) = IF m = n THEN n ELSE m + 1
      <3> HIDE DEF l
      <3> QED BY <1>1, <2>1
    <2>3. NalPass(data, codec, Found(codec, x, E, m)) = Found(codec, x, E, IF m = n THEN n ELSE m + 1)
      BY UnitsPass
    <2> HIDE DEF Done
    <2> QED BY <2>1, <2>2, <2>3
  <1>5. Done(0) = 0 /\ Done(l) = n
    <2> HIDE DEF l
    <2> QED BY <1>1, <1>2
  <1> HIDE DEF Done
  <1>6. NalPasses(F, data, codec)
    <2>1. \A k \in 0..l : F[k] = IF k = 0 THEN [at |-> NextCode(data, 1), nals |-> <<>>]
                                 ELSE NalPass(data, codec, F[k - 1])
      <3> TAKE k \in 0..l
      <3>1. CASE k = 0
        <4>1. F[0] = Found(codec, x, E, 0)
          BY <1>1, <1>5
        <4> QED BY <1>3, <3>1, <4>1
      <3>2. CASE k # 0
        <4>1. PICK j \in 0..l : j = k - 1
          BY <1>1, <3>2
        <4>2. k \in 1..l
          BY <1>1, <3>2
        <4>3. F[j] = Found(codec, x, E, Done(k - 1)) /\ F[k] = Found(codec, x, E, Done(k))
          BY <4>1
        <4> HIDE DEF F
        <4>4. F[k] = NalPass(data, codec, F[j])
          BY <1>4, <4>2, <4>3
        <4> QED BY <3>2, <4>1, <4>4
      <3> QED BY <3>1, <3>2
    <2>2. DOMAIN F = 0..l /\ F = [k \in 0..l |-> F[k]]
      OBVIOUS
    <2> HIDE DEF F
    <2>3. F = [k \in 0..l |-> IF k = 0 THEN [at |-> NextCode(data, 1), nals |-> <<>>]
                              ELSE NalPass(data, codec, F[k - 1])]
      BY <2>1, <2>2
    <2> QED BY <2>3 DEF NalPasses, l
  <1>7. PICK g : NalPasses(g, data, codec)
                 /\ Split(data, codec) = IF Len(data) < 4 THEN <<>> ELSE g[Len(data)].nals
    <2> DEFINE g == CHOOSE f : NalPasses(f, data, codec)
    <2>1. NalPasses(g, data, codec)
      <3> HIDE DEF F
      <3> QED BY <1>6
    <2>2. g = CHOOSE f : f = [k \in 0..Len(data) |->
                IF k = 0 THEN [at |-> NextCode(data, 1), nals |-> <<>>]
                ELSE NalPass(data, codec, f[k - 1])]
      BY DEF NalPasses
    <2>3. Split(data, codec) =
            IF Len(data) < 4 THEN <<>>
            ELSE (CHOOSE f : f = [k \in 0..Len(data) |->
                    IF k = 0 THEN [at |-> NextCode(data, 1), nals |-> <<>>]
                    ELSE NalPass(data, codec, f[k - 1])])[Len(data)].nals
      BY DEF Split
    <2> HIDE DEF g
    <2> QED BY <2>1, <2>2, <2>3
  <1>8. \A k \in 0..l : g[k] = IF k = 0 THEN [at |-> NextCode(data, 1), nals |-> <<>>]
                               ELSE NalPass(data, codec, g[k - 1])
    BY <1>7 DEF NalPasses
  <1> DEFINE T == {k \in Nat : k \in 0..l => g[k] = Found(codec, x, E, Done(k))}
  <1>9. 0 \in T
    BY <1>1, <1>3, <1>5, <1>8
  <1>10. ASSUME NEW k \in Nat \ {0}, k - 1 \in T PROVE k \in T
    <2> SUFFICES ASSUME k \in 0..l PROVE g[k] = Found(codec, x, E, Done(k))
      OBVIOUS
    <2>1. k \in 1..l /\ k - 1 \in 0..l
      BY <1>1
    <2>2. g[k - 1] = Found(codec, x, E, Done(k - 1))
      BY <1>10, <2>1
    <2>3. g[k] = NalPass(data, codec, g[k - 1])
      BY <1>8
    <2> QED BY <1>4, <2>1, <2>2, <2>3
  <1>11. g[l] = Found(codec, x, E, n)
    <2>1. Nat \subseteq T
      <3> HIDE DEF T
      <3> QED BY <1>9, <1>10, NaturalsUpTo
    <2>2. l \in T /\ l \in 0..l
      BY <1>1, <2>1
    <2> QED BY <1>5, <2>2
  <1>12. Split(data, codec) = g[l].nals
    <2>1. ~(Len(data) < 4)
      BY <1>1, <1>2
    <2> QED BY <1>7, <2>1
  <1> QED BY <1>11, <1>12 DEF Found

(* inspect *)
TypeAt(codec, x, i) == NalTypeOf(codec, x[i][1])
KeysOf(codec, x, n) == {i \in 1..n : IsKeyframeSlice(codec, TypeAt(codec, x, i))}
Reports(codec) == [seen : SUBSET ParameterSets(codec), slice : BOOLEAN, key : BOOLEAN, before : BOOLEAN]

(* Every parameter set of the codec is among the first k NAL units. *)
SetsIn(codec, x, k) == \A set \in ParameterSets(codec) : \E i \in 1..k : TypeAt(codec, x, i) = set

(* What the loop of inspect has found in the first k NAL units *)
Reported(r, codec, x, n, k) ==
  /\ r \in Reports(codec)
  /\ r.seen = {t \in ParameterSets(codec) : \E i \in 1..k : TypeAt(codec, x, i) = t}
  /\ r.key <=> \E i \in 1..k : i \in KeysOf(codec, x, n)
  /\ r.key => (r.before <=> SetsIn(codec, x, Min(KeysOf(codec, x, n))))

LEMMA LeastExists ==
  ASSUME NEW S \in SUBSET Nat, S # {}
  PROVE  Min(S) \in S /\ \A y \in S : Min(S) <= y
  <1> DEFINE T == {k \in Nat : k \notin S}
  <1>1. CASE \E m \in S : \A y \in S : m <= y
    <2>1. PICK m \in S : \A y \in S : m <= y
      BY <1>1
    <2>2. Min(S) = m
      <3>1. S \in SUBSET Int
        OBVIOUS
      <3> QED BY <2>1, <3>1, LeastIs
    <2> QED BY <2>1, <2>2
  <1>2. CASE ~\E m \in S : \A y \in S : m <= y
    <2>1. ASSUME NEW k \in Nat, \A j \in Nat : j < k => j \in T PROVE k \in T
      <3> SUFFICES ASSUME k \in S PROVE FALSE
        OBVIOUS
      <3>1. \A y \in S : k <= y
        BY <2>1
      <3> QED BY <1>2, <3>1
    <2>2. Nat \subseteq T
      <3> HIDE DEF T
      <3> QED BY <2>1, NaturalsFrom
    <2> QED BY <2>2
  <1> QED BY <1>1, <1>2

LEMMA InspectedType ==
  ASSUME NEW codec, NEW r \in Reports(codec), NEW nal
  PROVE  Inspected(codec, r, nal) \in Reports(codec)
  <1> DEFINE key == IsKeyframeSlice(codec, nal.type)
             s == r.seen \cup ({nal.type} \cap ParameterSets(codec))
             b == IF key /\ ~r.key THEN HasAll(codec, s) ELSE r.before
             v == r.slice \/ IsVideoSlice(codec, nal.type)
             w == r.key \/ key
  <1>1. r.seen \in SUBSET ParameterSets(codec) /\ r.before \in BOOLEAN
    BY DEF Reports
  <1>2. s \in SUBSET ParameterSets(codec)
    BY <1>1
  <1>3. b \in BOOLEAN
    <2>1. HasAll(codec, s) \in BOOLEAN
      BY DEF HasAll
    <2> HIDE DEF s, key
    <2> QED BY <1>1, <2>1
  <1>4. v \in BOOLEAN /\ w \in BOOLEAN
    OBVIOUS
  <1>5. Inspected(codec, r, nal) = [seen |-> s, slice |-> v, key |-> w, before |-> b]
    BY DEF Inspected
  <1> HIDE DEF s, b, v, w
  <1> QED BY <1>2, <1>3, <1>4, <1>5 DEF Reports

InspectPasses(f, codec, nals) ==
  f = [k \in 0..Len(nals) |->
         IF k = 0 THEN [seen |-> {}, slice |-> FALSE, key |-> FALSE, before |-> FALSE]
         ELSE Inspected(codec, f[k - 1], nals[k])]

LEMMA InspectPassesExist ==
  ASSUME NEW codec, NEW S, NEW nals \in Seq(S)
  PROVE  \E f : InspectPasses(f, codec, nals)
  <1> DEFINE V == Reports(codec)
             b == [seen |-> {}, slice |-> FALSE, key |-> FALSE, before |-> FALSE]
             n == Len(nals)
             G == [k \in Nat |-> [r \in V |-> Inspected(codec, r, nals[k])]]
  <1>1. b \in V /\ n \in Nat
    BY LenProperties DEF Reports
  <1>2. G \in [Nat -> [V -> V]]
    BY InspectedType
  <1>3. PICK f \in [0..n -> V] : Iterates(f, n, b, G)
    <2> HIDE DEF V, b, n, G
    <2> QED BY <1>1, <1>2, IterationExists
  <1>4. \A k \in 0..n : f[k] = IF k = 0 THEN b ELSE Inspected(codec, f[k - 1], nals[k])
    <2> HIDE DEF V, b, n
    <2> TAKE k \in 0..n
    <2>1. CASE k = 0
      BY <1>3, <2>1 DEF Iterates
    <2>2. CASE k # 0
      <3>1. k \in 1..n /\ k \in Nat /\ k - 1 \in 0..n
        BY <1>1, <2>2
      <3>2. f[k - 1] \in V
        BY <1>3, <3>1
      <3>3. f[k] = G[k][f[k - 1]]
        BY <1>3, <3>1 DEF Iterates
      <3> QED BY <2>2, <3>1, <3>2, <3>3
    <2> QED BY <2>1, <2>2
  <1> QED BY <1>3, <1>4 DEF InspectPasses

LEMMA KeyIsNoSet ==
  ASSUME NEW codec \in Codecs, NEW t, IsKeyframeSlice(codec, t)
  PROVE  t \notin ParameterSets(codec)
  <1>1. CASE codec = "H264"
    BY <1>1 DEF IsKeyframeSlice, ParameterSets
  <1>2. CASE codec = "Hevc"
    BY <1>2 DEF IsKeyframeSlice, ParameterSets
  <1> QED BY <1>1, <1>2 DEF Codecs

LEMMA ReportedNext ==
  ASSUME NEW codec, NEW x, NEW n \in Nat, NEW k \in 1..n, NEW r,
         Reported(r, codec, x, n, k - 1)
  PROVE  Reported(Inspected(codec, r, Nal(codec, x[k])), codec, x, n, k)
  <1> DEFINE nal == Nal(codec, x[k])
             t == TypeAt(codec, x, k)
             keys == KeysOf(codec, x, n)
             sets == ParameterSets(codec)
             q == Inspected(codec, r, nal)
             seen == r.seen \cup ({t} \cap sets)
  <1>1. nal.type = t
    BY DEF Nal, TypeAt
  <1>2. /\ r \in Reports(codec)
        /\ r.seen = {u \in sets : \E i \in 1..k - 1 : TypeAt(codec, x, i) = u}
        /\ r.key <=> \E i \in 1..k - 1 : i \in keys
        /\ r.key => (r.before <=> SetsIn(codec, x, Min(keys)))
    BY DEF Reported
  <1>3. q \in Reports(codec)
    BY <1>2, InspectedType
  <1>4. \A i : i \in 1..k <=> i \in 1..k - 1 \/ i = k
    OBVIOUS
  <1>5. /\ q.seen = seen
        /\ q.key <=> r.key \/ IsKeyframeSlice(codec, t)
        /\ q.before = IF IsKeyframeSlice(codec, t) /\ ~r.key THEN HasAll(codec, seen) ELSE r.before
    <2> HIDE DEF t, nal, sets
    <2>1. q = [seen |-> r.seen \cup ({t} \cap sets),
               slice |-> r.slice \/ IsVideoSlice(codec, t),
               key |-> r.key \/ IsKeyframeSlice(codec, t),
               before |-> IF IsKeyframeSlice(codec, t) /\ ~r.key
                          THEN HasAll(codec, r.seen \cup ({t} \cap sets)) ELSE r.before]
      BY <1>1 DEF Inspected, sets
    <2> HIDE DEF q
    <2> QED BY <2>1
  <1>6. IsKeyframeSlice(codec, t) <=> k \in keys
    BY DEF KeysOf
  <1>7. seen = {u \in sets : \E i \in 1..k : TypeAt(codec, x, i) = u}
    <2> HIDE DEF sets, keys, q
    <2>1. \A u : (\E i \in 1..k : TypeAt(codec, x, i) = u)
                   <=> (\E i \in 1..k - 1 : TypeAt(codec, x, i) = u) \/ t = u
      BY <1>4
    <2> HIDE DEF t
    <2> QED BY <1>2, <2>1
  <1> HIDE DEF t, q, nal, keys, sets, seen
  <1>8. q.key <=> \E i \in 1..k : i \in keys
    BY <1>2, <1>4, <1>5, <1>6
  <1>9. ASSUME q.key PROVE q.before <=> SetsIn(codec, x, Min(keys))
    <2>1. CASE r.key
      BY <1>2, <1>5, <2>1
    <2>2. CASE ~r.key
      <3>1. IsKeyframeSlice(codec, t) /\ k \in keys
        BY <1>5, <1>6, <1>9, <2>2
      <3>2. Min(keys) = k
        <4>1. keys \in SUBSET Int /\ \A y \in keys : y \in 1..n
          BY DEF keys, KeysOf
        <4>2. \A y \in keys : ~(y \in 1..k - 1)
          BY <1>2, <2>2
        <4>3. \A y \in keys : k <= y
          BY <4>1, <4>2
        <4> QED BY <3>1, <4>1, <4>3, LeastIs
      <3>3. q.before = HasAll(codec, seen)
        BY <1>5, <2>2, <3>1
      <3>4. HasAll(codec, seen) <=> SetsIn(codec, x, k)
        BY <1>7 DEF HasAll, SetsIn, sets
      <3> QED BY <3>2, <3>3, <3>4
    <2> QED BY <2>1, <2>2
  <1>10. Reported(q, codec, x, n, k)
    BY <1>3, <1>5, <1>7, <1>8, <1>9 DEF Reported, keys, sets
  <1> QED BY <1>10 DEF q, nal

(* inspect, annexb.cpp *)
LEMMA InspectSays ==
  ASSUME NEW codec \in Codecs, NEW x, NEW n \in Nat, NEW data,
         Split(data, codec) = [i \in 1..n |-> Nal(codec, x[i])]
  PROVE  LET keys == KeysOf(codec, x, n)
         IN Inspect(data, codec).isSelfContainedKeyframe <=>
              keys # {} /\ \A set \in ParameterSets(codec) :
                              \E i \in 1..n : TypeAt(codec, x, i) = set /\ i < Min(keys)
  <1> DEFINE nals == [i \in 1..n |-> Nal(codec, x[i])]
             keys == KeysOf(codec, x, n)
             A == {Nal(codec, x[i]) : i \in 1..n}
  <1>1. nals \in Seq(A) /\ Len(nals) = n /\ \A i \in 1..n : nals[i] = Nal(codec, x[i])
    <2>1. nals \in [1..n -> A] /\ \A i \in 1..n : nals[i] = Nal(codec, x[i])
      OBVIOUS
    <2> HIDE DEF nals, A
    <2> QED BY <2>1
  <1>2. Split(data, codec) = nals
    OBVIOUS
  <1> HIDE DEF nals, A
  <1>3. PICK f : /\ InspectPasses(f, codec, nals)
                 /\ Inspect(data, codec).isSelfContainedKeyframe = (f[n].key /\ f[n].before)
    <2> DEFINE g == CHOOSE f : InspectPasses(f, codec, nals)
    <2>1. InspectPasses(g, codec, nals)
      BY <1>1, InspectPassesExist
    <2>2. g = CHOOSE f : f = [k \in 0..Len(nals) |->
                IF k = 0 THEN [seen |-> {}, slice |-> FALSE, key |-> FALSE, before |-> FALSE]
                ELSE Inspected(codec, f[k - 1], nals[k])]
      BY DEF InspectPasses
    <2>3. Inspect(data, codec).isSelfContainedKeyframe = (g[Len(nals)].key /\ g[Len(nals)].before)
      BY <1>2, <2>2 DEF Inspect
    <2> HIDE DEF g
    <2> QED BY <1>1, <2>1, <2>3
  <1>4. \A k \in 0..n : f[k] = IF k = 0
                               THEN [seen |-> {}, slice |-> FALSE, key |-> FALSE, before |-> FALSE]
                               ELSE Inspected(codec, f[k - 1], nals[k])
    BY <1>1, <1>3 DEF InspectPasses
  <1> DEFINE T == {k \in Nat : k \in 0..n => Reported(f[k], codec, x, n, k)}
  <1>5. 0 \in T
    <2>1. f[0] = [seen |-> {}, slice |-> FALSE, key |-> FALSE, before |-> FALSE]
      BY <1>4
    <2> DEFINE r == f[0]
    <2>2. r.seen = {} /\ r.slice = FALSE /\ r.key = FALSE /\ r.before = FALSE /\ r \in Reports(codec)
      BY <2>1 DEF Reports
    <2>3. 1..0 = {}
      OBVIOUS
    <2> HIDE DEF r
    <2>4. Reported(r, codec, x, n, 0)
      BY <2>2, <2>3 DEF Reported
    <2> QED BY <2>4 DEF r
  <1>6. ASSUME NEW k \in Nat \ {0}, k - 1 \in T PROVE k \in T
    <2> SUFFICES ASSUME k \in 0..n PROVE Reported(f[k], codec, x, n, k)
      OBVIOUS
    <2>1. k \in 1..n /\ k - 1 \in 0..n
      OBVIOUS
    <2>2. Reported(f[k - 1], codec, x, n, k - 1)
      BY <1>6, <2>1
    <2>3. f[k] = Inspected(codec, f[k - 1], Nal(codec, x[k]))
      BY <1>1, <1>4, <2>1
    <2>4. Reported(Inspected(codec, f[k - 1], Nal(codec, x[k])), codec, x, n, k)
      BY <2>1, <2>2, ReportedNext
    <2> QED BY <2>3, <2>4
  <1>7. Reported(f[n], codec, x, n, n)
    <2>1. Nat \subseteq T
      <3> HIDE DEF T
      <3> QED BY <1>5, <1>6, NaturalsUpTo
    <2> QED BY <2>1
  <1> DEFINE r == f[n]
  <1>8. r.key <=> keys # {}
    <2>1. r.key <=> \E i \in 1..n : i \in keys
      BY <1>7 DEF Reported
    <2>2. keys \subseteq 1..n
      BY DEF KeysOf
    <2> HIDE DEF r, keys
    <2> QED BY <2>1, <2>2
  <1>9. r.key => (r.before <=> SetsIn(codec, x, Min(keys)))
    BY <1>7 DEF Reported
  <1>10. ASSUME keys # {}
         PROVE  SetsIn(codec, x, Min(keys)) <=>
                  \A set \in ParameterSets(codec) :
                     \E i \in 1..n : TypeAt(codec, x, i) = set /\ i < Min(keys)
    <2> DEFINE m == Min(keys)
    <2>1. m \in keys
      <3>1. keys \in SUBSET Nat
        BY DEF KeysOf
      <3> HIDE DEF keys
      <3> QED BY <1>10, <3>1, LeastExists
    <2>2. m \in 1..n /\ IsKeyframeSlice(codec, TypeAt(codec, x, m))
      <3> HIDE DEF m
      <3> QED BY <2>1 DEF KeysOf
    <2> HIDE DEF m
    <2>3. TypeAt(codec, x, m) \notin ParameterSets(codec)
      BY <2>2, KeyIsNoSet
    <2>4. \A set \in ParameterSets(codec) :
            (\E i \in 1..m : TypeAt(codec, x, i) = set)
              <=> (\E i \in 1..n : TypeAt(codec, x, i) = set /\ i < m)
      <3> TAKE set \in ParameterSets(codec)
      <3>1. ASSUME NEW i \in 1..m, TypeAt(codec, x, i) = set
            PROVE  i \in 1..n /\ i < m
        <4>1. i # m
          BY <2>3, <3>1
        <4> QED BY <2>2, <4>1
      <3>2. \A i \in 1..n : i < m => i \in 1..m
        BY <2>2
      <3> QED BY <3>1, <3>2
    <2>5. SetsIn(codec, x, m) <=>
            \A set \in ParameterSets(codec) : \E i \in 1..n : TypeAt(codec, x, i) = set /\ i < m
      BY <2>4 DEF SetsIn
    <2> QED BY <2>5 DEF m
  <1> HIDE DEF r, keys
  <1>11. Inspect(data, codec).isSelfContainedKeyframe <=> r.key /\ r.before
    BY <1>3 DEF r
  <1> QED BY <1>8, <1>9, <1>10, <1>11 DEF keys

(* What the access units that UnitsInspected looks at are made of *)
LEMMA NalsAreGood == ASSUME NEW codec \in Codecs, NEW x \in Nals(codec) PROVE GoodNal(x)
  <1>1. ASSUME NEW a \in Nat, a # 0, x = <<a>> PROVE GoodNal(x)
    <2>1. x \in Seq(Nat) /\ Len(x) = 1 /\ x[1] = a
      BY <1>1
    <2> QED BY <1>1, <2>1 DEF GoodNal
  <1>2. ASSUME NEW a \in Nat, NEW b \in Nat, b # 0, x = <<a, b>> PROVE GoodNal(x)
    <2>1. x \in Seq(Nat) /\ Len(x) = 2 /\ x[2] = b
      BY <1>2
    <2> QED BY <1>2, <2>1 DEF GoodNal
  <1>3. ASSUME NEW a \in Nat, NEW b \in Nat, NEW c \in Nat, a # 0, c # 0, x = <<a, b, c>>
        PROVE  GoodNal(x)
    <2>1. x \in Seq(Nat) /\ Len(x) = 3 /\ x[1] = a /\ x[3] = c
      BY <1>3
    <2>2. \A i \in 1..Len(x) - 2 : i = 1
      BY <2>1
    <2> QED BY <1>3, <2>1, <2>2 DEF GoodNal
  <1>4. CASE codec = "H264"
    <2>1. x \in {<<101>>, <<103, 0, 9>>, <<104>>, <<65, 1>>, <<6>>}
      BY <1>4 DEF Nals
    <2> QED BY <1>1, <1>2, <1>3, <2>1
  <1>5. CASE codec = "Hevc"
    <2>1. x \in {<<38, 1>>, <<64>>, <<66>>, <<68, 0, 9>>, <<0, 1>>, <<78>>}
      BY <1>5 DEF Nals
    <2> QED BY <1>1, <1>2, <1>3, <2>1
  <1> QED BY <1>4, <1>5 DEF Codecs

LEMMA UnitsOf ==
  ASSUME NEW n \in Nat, NEW nals, NEW codes,
         \A i \in 1..n : GoodNal(nals[i]) /\ GoodCode(codes[i])
  PROVE  LET pieces == [i \in 1..n |-> codes[i] \o nals[i]]
         IN UnitsAre(FlattenSeq(pieces), codes, nals, n, [m \in 0..n |-> EndOf(pieces, m)])
  <1> DEFINE p == [i \in 1..n |-> codes[i] \o nals[i]]
             data == FlattenSeq(p)
             E == [m \in 0..n |-> EndOf(p, m)]
  <1>1. \A i \in 1..n : codes[i] \in Seq(Nat) /\ nals[i] \in Seq(Nat)
    <2> TAKE i \in 1..n
    <2>1. CASE codes[i] = <<0, 0, 1>>
      BY <2>1 DEF GoodNal
    <2>2. CASE codes[i] = <<0, 0, 0, 1>>
      BY <2>2 DEF GoodNal
    <2> QED BY <2>1, <2>2 DEF GoodCode
  <1>2. p \in Seq(Seq(Nat)) /\ Len(p) = n /\ \A i \in 1..n : p[i] = codes[i] \o nals[i]
    <2> DEFINE V == Seq(Nat)
    <2>1. p \in [1..n -> V]
      BY <1>1, ConcatProperties
    <2>2. \A i \in 1..n : p[i] = codes[i] \o nals[i]
      OBVIOUS
    <2> HIDE DEF p, V
    <2>3. p \in Seq(V) /\ Len(p) = n
      BY <2>1
    <2> QED BY <2>2, <2>3 DEF V
  <1> HIDE DEF p
  <1>3. /\ data \in Seq(Nat) /\ EndOf(p, 0) = 0 /\ EndOf(p, n) = Len(data) /\ Len(data) \in Nat
        /\ \A m \in 0..n : EndOf(p, m) \in Nat /\ EndOf(p, m) <= EndOf(p, n)
        /\ \A m \in 0..n - 1 :
             /\ EndOf(p, m + 1) = EndOf(p, m) + Len(p[m + 1])
             /\ \A i \in 1..Len(p[m + 1]) : data[EndOf(p, m) + i] = p[m + 1][i]
    BY <1>2, Layout, LenProperties
  <1>4. \A m \in 0..n : E[m] = EndOf(p, m)
    OBVIOUS
  <1> HIDE DEF data, E
  <1>5. E[0] = 0 /\ E[n] = Len(data) /\ \A m \in 0..n : E[m] \in Nat /\ E[m] <= Len(data)
    <2>1. 0 \in 0..n /\ n \in 0..n
      OBVIOUS
    <2> QED BY <1>3, <1>4, <2>1
  <1>6. ASSUME NEW m \in 0..n - 1
        PROVE  /\ GoodCode(codes[m + 1]) /\ GoodNal(nals[m + 1])
               /\ E[m + 1] = E[m] + Len(codes[m + 1]) + Len(nals[m + 1])
               /\ \A i \in 1..Len(codes[m + 1]) : data[E[m] + i] = codes[m + 1][i]
               /\ \A i \in 1..Len(nals[m + 1]) :
                    data[E[m] + Len(codes[m + 1]) + i] = nals[m + 1][i]
    <2> DEFINE b == codes[m + 1]
               y == nals[m + 1]
               e == E[m]
               d == E[m + 1]
               h == Len(b)
               g == Len(y)
               q == p[m + 1]
    <2>1. m \in 0..n /\ m + 1 \in 0..n /\ m + 1 \in 1..n
      OBVIOUS
    <2>2. GoodCode(b) /\ GoodNal(y) /\ b \in Seq(Nat) /\ y \in Seq(Nat) /\ q = b \o y
      BY <1>1, <1>2, <2>1
    <2>3. e \in Nat /\ d = e + Len(q) /\ \A i \in 1..Len(q) : data[e + i] = q[i]
      BY <1>3, <1>4, <1>5, <2>1
    <2> HIDE DEF b, y, e, d, q
    <2>4. /\ Len(q) = h + g /\ h \in Nat /\ g \in Nat
          /\ \A i \in 1..h + g : q[i] = IF i <= h THEN b[i] ELSE y[i - h]
      BY <2>2, ConcatProperties, LenProperties
    <2> HIDE DEF h, g
    <2>5. d = e + h + g
      BY <2>3, <2>4
    <2>6. \A i \in 1..h : data[e + i] = b[i]
      <3> TAKE i \in 1..h
      <3>1. i \in 1..h + g /\ i <= h
        BY <2>4
      <3> QED BY <2>3, <2>4, <3>1
    <2>7. \A i \in 1..g : data[e + h + i] = y[i]
      <3> TAKE i \in 1..g
      <3>1. PICK j \in 1..h + g : j = h + i
        <4>1. h + i \in 1..h + g
          BY <2>4
        <4> QED BY <4>1
      <3>2. ~(j <= h) /\ j - h = i /\ e + h + i = e + j
        BY <2>3, <2>4, <3>1
      <3>3. data[e + j] = q[j] /\ q[j] = y[i]
        BY <2>3, <2>4, <3>2
      <3> QED BY <3>2, <3>3
    <2> QED BY <2>2, <2>5, <2>6, <2>7 DEF b, y, e, d, h, g
  <1>7. UnitsAre(data, codes, nals, n, E)
    BY <1>3, <1>5, <1>6 DEF UnitsAre
  <1> QED BY <1>7 DEF data, E, p

(* split and inspect, annexb.cpp: of an access unit of any NAL units, in any *)
(* order and number, each after either start code and with what emulation    *)
(* prevention leaves in it, split gives exactly these units with their types *)
(* and inspect says that it is a keyframe to begin with if and only if every *)
(* parameter set of the codec comes before its first keyframe slice.         *)
THEOREM AnyAccessUnit ==
  ASSUME NEW codec \in Codecs, NEW n \in Nat \ {0}, NEW nals, NEW codes,
         \A i \in 1..n : GoodNal(nals[i]) /\ GoodCode(codes[i])
  PROVE  LET data == FlattenSeq([i \in 1..n |-> codes[i] \o nals[i]])
             keys == KeysOf(codec, nals, n)
         IN /\ Split(data, codec) = [i \in 1..n |-> Nal(codec, nals[i])]
            /\ Inspect(data, codec).isSelfContainedKeyframe <=>
                 keys # {} /\ \A set \in ParameterSets(codec) :
                                 \E i \in 1..n : TypeAt(codec, nals, i) = set /\ i < Min(keys)
  <1> DEFINE pieces == [i \in 1..n |-> codes[i] \o nals[i]]
             data == FlattenSeq(pieces)
  <1>1. UnitsAre(data, codes, nals, n, [m \in 0..n |-> EndOf(pieces, m)])
    BY UnitsOf
  <1> HIDE DEF data
  <1>2. Split(data, codec) = [i \in 1..n |-> Nal(codec, nals[i])]
    BY <1>1, SplitFinds
  <1>3. LET keys == KeysOf(codec, nals, n)
        IN Inspect(data, codec).isSelfContainedKeyframe <=>
             keys # {} /\ \A set \in ParameterSets(codec) :
                             \E i \in 1..n : TypeAt(codec, nals, i) = set /\ i < Min(keys)
    BY <1>2, InspectSays
  <1> QED BY <1>2, <1>3 DEF data

(* UnitsInspected, for every bound on the number of NAL units *)
LEMMA UnitInspected == ASSUME NEW key \in BOOLEAN PROVE Inspects[key]
  <1> SUFFICES
        ASSUME NEW codec \in Codecs, NEW n \in 1..MaxNals,
               NEW nals \in [1..n -> Nals(codec)], NEW codes \in [1..n -> Codes]
        PROVE  LET data == FlattenSeq([i \in 1..n |-> codes[i] \o nals[i]])
                   type(i) == NalTypeOf(codec, nals[i][1])
                   keys == {i \in 1..n : IsKeyframeSlice(codec, type(i))}
                   selfContained ==
                       keys # {} /\ \A set \in ParameterSets(codec) :
                                       \E i \in 1..n : type(i) = set /\ i < Min(keys)
               IN selfContained = key =>
                    /\ Split(data, codec) = [i \in 1..n |-> [type |-> type(i), bytes |-> nals[i]]]
                    /\ Inspect(data, codec).isSelfContainedKeyframe = key
    BY DEF Inspects
  <1> DEFINE data == FlattenSeq([i \in 1..n |-> codes[i] \o nals[i]])
             keys == KeysOf(codec, nals, n)
             said == Inspect(data, codec).isSelfContainedKeyframe
             selfContained ==
               keys # {} /\ \A set \in ParameterSets(codec) :
                               \E i \in 1..n : TypeAt(codec, nals, i) = set /\ i < Min(keys)
  <1>1. n \in Nat \ {0}
    BY WireAssumption
  <1>2. \A i \in 1..n : GoodNal(nals[i]) /\ GoodCode(codes[i])
    BY NalsAreGood DEF Codes, GoodCode
  <1>3. Split(data, codec) = [i \in 1..n |-> Nal(codec, nals[i])] /\ (said <=> selfContained)
    BY <1>1, <1>2, AnyAccessUnit
  <1>4. said \in BOOLEAN
    BY DEF Inspect
  <1>5. selfContained = key => said = key
    <2> HIDE DEF said, selfContained
    <2> QED BY <1>3, <1>4
  <1> HIDE DEF data
  <1>6. Split(data, codec) = [i \in 1..n |-> [type |-> TypeAt(codec, nals, i), bytes |-> nals[i]]]
    BY <1>3 DEF Nal, TypeAt
  <1> QED BY <1>5, <1>6 DEF KeysOf, TypeAt, data

(* split and inspect, annexb.cpp, where the session and the worker rely on   *)
(* them: the unit in the worker's hand is a keyframe, or is not, as its      *)
(* bytes say.                                                                *)
THEOREM AccessUnitsInspected == Spec => []UnitsInspected
  <1>1. PipelineInv => UnitsInspected
    <2> SUFFICES ASSUME PipelineInv, work = "decode" PROVE Inspects[unit.key]
      BY DEF UnitsInspected
    <2>1. unit \in Units \cup {NoUnit}
      BY DEF PipelineInv, TypeOK
    <2>2. CASE unit \in Units
      BY <2>2, UnitInspected DEF Units
    <2>3. CASE unit = NoUnit
      BY <2>3, UnitInspected DEF NoUnit
    <2> QED BY <2>1, <2>2, <2>3
  <1> QED BY <1>1, PipelineSafe, PTL
=============================================================================
