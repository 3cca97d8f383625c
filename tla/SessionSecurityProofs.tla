------------------------ MODULE SessionSecurityProofs ------------------------
(***************************************************************************)
(* SessionSecurity for every set of sources, all limits and lifetimes, and *)
(* any number of attempts, pairings and records.                           *)
(***************************************************************************)
EXTENDS SessionSecurity, FiniteSetTheorems, SequenceTheorems, TLAPS

Attempts == [source : Sources, started : Times, key : 0..MaxPairings, grants : Nat]

(* The attempts of ids in the log l that s made *)
By(l, ids, s) == {i \in ids : l[i].source = s}

(* The attempts of the log l, and those of s, that were not granted a        *)
(* session, within less than a cooldown from t on                            *)
Failing(l, t) ==
    {i \in DOMAIN l : /\ l[i].grants = 0
                      /\ t <= l[i].started /\ l[i].started < t + Cooldown}
FailingOf(l, s, t) == By(l, Failing(l, t), s)

(* A cooldown that ends at b was begun by the last attempt of ids. *)
Cooling(l, ids, b) ==
    b # 0 => /\ \A i \in ids : l[i].started + Cooldown <= b
             /\ \E i \in ids : l[i].started + Cooldown = b

(* The policy: charged are failing attempts only, within the limits; a       *)
(* failing attempt that is not charged any more is a cooldown old.           *)
Charges(l, ch, n) ==
    /\ ch \subseteq DOMAIN l
    /\ \A i \in DOMAIN l : l[i].started <= n
    /\ \A i \in ch : l[i].grants = 0
    /\ \A i \in DOMAIN l \ ch : l[i].grants = 0 => l[i].started + Cooldown <= n
Limits(l, ch) ==
    /\ Cardinality(ch) <= MaxGlobal
    /\ \A s \in Sources : Cardinality(By(l, ch, s)) <= MaxPerSource
Cooldowns(l, ch, pb, gb) ==
    /\ pb \in [Sources -> Times] /\ gb \in Times
    /\ Cooling(l, ch, gb)
    /\ \A s \in Sources : Cooling(l, By(l, ch, s), pb[s])
Bounded(l) ==
    \A t \in Nat :
        /\ Cardinality(Failing(l, t)) <= MaxGlobal
        /\ \A s \in Sources : Cardinality(FailingOf(l, s, t)) <= MaxPerSource

Policy(l, ch, pb, gb, n) ==
    Charges(l, ch, n) /\ Limits(l, ch) /\ Cooldowns(l, ch, pb, gb) /\ Bounded(l)

(* l2 is the log l after the attempt id was granted a session. *)
Granted(l, l2, id) ==
    /\ l2 \in Seq(Attempts) /\ Len(l2) = Len(l) /\ DOMAIN l2 = DOMAIN l
    /\ l2[id].grants = l[id].grants + 1 /\ l2[id].grants # 0
    /\ \A i \in DOMAIN l : i # id => l2[i] = l[i]
    /\ \A i \in DOMAIN l : l2[i].source = l[i].source /\ l2[i].started = l[i].started

(* The attempts made, and what the policy keeps of them *)
AttemptInv ==
    /\ now \in 0..MaxTime
    /\ log \in Seq(Attempts)
    /\ Policy(log, charged, peerBlocked, globalBlocked, now)

(* An open challenge is its source's own, and was granted nothing yet. *)
OpenChallenges ==
    /\ pending \in [Sources -> 0..Len(log)]
    /\ \A s \in Sources : pending[s] # 0 =>
          log[pending[s]].source = s /\ log[pending[s]].grants = 0
    /\ OneSessionPerChallenge
    /\ session \in 0..Len(log) /\ until \in Times

PairingInv ==
    /\ server \in [stage : {"none", "begun", "agreed", "wrong", "verified"}, until : Times]
    /\ pairings \in 0..MaxPairings /\ phoneKey \in 0..MaxPairings

(* Only a flushed file is moved over the record. *)
StoreInv ==
    /\ saving \in {"idle", "create", "write", "flush", "move"}
    /\ temp \in Files /\ file \in Files
    /\ saving = "move" => temp.state = "whole"
    /\ RecordLoadable

(* The numbers 0, 1, 2, ... of a channel, and the counter that is next *)
Numbers(q, counter) ==
    /\ q \in Seq(Nat) /\ counter \in Counters
    /\ \A i \in 1..Len(q) : q[i] = i - 1
    /\ ~counter.exhausted => Len(q) = counter.next

(* What was accepted is no more than what was sent. *)
RecordInv ==
    /\ out \in [Channels -> Counters] /\ in \in [Channels -> Counters]
    /\ used \in [Channels -> Seq(Nat)] /\ accepted \in [Channels -> Seq(Nat)]
    /\ \A c \in Channels : /\ Numbers(used[c], out[c]) /\ Numbers(accepted[c], in[c])
                           /\ Len(accepted[c]) <= Len(used[c])

(* The inductive invariant *)
IInv == AttemptInv /\ OpenChallenges /\ PairingInv /\ StoreInv /\ RecordInv

-----------------------------------------------------------------------------
LEMMA Constants ==
  /\ MaxPerSource \in Nat /\ MaxPerSource > 0 /\ MaxGlobal \in Nat /\ MaxGlobal > 0
  /\ MaxRecords \in Nat /\ MaxRecords > 0 /\ MaxPairings \in Nat /\ MaxPairings > 0
  /\ Window \in Nat /\ Cooldown \in Nat /\ Cooldown > 0 /\ Cooldown <= Window
  /\ PairingLife \in Nat /\ SessionLife \in Nat /\ ChallengeLife \in Nat
  /\ MaxTime \in Nat
  BY LimitsPositive, LifetimesOrdered

LEMMA TimesNat == Times \subseteq Nat
  BY Constants DEF Times

LEMMA TimeFacts ==
  ASSUME NEW n \in 0..MaxTime
  PROVE  /\ n \in Times /\ n + Cooldown \in Times /\ n + PairingLife \in Times
         /\ n + SessionLife \in Times /\ 0 \in Times /\ n \in Nat
  BY Constants DEF Times

(* Attempts of a log are finitely many. *)
LEMMA FiniteIds ==
  ASSUME NEW l \in Seq(Attempts), NEW ids \in SUBSET DOMAIN l
  PROVE  IsFiniteSet(ids) /\ Cardinality(ids) \in Nat
  <1>1. DOMAIN l = 1..Len(l) /\ Len(l) \in Nat
    OBVIOUS
  <1>2. IsFiniteSet(DOMAIN l)
    BY <1>1, FS_Interval
  <1> QED BY <1>2, FS_Subset, FS_CardinalityType

LEMMA FewerIds ==
  ASSUME NEW l \in Seq(Attempts), NEW ids \in SUBSET DOMAIN l, NEW less \in SUBSET ids
  PROVE  /\ Cardinality(less) \in Nat /\ Cardinality(ids) \in Nat
         /\ Cardinality(less) <= Cardinality(ids)
  BY FiniteIds, FS_Subset

LEMMA FewerBounded ==
  ASSUME NEW l \in Seq(Attempts), NEW ids \in SUBSET DOMAIN l, NEW less \in SUBSET ids,
         NEW m \in Nat, Cardinality(ids) <= m
  PROVE  Cardinality(less) <= m
  BY FewerIds

LEMMA OneMore ==
  ASSUME NEW l \in Seq(Attempts), NEW ids \in SUBSET DOMAIN l, NEW id, id \notin ids,
         NEW m \in Nat, Cardinality(ids) < m
  PROVE  Cardinality(ids \cup {id}) <= m
  <1>1. Cardinality(ids \cup {id}) = Cardinality(ids) + 1 /\ Cardinality(ids) \in Nat
    BY FiniteIds, FS_AddElement
  <1> QED BY <1>1

LEMMA OneLess ==
  ASSUME NEW l \in Seq(Attempts), NEW ids \in SUBSET DOMAIN l, NEW id \in ids,
         NEW m \in Nat, Cardinality(ids) <= m
  PROVE  Cardinality(ids \ {id}) < m
  <1>1. Cardinality(ids \ {id}) = Cardinality(ids) - 1 /\ Cardinality(ids) \in Nat
    BY FiniteIds, FS_RemoveElement
  <1> QED BY <1>1

(* Of fewer charges, fewer are a source's. *)
LEMMA LimitsOfLess ==
  ASSUME NEW l \in Seq(Attempts), NEW ids \in SUBSET DOMAIN l, NEW less \in SUBSET ids,
         Limits(l, ids)
  PROVE  Limits(l, less)
  <1>1. Cardinality(less) <= MaxGlobal
    BY FewerIds, Constants DEF Limits
  <1>2. ASSUME NEW s \in Sources PROVE Cardinality(By(l, less, s)) <= MaxPerSource
    <2>1. By(l, less, s) \subseteq By(l, ids, s) /\ By(l, ids, s) \subseteq DOMAIN l
      BY DEF By
    <2> QED BY <2>1, FewerIds, Constants DEF Limits
  <1> QED BY <1>1, <1>2 DEF Limits

LEMMA NoCharge ==
  ASSUME NEW l \in Seq(Attempts)
  PROVE  Limits(l, {})
  <1>1. \A s : By(l, {}, s) = {}
    BY DEF By
  <1>2. Cardinality({}) = 0
    BY FS_EmptySet
  <1>3. 0 <= MaxGlobal /\ 0 <= MaxPerSource
    BY Constants
  <1> QED BY <1>1, <1>2, <1>3, Zenon DEF Limits

-----------------------------------------------------------------------------
(* What prune leaves is a policy again. *)
LEMMA PruneFacts ==
  ASSUME log \in Seq(Attempts), now \in 0..MaxTime,
         Policy(log, charged, peerBlocked, globalBlocked, now)
  PROVE  /\ Pruned.charged \subseteq charged
         /\ Policy(log, Pruned.charged, Pruned.peers, Pruned.global, now)
  <1> DEFINE over(t) == t # 0 /\ now >= t
             ended == {s \in Sources : over(peerBlocked[s])}
  <1>1. /\ charged \subseteq DOMAIN log
        /\ \A i \in DOMAIN log : log[i].started \in Nat /\ log[i].source \in Sources
        /\ now \in Nat /\ 0 \in Times
        /\ \A s \in Sources : peerBlocked[s] \in Nat
        /\ globalBlocked \in Nat /\ peerBlocked \in [Sources -> Times]
    <2>1. charged \subseteq DOMAIN log /\ globalBlocked \in Times
          /\ peerBlocked \in [Sources -> Times]
      BY DEF Policy, Charges, Cooldowns
    <2>2. now \in Nat /\ 0 \in Times
      BY TimeFacts
    <2>3. \A i \in DOMAIN log : log[i] \in Attempts
      OBVIOUS
    <2>4. \A i \in DOMAIN log : log[i].started \in Times /\ log[i].source \in Sources
      BY <2>3 DEF Attempts
    <2> QED BY <2>1, <2>2, <2>4, TimesNat
  <1>2. CASE over(globalBlocked)
    <2>1. /\ Pruned.charged = {} /\ Pruned.global = 0
          /\ Pruned.peers = [s \in Sources |-> 0]
      BY <1>2 DEF Pruned
    <2>2. Charges(log, {}, now)
      <3>1. \A i \in charged : log[i].started + Cooldown <= now
        BY <1>1, <1>2, Constants DEF Policy, Cooldowns, Cooling
      <3> QED BY <3>1 DEF Policy, Charges
    <2>3. Cooldowns(log, {}, [s \in Sources |-> 0], 0)
      BY <1>1 DEF Cooldowns, Cooling
    <2> QED BY <2>1, <2>2, <2>3, NoCharge DEF Policy
  <1>3. CASE ~over(globalBlocked)
    <2> DEFINE ch == {i \in charged : /\ log[i].source \notin ended
                                      /\ log[i].started + Window >= now}
               pb == [s \in Sources |-> IF s \in ended THEN 0 ELSE peerBlocked[s]]
    <2>1. Pruned.charged = ch /\ Pruned.global = globalBlocked /\ Pruned.peers = pb
      BY <1>3 DEF Pruned
    <2>2. ch \subseteq charged
      OBVIOUS
    <2>3. ASSUME NEW i \in charged, i \notin ch PROVE log[i].started + Cooldown <= now
      <3>1. CASE log[i].source \in ended
        <4>1. i \in By(log, charged, log[i].source)
          BY DEF By
        <4> QED BY <1>1, <3>1, <4>1, Constants DEF Policy, Cooldowns, Cooling
      <3>2. CASE log[i].source \notin ended
        BY <1>1, <2>3, <3>2, Constants
      <3> QED BY <3>1, <3>2
    <2>4. Charges(log, ch, now)
      BY <2>2, <2>3 DEF Policy, Charges
    <2>5. Cooling(log, ch, globalBlocked)
      <3> SUFFICES ASSUME globalBlocked # 0
                   PROVE  /\ \A i \in ch : log[i].started + Cooldown <= globalBlocked
                          /\ \E i \in ch : log[i].started + Cooldown = globalBlocked
        BY DEF Cooling
      <3>1. PICK i \in charged : log[i].started + Cooldown = globalBlocked
        BY DEF Policy, Cooldowns, Cooling
      <3>2. i \in ch
        BY <1>1, <1>3, <2>3, <3>1, Constants
      <3> QED BY <2>2, <3>1, <3>2 DEF Policy, Cooldowns, Cooling
    <2>6. ASSUME NEW s \in Sources PROVE Cooling(log, By(log, ch, s), pb[s])
      <3>1. Cooling(log, By(log, charged, s), peerBlocked[s])
        BY DEF Policy, Cooldowns
      <3> SUFFICES ASSUME pb[s] # 0
                   PROVE  /\ \A i \in By(log, ch, s) : log[i].started + Cooldown <= pb[s]
                          /\ \E i \in By(log, ch, s) : log[i].started + Cooldown = pb[s]
        BY DEF Cooling
      <3>2. s \notin ended /\ pb[s] = peerBlocked[s] /\ now < pb[s]
        BY <1>1
      <3>3. PICK i \in By(log, charged, s) : log[i].started + Cooldown = pb[s]
        BY <3>1, <3>2 DEF Cooling
      <3>4. i \in charged /\ log[i].source = s
        BY <3>3 DEF By
      <3>5. i \in ch
        BY <1>1, <2>3, <3>2, <3>3, <3>4, Constants
      <3> QED BY <2>2, <3>1, <3>2, <3>3, <3>4, <3>5 DEF Cooling, By
    <2>7. pb \in [Sources -> Times]
      BY <1>1
    <2>8. Cooldowns(log, ch, pb, globalBlocked)
      BY <2>5, <2>6, <2>7 DEF Policy, Cooldowns
    <2>9. Limits(log, ch)
      BY <1>1, <2>2, LimitsOfLess DEF Policy
    <2> QED BY <2>1, <2>2, <2>4, <2>8, <2>9 DEF Policy
  <1> QED BY <1>2, <1>3

(* Beginning an attempt within the limits leads to a policy again: all       *)
(* failing attempts of the last cooldown are charged, and so are bounded.    *)
LEMMA BeginFacts ==
  ASSUME NEW l \in Seq(Attempts), NEW ch, NEW pb, NEW gb, NEW n \in 0..MaxTime,
         Policy(l, ch, pb, gb, n),
         NEW s \in Sources,
         gb = 0, pb[s] = 0,
         Cardinality(ch) < MaxGlobal, Cardinality(By(l, ch, s)) < MaxPerSource,
         NEW l2 \in Seq(Attempts), NEW id, id \notin DOMAIN l,
         DOMAIN l2 = DOMAIN l \cup {id}, \A i \in DOMAIN l : l2[i] = l[i],
         l2[id].source = s, l2[id].started = n, l2[id].grants = 0,
         NEW pb2, pb2 = pb \/ pb2 = [pb EXCEPT ![s] = n + Cooldown],
         NEW gb2, gb2 = gb \/ gb2 = n + Cooldown
  PROVE  Policy(l2, ch \cup {id}, pb2, gb2, n)
  <1> DEFINE ch2 == ch \cup {id}
  <1>1. n \in Times /\ n + Cooldown \in Times /\ n \in Nat /\ 0 \in Times
    BY TimeFacts
  <1>4. /\ ch \subseteq DOMAIN l /\ ch2 \subseteq DOMAIN l2
        /\ \A i \in DOMAIN l : l[i].started \in Nat /\ l[i].started <= n
    <2>1. ch \subseteq DOMAIN l /\ \A i \in DOMAIN l : l[i].started <= n
      BY DEF Policy, Charges
    <2>2. \A i \in DOMAIN l : l[i] \in Attempts
      OBVIOUS
    <2> QED BY <2>1, <2>2, TimesNat DEF Attempts
  <1>5. /\ By(l2, ch2, s) = By(l, ch, s) \cup {id}
        /\ \A r \in Sources : r # s => By(l2, ch2, r) = By(l, ch, r)
    BY <1>4 DEF By
  <1>6. Charges(l2, ch2, n)
    BY <1>1, <1>4 DEF Policy, Charges
  <1>7. Limits(l2, ch2)
    <2>1. Cardinality(ch2) <= MaxGlobal
      BY <1>4, OneMore, Constants
    <2>2. By(l, ch, s) \subseteq DOMAIN l /\ id \notin By(l, ch, s)
      BY <1>4 DEF By
    <2>3. Cardinality(By(l2, ch2, s)) <= MaxPerSource
      BY <1>5, <2>2, OneMore, Constants
    <2>4. \A r \in Sources : Cardinality(By(l2, ch2, r)) <= MaxPerSource
      BY <1>5, <2>3 DEF Policy, Limits
    <2> QED BY <2>1, <2>4 DEF Limits
  <1>8. Cooldowns(l2, ch2, pb2, gb2)
    <2>1. /\ id \in ch2 /\ l2[id].started + Cooldown = n + Cooldown
          /\ id \in By(l2, ch2, s) /\ By(l2, ch2, s) \subseteq ch2
      BY DEF By
    <2>7. \A i \in ch2 : l2[i].started + Cooldown <= n + Cooldown
      BY <1>1, <1>4, <1>5, Constants DEF By
    <2>2. Cooling(l2, ch2, gb2)
      BY <2>1, <2>7 DEF Cooling
    <2>3. pb \in [Sources -> Times] /\ gb2 \in Times
      BY <1>1 DEF Policy, Cooldowns
    <2>4. pb2 \in [Sources -> Times]
      BY <1>1, <2>3
    <2>5. Cooling(l2, By(l2, ch2, s), pb2[s])
      <3>1. pb2[s] = n + Cooldown \/ pb2[s] = 0
        BY <2>3
      <3> QED BY <2>1, <2>7, <3>1 DEF Cooling
    <2>6. ASSUME NEW r \in Sources, r # s PROVE Cooling(l2, By(l2, ch2, r), pb2[r])
      <3>1. pb2[r] = pb[r]
        BY <2>3, <2>6
      <3>2. By(l2, ch2, r) = By(l, ch, r) /\ \A i \in By(l, ch, r) : l2[i] = l[i]
        BY <1>4, <1>5, <2>6 DEF By
      <3>3. Cooling(l, By(l, ch, r), pb[r])
        BY DEF Policy, Cooldowns
      <3> QED BY <3>1, <3>2, <3>3 DEF Cooling
    <2> QED BY <2>2, <2>3, <2>4, <2>5, <2>6 DEF Cooldowns
  <1>9. Bounded(l2)
    <2> SUFFICES ASSUME NEW t \in Nat
                 PROVE  /\ Cardinality(Failing(l2, t)) <= MaxGlobal
                        /\ \A r \in Sources : Cardinality(FailingOf(l2, r, t)) <= MaxPerSource
      BY DEF Bounded
    <2>1. CASE n < t + Cooldown
      <3>1. Failing(l2, t) \subseteq ch2
        <4> SUFFICES ASSUME NEW i \in Failing(l2, t), i \notin ch2 PROVE FALSE
          OBVIOUS
        <4>1. i \in DOMAIN l2 /\ l2[i].grants = 0 /\ t <= l2[i].started
          BY DEF Failing
        <4>2. l2[i].started + Cooldown <= n /\ l2[i].started \in Nat
          BY <1>4, <1>6, <4>1 DEF Charges
        <4>3. \A m \in Nat : m + Cooldown <= n /\ t <= m => FALSE
          BY <1>1, <2>1, Constants
        <4> QED BY <4>1, <4>2, <4>3
      <3>2. Cardinality(Failing(l2, t)) <= MaxGlobal
        BY <1>4, <1>7, <3>1, FewerBounded, Constants DEF Limits
      <3>3. ASSUME NEW r \in Sources PROVE Cardinality(FailingOf(l2, r, t)) <= MaxPerSource
        <4>1. FailingOf(l2, r, t) \subseteq By(l2, ch2, r) /\ By(l2, ch2, r) \subseteq DOMAIN l2
          BY <1>4, <3>1 DEF FailingOf, By
        <4>2. Cardinality(By(l2, ch2, r)) <= MaxPerSource /\ MaxPerSource \in Nat
          BY <1>7, Constants DEF Limits
        <4> HIDE DEF ch2
        <4> QED BY <4>1, <4>2, FewerBounded
      <3> QED BY <3>2, <3>3
    <2>2. CASE ~(n < t + Cooldown)
      <3>1. Failing(l2, t) = Failing(l, t)
        BY <2>2 DEF Failing
      <3>2. Failing(l, t) \subseteq DOMAIN l
        BY DEF Failing
      <3>3. \A r \in Sources : FailingOf(l2, r, t) = FailingOf(l, r, t)
        BY <3>1, <3>2 DEF FailingOf, By
      <3> QED BY <3>1, <3>3 DEF Policy, Bounded
    <2> QED BY <2>1, <2>2
  <1> QED BY <1>6, <1>7, <1>8, <1>9 DEF Policy

(* A granted attempt is taken off the charges, and with it the cooldowns it  *)
(* was charged for.                                                          *)
LEMMA SucceedFacts ==
  ASSUME NEW l \in Seq(Attempts), NEW ch, NEW pb, NEW gb, NEW n \in 0..MaxTime,
         Policy(l, ch, pb, gb, n),
         NEW id \in DOMAIN l,
         NEW l2, Granted(l, l2, id)
  PROVE  /\ id \in ch =>
              /\ Cardinality(ch \ {id}) < MaxGlobal
              /\ Cardinality(By(l, ch \ {id}, l[id].source)) < MaxPerSource
              /\ Policy(l2, ch \ {id}, [pb EXCEPT ![l[id].source] = 0], 0, n)
         /\ id \notin ch => Policy(l2, ch, pb, gb, n)
  <1> DEFINE s == l[id].source
  <1> USE DEF Granted
  <1>1. s \in Sources
    <2>1. l[id] \in Attempts
      OBVIOUS
    <2> QED BY <2>1 DEF Attempts
  <1>5. \A r : \A ids \in SUBSET DOMAIN l : By(l2, ids, r) = By(l, ids, r)
    BY DEF By
  <1>6. Bounded(l2)
    <2> SUFFICES ASSUME NEW t \in Nat
                 PROVE  /\ Cardinality(Failing(l2, t)) <= MaxGlobal
                        /\ \A r \in Sources : Cardinality(FailingOf(l2, r, t)) <= MaxPerSource
      BY DEF Bounded
    <2>1. Failing(l2, t) \subseteq Failing(l, t) /\ Failing(l, t) \subseteq DOMAIN l
      BY DEF Failing
    <2>2. Cardinality(Failing(l2, t)) <= MaxGlobal
      BY <2>1, FewerBounded, Constants DEF Policy, Bounded
    <2>3. ASSUME NEW r \in Sources PROVE Cardinality(FailingOf(l2, r, t)) <= MaxPerSource
      <3>1. /\ FailingOf(l2, r, t) \subseteq FailingOf(l, r, t)
            /\ FailingOf(l, r, t) \subseteq DOMAIN l
        BY <2>1 DEF FailingOf, By
      <3> QED BY <3>1, FewerBounded, Constants DEF Policy, Bounded
    <2> QED BY <2>2, <2>3
  <1>7. ch \subseteq DOMAIN l /\ pb \in [Sources -> Times] /\ 0 \in Times
    BY TimeFacts DEF Policy, Charges, Cooldowns
  <1>8. ASSUME id \in ch
        PROVE  /\ Cardinality(ch \ {id}) < MaxGlobal
               /\ Cardinality(By(l, ch \ {id}, s)) < MaxPerSource
               /\ Policy(l2, ch \ {id}, [pb EXCEPT ![s] = 0], 0, n)
    <2> DEFINE ch2 == ch \ {id}
    <2>1. Cardinality(ch2) < MaxGlobal
      BY <1>7, <1>8, OneLess, Constants DEF Policy, Limits
    <2>2. /\ By(l, ch2, s) = By(l, ch, s) \ {id} /\ id \in By(l, ch, s)
          /\ By(l, ch, s) \subseteq DOMAIN l
          /\ \A r \in Sources : r # s => By(l, ch2, r) = By(l, ch, r)
      BY <1>7, <1>8 DEF By
    <2>3. Cardinality(By(l, ch2, s)) < MaxPerSource
      BY <1>1, <2>2, OneLess, Constants DEF Policy, Limits
    <2>4. Charges(l2, ch2, n)
      BY <1>7 DEF Policy, Charges
    <2>5. Limits(l2, ch2)
      <3>1. Limits(l, ch2)
        BY <1>7, LimitsOfLess DEF Policy
      <3> QED BY <1>5, <1>7, <3>1 DEF Limits
    <2>6. Cooldowns(l2, ch2, [pb EXCEPT ![s] = 0], 0)
      <3>1. [pb EXCEPT ![s] = 0] \in [Sources -> Times]
        BY <1>7
      <3>2. ASSUME NEW r \in Sources
            PROVE  Cooling(l2, By(l2, ch2, r), [pb EXCEPT ![s] = 0][r])
        <4>1. CASE r = s
          BY <1>1, <1>7, <4>1 DEF Cooling
        <4>2. CASE r # s
          <5>1. /\ [pb EXCEPT ![s] = 0][r] = pb[r]
                /\ By(l2, ch2, r) = By(l, ch, r) /\ By(l, ch, r) \subseteq DOMAIN l
            BY <1>5, <1>7, <2>2, <4>2 DEF By
          <5>2. Cooling(l, By(l, ch, r), pb[r])
            BY DEF Policy, Cooldowns
          <5> QED BY <5>1, <5>2 DEF Cooling
        <4> QED BY <4>1, <4>2
      <3>3. Cooling(l2, ch2, 0)
        BY DEF Cooling
      <3> QED BY <1>7, <3>1, <3>2, <3>3 DEF Cooldowns
    <2> QED BY <1>6, <2>1, <2>3, <2>4, <2>5, <2>6 DEF Policy
  <1>9. ASSUME id \notin ch PROVE Policy(l2, ch, pb, gb, n)
    <2>1. Charges(l2, ch, n)
      BY <1>7, <1>9 DEF Policy, Charges
    <2>2. Limits(l2, ch)
      BY <1>5, <1>7 DEF Policy, Limits
    <2>3. Cooling(l2, ch, gb)
      BY <1>7 DEF Policy, Cooldowns, Cooling
    <2>4. ASSUME NEW r \in Sources PROVE Cooling(l2, By(l2, ch, r), pb[r])
      <3>1. By(l2, ch, r) = By(l, ch, r) /\ By(l, ch, r) \subseteq DOMAIN l
        BY <1>5, <1>7 DEF By
      <3>2. Cooling(l, By(l, ch, r), pb[r])
        BY DEF Policy, Cooldowns
      <3> QED BY <3>1, <3>2 DEF Cooling
    <2> QED BY <1>6, <2>1, <2>2, <2>3, <2>4 DEF Policy, Cooldowns
  <1> QED BY <1>8, <1>9

-----------------------------------------------------------------------------
(* The steps of the policy *)
LEMMA BeginStep ==
  ASSUME AttemptInv, NEW s \in Sources, NEW key \in 0..MaxPairings,
         BeginAttempt(s, key), now' = now
  PROVE  /\ AttemptInv' /\ Len(log') = Len(log) + 1
         /\ \A i \in DOMAIN log : log'[i] = log[i]
         /\ log'[Len(log) + 1].source = s /\ log'[Len(log) + 1].grants = 0
  <1> DEFINE id == Len(log) + 1
             a == [source |-> s, started |-> now, key |-> key, grants |-> 0]
  <1>1. /\ now \in 0..MaxTime /\ log \in Seq(Attempts) /\ now \in Times
        /\ Policy(log, Pruned.charged, Pruned.peers, Pruned.global, now)
    BY PruneFacts, TimeFacts DEF AttemptInv
  <1>2. a \in Attempts /\ a.source = s /\ a.started = now /\ a.grants = 0
    BY <1>1 DEF Attempts
  <1>3. log' = Append(log, a)
    BY DEF BeginAttempt
  <1>4. /\ log' \in Seq(Attempts) /\ id \notin DOMAIN log /\ Len(log') = id
        /\ DOMAIN log' = DOMAIN log \cup {id} /\ log'[id] = a
        /\ \A i \in DOMAIN log : log'[i] = log[i]
    BY <1>1, <1>2, <1>3
  <1>5. /\ Pruned.global = 0 /\ Pruned.peers[s] = 0
        /\ Cardinality(Pruned.charged) < MaxGlobal
        /\ Cardinality(By(log, Pruned.charged, s)) < MaxPerSource
    BY DEF BeginAttempt, Allowed, Of, By
  <1>6. /\ charged' = Pruned.charged \cup {id}
        /\ \/ peerBlocked' = Pruned.peers
           \/ peerBlocked' = [Pruned.peers EXCEPT ![s] = now + Cooldown]
        /\ globalBlocked' = Pruned.global \/ globalBlocked' = now + Cooldown
    BY DEF BeginAttempt, Of, By
  <1>7. log'[id].source = s /\ log'[id].started = now /\ log'[id].grants = 0
    BY <1>2, <1>4
  <1> HIDE DEF id, a
  <1>8. Policy(log', charged', peerBlocked', globalBlocked', now)
    <2>1. ASSUME NEW ch, ch = charged' PROVE Policy(log', ch, peerBlocked', globalBlocked', now)
      BY <1>1, <1>4, <1>5, <1>6, <1>7, <2>1, BeginFacts
    <2> QED BY <2>1
  <1> QED BY <1>1, <1>4, <1>7, <1>8 DEF AttemptInv, id

LEMMA PruneStep ==
  ASSUME AttemptInv, Prune, UNCHANGED <<now, log>>
  PROVE  AttemptInv'
  BY PruneFacts DEF AttemptInv, Prune

LEMMA GrantFacts ==
  ASSUME NEW l \in Seq(Attempts), NEW id \in DOMAIN l
  PROVE  Granted(l, [l EXCEPT ![id].grants = @ + 1], id)
  <1>1. l[id] \in Attempts /\ l[id].grants \in Nat
    <2>1. l[id] \in Attempts
      OBVIOUS
    <2> QED BY <2>1 DEF Attempts
  <1>2. PICK a : a = [l[id] EXCEPT !.grants = @ + 1]
    OBVIOUS
  <1>3. /\ a \in Attempts /\ a.source = l[id].source /\ a.started = l[id].started
        /\ a.grants = l[id].grants + 1 /\ a.grants # 0
    BY <1>1, <1>2 DEF Attempts
  <1>4. PICK l2 : l2 = [l EXCEPT ![id] = a]
    OBVIOUS
  <1>5. /\ l2 \in Seq(Attempts) /\ Len(l2) = Len(l) /\ DOMAIN l2 = DOMAIN l
        /\ l2[id] = a /\ \A i \in DOMAIN l : i # id => l2[i] = l[i]
    BY <1>3, <1>4
  <1>6. Granted(l, l2, id)
    BY <1>3, <1>5 DEF Granted
  <1>7. l2 = [l EXCEPT ![id].grants = @ + 1]
    BY <1>2, <1>4
  <1> QED BY <1>6, <1>7

LEMMA SucceedStep ==
  ASSUME AttemptInv, NEW id \in DOMAIN log, Succeed(id), now' = now,
         Granted(log, log', id)
  PROVE  AttemptInv'
  <1>1. /\ now \in 0..MaxTime /\ log \in Seq(Attempts)
        /\ Policy(log, Pruned.charged, Pruned.peers, Pruned.global, now)
    BY PruneFacts DEF AttemptInv
  <1>2. Policy(log', charged', peerBlocked', globalBlocked', now)
    <2>1. CASE id \in Pruned.charged
      <3>1. /\ Cardinality(Pruned.charged \ {id}) < MaxGlobal
            /\ Cardinality(By(log, Pruned.charged \ {id}, log[id].source)) < MaxPerSource
            /\ Policy(log', Pruned.charged \ {id},
                      [Pruned.peers EXCEPT ![log[id].source] = 0], 0, now)
        BY <1>1, <2>1, SucceedFacts
      <3>2. /\ charged' = Pruned.charged \ {id} /\ globalBlocked' = 0
            /\ peerBlocked' = [Pruned.peers EXCEPT ![log[id].source] = 0]
        BY <2>1, <3>1 DEF Succeed, Uncharge, Unblocks, Of, By
      <3> QED BY <3>1, <3>2
    <2>2. CASE id \notin Pruned.charged
      <3>1. /\ charged' = Pruned.charged /\ globalBlocked' = Pruned.global
            /\ peerBlocked' = Pruned.peers
        BY <2>2 DEF Succeed, Prune
      <3> QED BY <1>1, <2>2, <3>1, SucceedFacts
    <2> QED BY <2>1, <2>2
  <1> QED BY <1>1, <1>2 DEF AttemptInv, Granted

LEMMA NothingBegun ==
  ASSUME NEW n \in 0..MaxTime
  PROVE  Policy(<<>>, {}, [s \in Sources |-> 0], 0, n)
  <1>1. <<>> \in Seq(Attempts) /\ DOMAIN <<>> = {} /\ 0 \in Times
    BY TimeFacts
  <1>2. Charges(<<>>, {}, n)
    BY <1>1 DEF Charges
  <1>3. Limits(<<>>, {})
    BY <1>1, NoCharge
  <1>4. Cooldowns(<<>>, {}, [s \in Sources |-> 0], 0)
    BY <1>1 DEF Cooldowns, Cooling
  <1>5. Bounded(<<>>)
    <2>1. \A t : Failing(<<>>, t) = {}
      BY <1>1 DEF Failing
    <2>2. \A s, t : FailingOf(<<>>, s, t) = {}
      BY <2>1 DEF FailingOf, By
    <2>3. Cardinality({}) = 0 /\ 0 <= MaxGlobal /\ 0 <= MaxPerSource
      BY FS_EmptySet, Constants
    <2> QED BY <2>1, <2>2, <2>3, Zenon DEF Bounded
  <1> QED BY <1>2, <1>3, <1>4, <1>5 DEF Policy

-----------------------------------------------------------------------------
(* Each part of the invariant, over the steps that can disturb it *)
LEMMA BeginChallenges ==
  ASSUME AttemptInv, OpenChallenges, NEW s \in Sources, NEW key \in 0..MaxPairings,
         BeginAttempt(s, key), UNCHANGED <<now, session, until>>,
         pending' = pending \/ pending' = [pending EXCEPT ![s] = Len(log) + 1]
  PROVE  AttemptInv' /\ OpenChallenges'
  <1>1. /\ AttemptInv' /\ Len(log') = Len(log) + 1
        /\ \A i \in DOMAIN log : log'[i] = log[i]
        /\ log'[Len(log) + 1].source = s /\ log'[Len(log) + 1].grants = 0
    BY BeginStep
  <1>2. /\ Len(log) \in Nat /\ DOMAIN log = 1..Len(log) /\ DOMAIN log' = 1..Len(log')
        /\ pending \in [Sources -> 0..Len(log)] /\ session \in 0..Len(log)
    BY <1>1 DEF AttemptInv, OpenChallenges
  <1>3. pending' \in [Sources -> 0..Len(log')] /\ session' \in 0..Len(log')
    BY <1>1, <1>2
  <1>4. ASSUME NEW r \in Sources, pending'[r] # 0
        PROVE  log'[pending'[r]].source = r /\ log'[pending'[r]].grants = 0
    <2>1. CASE pending'[r] = pending[r]
      BY <1>1, <1>2, <1>4, <2>1 DEF OpenChallenges
    <2>2. CASE r = s /\ pending'[r] = Len(log) + 1
      BY <1>1, <2>2
    <2> QED BY <1>2, <2>1, <2>2
  <1>5. OneSessionPerChallenge'
    BY <1>1, <1>2 DEF OneSessionPerChallenge, OpenChallenges
  <1> QED BY <1>1, <1>3, <1>4, <1>5 DEF OpenChallenges

LEMMA LaterPolicy ==
  ASSUME NEW l \in Seq(Attempts), NEW ch, NEW pb, NEW gb, NEW n \in Nat,
         Policy(l, ch, pb, gb, n)
  PROVE  Policy(l, ch, pb, gb, n + 1)
  <1>1. \A i \in DOMAIN l : l[i].started \in Nat
    <2>1. \A i \in DOMAIN l : l[i] \in Attempts
      OBVIOUS
    <2> QED BY <2>1, TimesNat DEF Attempts
  <1>2. Charges(l, ch, n + 1)
    BY <1>1, Constants DEF Policy, Charges
  <1> QED BY <1>2 DEF Policy

LEMMA AttemptNext == IInv /\ [Next]_vars => AttemptInv' /\ OpenChallenges'
  <1> SUFFICES ASSUME IInv, [Next]_vars PROVE AttemptInv' /\ OpenChallenges'
    OBVIOUS
  <1> USE DEF IInv
  <1>1. 0 \in Times /\ now \in Nat /\ now + SessionLife \in Times
    BY TimeFacts DEF AttemptInv
  <1>2. /\ log \in Seq(Attempts) /\ Len(log) \in Nat /\ DOMAIN log = 1..Len(log)
        /\ pending \in [Sources -> 0..Len(log)]
    BY DEF AttemptInv, OpenChallenges
  <1>3. ASSUME UNCHANGED <<now, log, policyVars>>, UNCHANGED pending,
               UNCHANGED <<session, until>> \/ NoSession
        PROVE  AttemptInv' /\ OpenChallenges'
    <2>1. AttemptInv'
      BY <1>3 DEF AttemptInv, policyVars
    <2>2. session' \in 0..Len(log) /\ until' \in Times
      BY <1>1, <1>2, <1>3 DEF OpenChallenges, NoSession
    <2> QED BY <1>3, <2>1, <2>2 DEF OpenChallenges, OneSessionPerChallenge
  <1>4. CASE Tick
    <2>1. Policy(log, charged, peerBlocked, globalBlocked, now + 1)
      BY <1>1, LaterPolicy DEF AttemptInv
    <2>2. AttemptInv'
      BY <1>4, <2>1, Constants DEF Tick, AttemptInv, policyVars
    <2> QED BY <1>4, <2>2 DEF Tick, sessionVars, OpenChallenges, OneSessionPerChallenge
  <1>5. CASE Crash
    <2>1. /\ log' = <<>> /\ charged' = {} /\ globalBlocked' = 0 /\ now' = now
          /\ peerBlocked' = [s \in Sources |-> 0] /\ pending' = [s \in Sources |-> 0]
          /\ session' = 0 /\ until' = 0
      BY <1>5 DEF Crash, NoSession
    <2>2. AttemptInv'
      BY <2>1, NothingBegun DEF AttemptInv
    <2> QED BY <1>1, <2>1, <2>2 DEF OpenChallenges, OneSessionPerChallenge
  <1>6. ASSUME NEW s \in Sources, BeginAuthentication(s) \/ Unsolicited(s)
        PROVE  AttemptInv' /\ OpenChallenges'
    <2>1. UNCHANGED <<now, session, until>>
      BY <1>6 DEF BeginAuthentication, Unsolicited, sessionVars
    <2>2. file.key \in 0..MaxPairings /\ 0 \in 0..MaxPairings
      BY Constants DEF StoreInv, Files
    <2>3. CASE \E key \in 0..MaxPairings :
                 /\ BeginAttempt(s, key)
                 /\ pending' = pending \/ pending' = [pending EXCEPT ![s] = Len(log) + 1]
      BY <2>1, <2>3, BeginChallenges
    <2>4. CASE Prune /\ UNCHANGED <<log, pending>>
      <3>1. AttemptInv'
        BY <2>1, <2>4, PruneStep
      <3> QED BY <2>1, <2>4, <3>1 DEF OpenChallenges, OneSessionPerChallenge
    <2> QED BY <1>6, <2>2, <2>3, <2>4 DEF BeginAuthentication, Unsolicited
  <1>7. ASSUME NEW s \in Sources, FinishWrong(s) PROVE AttemptInv' /\ OpenChallenges'
    <2>1. /\ pending' = [pending EXCEPT ![s] = 0]
          /\ Prune /\ UNCHANGED <<now, log, session, until>>
      BY <1>7 DEF FinishWrong, Taken, sessionVars
    <2>2. AttemptInv'
      BY <2>1, PruneStep
    <2> QED BY <1>2, <2>1, <2>2 DEF OpenChallenges, OneSessionPerChallenge
  <1>8. ASSUME NEW s \in Sources, FinishRight(s) PROVE AttemptInv' /\ OpenChallenges'
    <2>1. PICK id : id = pending[s]
      OBVIOUS
    <2>2. /\ id # 0 /\ pending' = [pending EXCEPT ![s] = 0] /\ Succeed(id)
          /\ log' = [log EXCEPT ![id].grants = @ + 1] /\ now' = now
          /\ session' = id /\ until' = now + SessionLife
      BY <1>8, <2>1 DEF FinishRight, Taken, CreateSessionProtector
    <2>3. id \in DOMAIN log /\ id \in 0..Len(log)
      BY <1>2, <2>1, <2>2
    <2>4. Granted(log, log', id)
      BY <1>2, <2>2, <2>3, GrantFacts
    <2>5. AttemptInv'
      BY <2>2, <2>3, <2>4, SucceedStep
    <2>6. log[id].source = s /\ log[id].grants = 0
      BY <2>1, <2>2 DEF OpenChallenges
    <2>7. pending' \in [Sources -> 0..Len(log')] /\ session' \in 0..Len(log')
      BY <1>2, <2>2, <2>3, <2>4 DEF Granted
    <2>8. ASSUME NEW r \in Sources, pending'[r] # 0
          PROVE  log'[pending'[r]].source = r /\ log'[pending'[r]].grants = 0
      <3>1. r # s /\ pending'[r] = pending[r] /\ pending[r] \in DOMAIN log
        BY <1>2, <2>2, <2>8
      <3>2. log[pending[r]].source = r /\ log[pending[r]].grants = 0
        BY <2>8, <3>1 DEF OpenChallenges
      <3>3. pending[r] # id
        BY <2>6, <3>1, <3>2
      <3> QED BY <2>4, <3>1, <3>2, <3>3 DEF Granted
    <2>9. OneSessionPerChallenge'
      <3>1. log'[id].grants = 1 /\ DOMAIN log' = DOMAIN log
            /\ \A i \in DOMAIN log : i # id => log'[i] = log[i]
        BY <2>4, <2>6 DEF Granted
      <3> QED BY <3>1 DEF OneSessionPerChallenge, OpenChallenges
    <2> QED BY <1>1, <2>2, <2>5, <2>7, <2>8, <2>9 DEF OpenChallenges
  <1>9. CASE Disconnect
    BY <1>3, <1>9 DEF Disconnect
  <1>10. CASE ProtectControl \/ ProtectMedia \/ UnprotectControl \/ UnprotectMedia
    BY <1>3, <1>10
       DEF ProtectControl, ProtectMedia, UnprotectControl, UnprotectMedia, Protect, Unprotect
  <1>11. CASE \E c \in Channels : Rejected(c)
    BY <1>3, <1>11 DEF Rejected
  <1>12. CASE PairBegin \/ ReceiveCommit \/ VerifyPeer
    BY <1>3, <1>12 DEF PairBegin, ReceiveCommit, VerifyPeer, sessionVars
  <1>13. CASE CreateTemp \/ WriteTemp \/ FlushTemp \/ MoveTemp \/ SaveFails \/ Erase
    BY <1>3, <1>13
       DEF CreateTemp, WriteTemp, FlushTemp, MoveTemp, SaveFails, Erase, Store, sessionVars
  <1>14. CASE UNCHANGED vars
    BY <1>3, <1>14 DEF vars, sessionVars
  <1> QED BY <1>4, <1>5, <1>6, <1>7, <1>8, <1>9, <1>10, <1>11, <1>12, <1>13, <1>14 DEF Next

LEMMA PairingNext == IInv /\ [Next]_vars => PairingInv'
  <1> SUFFICES ASSUME IInv, [Next]_vars PROVE PairingInv'
    OBVIOUS
  <1>1. now + PairingLife \in Times /\ 0 \in Times
    BY TimeFacts DEF IInv, AttemptInv
  <1>2. PairingInv /\ MaxPairings \in Nat
    BY Constants DEF IInv
  <1>3. CASE UNCHANGED pairVars
    BY <1>2, <1>3 DEF PairingInv, pairVars
  <1>4. CASE PairBegin
    BY <1>1, <1>2, <1>4 DEF PairBegin, PairingInv
  <1>5. CASE ReceiveCommit
    BY <1>2, <1>5 DEF ReceiveCommit, Agreement, PairingInv
  <1>6. CASE VerifyPeer
    BY <1>2, <1>6 DEF VerifyPeer, PairingInv
  <1>7. CASE Crash
    BY <1>1, <1>2, <1>7 DEF Crash, NoServer, PairingInv
  <1>8. \/ PairBegin \/ ReceiveCommit \/ VerifyPeer \/ Crash
        \/ UNCHANGED pairVars
    BY DEF Next, vars, Tick, Disconnect, BeginAuthentication, Unsolicited, FinishWrong,
           FinishRight, ProtectControl, ProtectMedia, UnprotectControl, UnprotectMedia,
           Protect, Unprotect, Rejected, CreateTemp, WriteTemp, FlushTemp, MoveTemp,
           SaveFails, Erase, Store
  <1> QED BY <1>3, <1>4, <1>5, <1>6, <1>7, <1>8

LEMMA StoreNext == IInv /\ [Next]_vars => StoreInv'
  <1> SUFFICES ASSUME IInv, [Next]_vars PROVE StoreInv'
    OBVIOUS
  <1>1. /\ StoreInv /\ pairings \in 0..MaxPairings /\ NoFile \in Files
        /\ NoFile.state = "none"
    BY Constants DEF IInv, PairingInv, NoFile, Files
  <1>2. CASE UNCHANGED storeVars
    BY <1>1, <1>2 DEF StoreInv, RecordLoadable, storeVars
  <1>3. CASE VerifyPeer
    BY <1>1, <1>3 DEF VerifyPeer, StoreInv, RecordLoadable
  <1>4. CASE CreateTemp
    BY <1>1, <1>4 DEF CreateTemp, SaveStep, StoreInv, RecordLoadable, Files
  <1>5. CASE WriteTemp
    BY <1>1, <1>5 DEF WriteTemp, SaveStep, StoreInv, RecordLoadable, Files
  <1>6. CASE FlushTemp
    BY <1>1, <1>6 DEF FlushTemp, SaveStep, StoreInv, RecordLoadable, Files
  <1>7. CASE MoveTemp
    BY <1>1, <1>7 DEF MoveTemp, SaveStep, StoreInv, RecordLoadable
  <1>8. CASE SaveFails
    BY <1>1, <1>8 DEF SaveFails, StoreInv, RecordLoadable
  <1>9. CASE Erase
    BY <1>1, <1>9 DEF Erase, StoreInv, RecordLoadable
  <1>10. CASE Crash
    BY <1>1, <1>10 DEF Crash, PowerLoss, StoreInv, RecordLoadable, Files
  <1>11. \/ VerifyPeer \/ CreateTemp \/ WriteTemp \/ FlushTemp \/ MoveTemp \/ SaveFails
         \/ Erase \/ Crash \/ UNCHANGED storeVars
    BY DEF Next, vars, Tick, Disconnect, BeginAuthentication, Unsolicited, FinishWrong,
           FinishRight, ProtectControl, ProtectMedia, UnprotectControl, UnprotectMedia,
           Protect, Unprotect, Rejected, PairBegin, ReceiveCommit
  <1> QED BY <1>2, <1>3, <1>4, <1>5, <1>6, <1>7, <1>8, <1>9, <1>10, <1>11

-----------------------------------------------------------------------------
(* A counter that is advanced after its number was appended *)
LEMMA NextNumber ==
  ASSUME NEW q, NEW counter, Numbers(q, counter), ~counter.exhausted
  PROVE  Numbers(Append(q, counter.next), Advance(counter))
  <1>1. /\ q \in Seq(Nat) /\ Len(q) \in Nat /\ Len(q) = counter.next
        /\ \A i \in 1..Len(q) : q[i] = i - 1
        /\ counter \in Counters /\ counter.next \in 0..(MaxRecords - 1)
    BY DEF Numbers, Counters
  <1>2. /\ Append(q, counter.next) \in Seq(Nat)
        /\ Len(Append(q, counter.next)) = Len(q) + 1
        /\ \A i \in 1..(Len(q) + 1) : Append(q, counter.next)[i] = i - 1
    BY <1>1
  <1>3. /\ Advance(counter) \in Counters
        /\ ~Advance(counter).exhausted => Advance(counter).next = counter.next + 1
    <2>1. CASE counter.next + 1 >= MaxRecords
      BY <1>1, <2>1 DEF Advance, Counters
    <2>2. CASE ~(counter.next + 1 >= MaxRecords)
      <3>1. counter.next + 1 \in 0..(MaxRecords - 1)
        BY <1>1, <2>2, Constants
      <3>2. Advance(counter) = [counter EXCEPT !.next = @ + 1]
        BY <2>2 DEF Advance
      <3> QED BY <1>1, <3>1, <3>2 DEF Counters
    <2> QED BY <2>1, <2>2
  <1> QED BY <1>1, <1>2, <1>3 DEF Numbers

LEMMA NoNumber ==
  /\ [next |-> 0, exhausted |-> FALSE] \in Counters
  /\ Numbers(<<>>, [next |-> 0, exhausted |-> FALSE])
  <1>1. [next |-> 0, exhausted |-> FALSE] \in Counters
    BY Constants DEF Counters
  <1> QED BY <1>1 DEF Numbers

LEMMA RecordNext == IInv /\ [Next]_vars => RecordInv'
  <1> SUFFICES ASSUME IInv, [Next]_vars PROVE RecordInv'
    OBVIOUS
  <1>1. RecordInv
    BY DEF IInv
  <1>2. CASE UNCHANGED <<out, in, used, accepted>>
    BY <1>1, <1>2 DEF RecordInv
  <1>3. CASE NoSession
    BY <1>3, NoNumber DEF NoSession, RecordInv
  <1>4. ASSUME NEW c \in Channels, Protect(c) PROVE RecordInv'
    <2>1. /\ ~out[c].exhausted /\ used' = [used EXCEPT ![c] = Append(@, out[c].next)]
          /\ out' = [out EXCEPT ![c] = Advance(@)] /\ UNCHANGED <<in, accepted>>
      BY <1>4 DEF Protect, Usable
    <2>2. /\ Numbers(used[c], out[c]) /\ used[c] \in Seq(Nat) /\ Len(used[c]) \in Nat
          /\ Len(accepted[c]) \in Nat /\ out[c].next \in Nat
      BY <1>1 DEF RecordInv, Numbers, Counters
    <2>3. /\ Numbers(used'[c], out'[c]) /\ used'[c] \in Seq(Nat) /\ out'[c] \in Counters
      <3>1. used'[c] = Append(used[c], out[c].next) /\ out'[c] = Advance(out[c])
        BY <1>1, <2>1 DEF RecordInv
      <3>2. Numbers(used'[c], out'[c])
        BY <2>1, <2>2, <3>1, NextNumber
      <3> QED BY <3>2 DEF Numbers
    <2>4. Len(used'[c]) = Len(used[c]) + 1
      BY <1>1, <2>1, <2>2 DEF RecordInv
    <2>5. \A d \in Channels : d # c => used'[d] = used[d] /\ out'[d] = out[d]
      BY <1>1, <2>1 DEF RecordInv
    <2>6. used' \in [Channels -> Seq(Nat)] /\ out' \in [Channels -> Counters]
      BY <1>1, <2>1, <2>3 DEF RecordInv
    <2>7. ASSUME NEW d \in Channels
          PROVE  Numbers(used'[d], out'[d]) /\ Len(accepted'[d]) <= Len(used'[d])
      BY <1>1, <2>1, <2>2, <2>3, <2>4, <2>5 DEF RecordInv
    <2> QED BY <1>1, <2>1, <2>6, <2>7 DEF RecordInv
  <1>5. ASSUME NEW c \in Channels, Unprotect(c) PROVE RecordInv'
    <2>1. /\ ~in[c].exhausted /\ in[c].next \in Range(used[c])
          /\ accepted' = [accepted EXCEPT ![c] = Append(@, in[c].next)]
          /\ in' = [in EXCEPT ![c] = Advance(@)] /\ UNCHANGED <<out, used>>
      BY <1>5 DEF Unprotect, Usable, InTurn
    <2>2. /\ Numbers(accepted[c], in[c]) /\ Numbers(used[c], out[c])
          /\ accepted[c] \in Seq(Nat) /\ Len(accepted[c]) \in Nat
          /\ used[c] \in Seq(Nat) /\ Len(used[c]) \in Nat
          /\ in[c].next \in Nat /\ Len(accepted[c]) = in[c].next
      BY <1>1, <2>1 DEF RecordInv, Numbers, Counters
    <2>3. Len(accepted[c]) + 1 <= Len(used[c])
      <3>1. PICK i \in 1..Len(used[c]) : used[c][i] = in[c].next
        <4>1. DOMAIN used[c] = 1..Len(used[c])
          BY <2>2
        <4> QED BY <2>1, <4>1 DEF Range
      <3>2. used[c][i] = i - 1
        BY <2>2, <3>1 DEF Numbers
      <3> QED BY <2>2, <3>1, <3>2
    <2>4. /\ Numbers(accepted'[c], in'[c]) /\ accepted'[c] \in Seq(Nat)
          /\ in'[c] \in Counters
      BY <1>1, <2>1, <2>2, NextNumber DEF RecordInv, Numbers
    <2>5. Len(accepted'[c]) = Len(accepted[c]) + 1
      BY <1>1, <2>1, <2>2 DEF RecordInv
    <2>6. \A d \in Channels : d # c => accepted'[d] = accepted[d] /\ in'[d] = in[d]
      BY <1>1, <2>1 DEF RecordInv
    <2>7. accepted' \in [Channels -> Seq(Nat)] /\ in' \in [Channels -> Counters]
      BY <1>1, <2>1, <2>4 DEF RecordInv
    <2>8. ASSUME NEW d \in Channels
          PROVE  Numbers(accepted'[d], in'[d]) /\ Len(accepted'[d]) <= Len(used'[d])
      BY <1>1, <2>1, <2>3, <2>4, <2>5, <2>6 DEF RecordInv
    <2> QED BY <1>1, <2>1, <2>7, <2>8 DEF RecordInv
  <1>6. \/ \E c \in Channels : Protect(c) \/ Unprotect(c)
        \/ NoSession \/ UNCHANGED <<out, in, used, accepted>>
    BY DEF Channels, Next, vars, sessionVars, Tick, Disconnect, Crash, BeginAuthentication,
           Unsolicited, FinishWrong, FinishRight, CreateSessionProtector, ProtectControl,
           ProtectMedia, UnprotectControl, UnprotectMedia, Rejected, PairBegin, ReceiveCommit,
           VerifyPeer, CreateTemp, WriteTemp, FlushTemp, MoveTemp, SaveFails, Erase, Store
  <1> QED BY <1>2, <1>3, <1>4, <1>5, <1>6

-----------------------------------------------------------------------------
LEMMA InitInv == Init => IInv
  <1> SUFFICES ASSUME Init PROVE IInv
    OBVIOUS
  <1>1. 0 \in 0..MaxTime /\ 0 \in Times /\ 1 \in 0..MaxPairings /\ 0 \in 0..MaxPairings
    BY Constants, TimeFacts
  <1>2. AttemptInv
    BY <1>1, NothingBegun DEF Init, AttemptInv
  <1>3. OpenChallenges
    BY <1>1 DEF Init, OpenChallenges, OneSessionPerChallenge
  <1>4. PairingInv
    BY <1>1 DEF Init, NoServer, PairingInv
  <1>5. StoreInv
    BY <1>1 DEF Init, NoFile, StoreInv, Files, RecordLoadable
  <1>6. RecordInv
    BY NoNumber DEF Init, RecordInv
  <1> QED BY <1>2, <1>3, <1>4, <1>5, <1>6 DEF IInv

LEMMA Invariance == Spec => []IInv
  <1>1. IInv /\ [Next]_vars => IInv'
    BY AttemptNext, PairingNext, StoreNext, RecordNext DEF IInv
  <1> QED BY InitInv, <1>1, PTL DEF Spec

(* TypeOK and OneSessionPerChallenge: charges and challenges name attempts   *)
(* that were made, no counter passes kMaximumSessionRecordsPerChannel, and   *)
(* a challenge (StoredSessionSecurity::finishAuthentication) grants at most  *)
(* one session, whatever is repeated, replaced or pending at other sources.  *)
THEOREM ChallengesSafe == Spec => []ChallengeInv
  <1>1. IInv => ChallengeInv
    BY DEF IInv, AttemptInv, OpenChallenges, PairingInv, StoreInv, RecordInv, Policy,
           Charges, Cooldowns, ChallengeInv, TypeOK, Attempts
  <1> QED BY Invariance, <1>1, PTL

(* The attempt policy (rate_limiter.cpp): no stretch of time shorter than a  *)
(* cooldown holds more failing attempts than the limits allow, of a source   *)
(* or of all, and successes cost nobody anything.                            *)
THEOREM PolicyHolds == Spec => []PolicyInv
  <1>1. ASSUME IInv PROVE GuessesBounded
    <2>1. /\ Bounded(log) /\ now \in 0..MaxTime
          /\ \A i \in DOMAIN log : log[i].source \in Sources
      <3>1. log \in Seq(Attempts) /\ Bounded(log) /\ now \in 0..MaxTime
        BY <1>1 DEF IInv, AttemptInv, Policy
      <3>2. \A i \in DOMAIN log : log[i] \in Attempts
        BY <3>1
      <3> QED BY <3>1, <3>2 DEF Attempts
    <2>2. \A s, t : Ungranted(s, t) = FailingOf(log, s, t)
      BY DEF Ungranted, FailingOf, Failing, By
    <2>3. \A t : UNION {Ungranted(s, t) : s \in Sources} = Failing(log, t)
      BY <2>1, <2>2 DEF FailingOf, Failing, By
    <2>4. 0..now \subseteq Nat
      BY <2>1
    <2> QED BY <2>1, <2>2, <2>3, <2>4, Zenon DEF GuessesBounded, Bounded
  <1>2. ASSUME IInv PROVE SuccessIsFree
    <2> SUFFICES ASSUME \A i \in DOMAIN log : log[i].grants > 0 \/ log[i].started + Window < now,
                        NEW s \in Sources
                 PROVE  Allowed(s)
      BY DEF SuccessIsFree
    <2>1. /\ Pruned.charged \subseteq DOMAIN log
          /\ Policy(log, Pruned.charged, Pruned.peers, Pruned.global, now)
          /\ log \in Seq(Attempts) /\ now \in Nat
      BY <1>2, PruneFacts, TimeFacts DEF IInv, AttemptInv, Policy, Charges
    <2>2. \A i \in Pruned.charged : log[i].started + Window >= now
      BY DEF Pruned
    <2>3. Pruned.charged = {}
      <3> SUFFICES ASSUME NEW i \in Pruned.charged PROVE FALSE
        OBVIOUS
      <3>1. i \in DOMAIN log /\ log[i].grants = 0
        BY <2>1 DEF Policy, Charges
      <3>2. log[i].started \in Nat
        <4>1. log[i] \in Attempts
          BY <2>1, <3>1
        <4> QED BY <4>1, TimesNat DEF Attempts
      <3>3. \A m \in Nat : ~(m + Window < now /\ m + Window >= now)
        BY <2>1, Constants
      <3> QED BY <2>2, <3>1, <3>2, <3>3
    <2>4. Pruned.global = 0 /\ Pruned.peers[s] = 0
      <3>1. By(log, Pruned.charged, s) = {}
        BY <2>3 DEF By
      <3> QED BY <2>1, <2>3, <3>1 DEF Policy, Cooldowns, Cooling
    <2>5. Of(Pruned.charged, s) = {}
      BY <2>3 DEF Of
    <2>6. Cardinality({}) = 0 /\ 0 < MaxGlobal /\ 0 < MaxPerSource
      BY FS_EmptySet, Constants
    <2> QED BY <2>3, <2>4, <2>5, <2>6 DEF Allowed
  <1> QED BY Invariance, <1>1, <1>2, PTL DEF PolicyInv

(* SessionProtector: every number is used once, and the PC accepts the       *)
(* phone's records in their order, each once and without a gap.              *)
THEOREM RecordsOrdered == Spec => []RecordsInOrderOnce
  <1>1. ASSUME NEW a \in Seq(Nat), NEW u \in Seq(Nat), Len(a) <= Len(u),
               \A i \in 1..Len(a) : a[i] = i - 1, \A i \in 1..Len(u) : u[i] = i - 1
        PROVE  IsInjective(u) /\ IsPrefix(a, u)
    <2>1. IsInjective(u)
      <3>1. DOMAIN u = 1..Len(u) /\ Len(u) \in Nat
        OBVIOUS
      <3>2. \A i, j \in 1..Len(u) : i - 1 = j - 1 => i = j
        BY <3>1
      <3> QED BY <1>1, <3>1, <3>2 DEF IsInjective
    <2>2. SubSeq(a, 1, Len(a)) = SubSeq(u, 1, Len(a))
      BY <1>1
    <2> QED BY <1>1, <2>1, <2>2 DEF IsPrefix
  <1>2. IInv => RecordsInOrderOnce
    BY <1>1 DEF IInv, RecordInv, Numbers, RecordsInOrderOnce
  <1> QED BY Invariance, <1>2, PTL

(* PairingStore::save: whenever the process dies or the power goes, the      *)
(* record on disk is absent or whole.                                        *)
THEOREM RecordSurvives == Spec => []RecordLoadable
  BY Invariance, PTL DEF IInv, StoreInv

=============================================================================
