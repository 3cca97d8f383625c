----------------------------- MODULE FrameRingProofs -----------------------------
(***************************************************************************)
(* Safety of FrameRing for every number of cameras, viewers and producers, *)
(* every number of slots and every way a frame is copied.                  *)
(***************************************************************************)
EXTENDS FrameRing, FiniteSetTheorems, TLAPS

LEMMA SlotType == \A n \in Int : Slot(n) \in SlotIds
  BY SizesAssumption DEF Slot, SlotIds

LEMMA NoBytesType == NoFrame \in Frames /\ NoBytes \in Bytes
  BY DEF NoFrame, NoBytes, Bytes, Frames

LEMMA CurrentType ==
  ASSUME TypeOK, NEW p \in Processes
  PROVE  Current(p) \in Frames
  BY DEF TypeOK, Current, Frames

LEMMA PartType ==
  ASSUME NEW b \in Bytes, NEW x \in Parts, NEW f \in Frames
  PROVE  [b EXCEPT ![x] = f] \in Bytes
  BY DEF Bytes

LEMMA InitType == Init => TypeOK
  <1> SUFFICES ASSUME Init PROVE TypeOK
    OBVIOUS
  <1>1. magic \in BOOLEAN
    BY Zenon DEF Init
  <1>2. existed \in [Processes -> BOOLEAN] /\ todo \in [Processes -> SUBSET Parts]
    BY DEF Init
  <1>3. data \in [SlotIds -> Bytes] /\ buf \in [Processes -> Bytes]
    BY NoBytesType DEF Init
  <1> QED BY <1>1, <1>2, <1>3 DEF Init, TypeOK, Places

(* The types of what a return resets, and of what a closed ring leaves. *)
LEMMA ReturnedType ==
  ASSUME TypeOK, NEW p \in Processes, Returned(p)
  PROVE  /\ seq' \in [Processes -> Nat] /\ mark' \in [Processes -> Nat]
         /\ todo' \in [Processes -> SUBSET Parts]
         /\ buf' \in [Processes -> Bytes] /\ low' \in [Processes -> Nat]
  BY NoBytesType DEF TypeOK, Returned

LEMMA ClosedType ==
  ASSUME TypeOK, NEW p \in Processes, Closed(p)
  PROVE  /\ existed' \in [Processes -> BOOLEAN] /\ myGen' \in [Processes -> Nat]
         /\ seq' \in [Processes -> Nat] /\ mark' \in [Processes -> Nat]
         /\ todo' \in [Processes -> SUBSET Parts]
         /\ buf' \in [Processes -> Bytes] /\ low' \in [Processes -> Nat]
  BY ReturnedType DEF TypeOK, Closed

LEMMA LeaveType ==
  ASSUME TypeOK, NEW p \in Processes, Leave(p)
  PROVE  /\ handles' \subseteq Processes
         /\ magic' \in BOOLEAN /\ consumerCount' \in Nat /\ consumerGen' \in Nat
         /\ owner' \in Producers \cup {NoOne} /\ writeSeq' \in Nat
         /\ slotSeq' \in [SlotIds -> Nat] /\ data' \in [SlotIds -> Bytes]
         /\ existed' \in [Processes -> BOOLEAN] /\ myGen' \in [Processes -> Nat]
         /\ seq' \in [Processes -> Nat] /\ mark' \in [Processes -> Nat]
         /\ todo' \in [Processes -> SUBSET Parts]
         /\ buf' \in [Processes -> Bytes] /\ low' \in [Processes -> Nat]
  <1>1. Closed(p) /\ handles' \subseteq Processes
    BY DEF Leave, TypeOK
  <1>2. CASE Zeroed
    <2>1. magic' \in BOOLEAN
      BY <1>2, Zenon DEF Zeroed
    <2> QED BY <1>1, <1>2, <2>1, ClosedType, NoBytesType DEF Zeroed
  <1>3. CASE UNCHANGED ringVars
    BY <1>1, <1>3, ClosedType DEF ringVars, headerVars, slotVars, TypeOK
  <1> QED BY <1>2, <1>3 DEF Leave

LEMMA NextType == TypeOK /\ [Next]_vars => TypeOK'
  <1> SUFFICES ASSUME TypeOK, [Next]_vars PROVE TypeOK'
    OBVIOUS
  <1> USE DEF TypeOK, headerVars, slotVars, ringVars, callVars, localVars, Processes, Readers
  <1>1. ASSUME NEW p \in Processes, Map(p) PROVE TypeOK'
    <2>1. existed' \in [Processes -> BOOLEAN]
      BY <1>1 DEF Map
    <2> QED BY <1>1, <2>1 DEF Map, Goto, Places
  <1>2. ASSUME NEW p \in Processes, GuardTimeout(p) PROVE TypeOK'
    BY <1>2, LeaveType DEF GuardTimeout, Goto, Places
  <1>3. ASSUME NEW p \in Processes, CreateLock(p) PROVE TypeOK'
    <2>1. CASE Leave(p) /\ Goto(p, "closed") /\ UNCHANGED guard
      BY <1>3, <2>1, LeaveType DEF CreateLock, Goto, Places
    <2>2. CASE ~(Leave(p) /\ Goto(p, "closed") /\ UNCHANGED guard)
      BY <1>3, <2>2 DEF CreateLock, Goto, Places
    <2> QED BY <2>1, <2>2
  <1>4. ASSUME NEW p \in Processes, CreateAttach(p) PROVE TypeOK'
    <2>0. magic' \in BOOLEAN
      BY <1>4, Zenon DEF CreateAttach
    <2>1. /\ consumerCount' \in Nat /\ consumerGen' \in Nat
          /\ owner' \in Producers \cup {NoOne} /\ writeSeq' \in Nat
      BY <1>4 DEF CreateAttach
    <2>5. slotSeq' = [s \in SlotIds |-> 0] \/ slotSeq' = slotSeq
      BY <1>4, Zenon DEF CreateAttach
    <2>6. slotSeq' \in [SlotIds -> Nat]
      BY <2>5
    <2>2. data' \in [SlotIds -> Bytes]
      BY <1>4, PartType, NoBytesType, SizesAssumption DEF CreateAttach
    <2>3. existed' \in [Processes -> BOOLEAN] /\ myGen' \in [Processes -> Nat]
      BY <1>4, <2>1 DEF CreateAttach
    <2>4. Returned(p)
      BY <1>4 DEF CreateAttach
    <2> QED BY <1>4, <2>0, <2>1, <2>2, <2>3, <2>4, <2>6, ReturnedType DEF CreateAttach, Goto, Places, Attached
  <1>5. ASSUME NEW p \in Processes, Open(p) PROVE TypeOK'
    <2>1. CASE Leave(p) /\ Goto(p, "closed")
      BY <1>5, <2>1, LeaveType DEF Open, Goto, Places
    <2>2. CASE ~(Leave(p) /\ Goto(p, "closed"))
      <3>1. /\ owner' = IF p \in Producers THEN p ELSE owner
            /\ myGen' = [myGen EXCEPT ![p] = consumerGen]
            /\ Goto(p, "attached")
            /\ existed' = [existed EXCEPT ![p] = FALSE]
            /\ UNCHANGED <<handles, magic, consumerCount, consumerGen, writeSeq,
                           slotVars, callVars, guard, minted, opens>>
        BY <1>5, <2>2, Zenon DEF Open
      <3>2. existed' \in [Processes -> BOOLEAN]
        BY <3>1
      <3> QED BY <3>1, <3>2 DEF Goto, Places, Attached
    <2> QED BY <2>1, <2>2
  <1>6. ASSUME NEW p \in Processes, Withdraw(p) PROVE TypeOK'
    BY <1>6 DEF Withdraw, Goto, Places
  <1>7. ASSUME NEW p \in Processes, Unmap(p) PROVE TypeOK'
    BY <1>7, LeaveType DEF Unmap, Goto, Places
  <1>8. ASSUME NEW p \in Processes, Die(p) PROVE TypeOK'
    BY <1>8, LeaveType DEF Die, Goto, Places
  <1>9. ASSUME NEW p \in Producers, WriteLock(p) PROVE TypeOK'
    BY <1>9 DEF WriteLock, Goto, Places, Writing
  <1>10. ASSUME NEW p \in Producers, WriteBegin(p) PROVE TypeOK'
    <2>1. Slot(writeSeq) \in SlotIds
      BY SlotType
    <2>2. WritingSeq(slotSeq[Slot(writeSeq)]) \in Nat
      BY <2>1 DEF WritingSeq
    <2> QED BY <1>10, <2>1, <2>2 DEF WriteBegin, Goto, Places, Writing
  <1>11. ASSUME NEW p \in Producers, WriteRefused(p) PROVE TypeOK'
    BY <1>11, ReturnedType DEF WriteRefused, Unlock, Goto, Places, Attached
  <1>12. ASSUME NEW p \in Producers, NEW part \in Parts, Fill(p, part) PROVE TypeOK'
    <2>1. Slot(seq[p]) \in SlotIds /\ Current(p) \in Frames
      BY SlotType, CurrentType
    <2>2. data' \in [SlotIds -> Bytes]
      BY <1>12, <2>1, PartType DEF Fill
    <2> QED BY <1>12, <2>2 DEF Fill
  <1>13. ASSUME NEW p \in Producers, WriteStable(p) PROVE TypeOK'
    <2>1. Slot(seq[p]) \in SlotIds
      BY SlotType
    <2> QED BY <1>13, <2>1 DEF WriteStable, Goto, Places, Writing
  <1>14. ASSUME NEW p \in Producers, WriteAbandoned(p) PROVE TypeOK'
    BY <1>14, ReturnedType DEF WriteAbandoned, Unlock, Goto, Places, Attached
  <1>15. ASSUME NEW p \in Producers, WriteAnnounce(p) PROVE TypeOK'
    BY <1>15, ReturnedType DEF WriteAnnounce, Unlock, Goto, Places, Attached
  <1>16. ASSUME NEW p \in Readers, ReadBegin(p) PROVE TypeOK'
    BY <1>16 DEF ReadBegin, Goto, Places, Attached
  <1>17. ASSUME NEW p \in Readers, ReadSeq(p) PROVE TypeOK'
    BY <1>17 DEF ReadSeq, Goto, Places, Attached
  <1>18. ASSUME NEW p \in Readers, ReadBefore(p) PROVE TypeOK'
    <2>1. ReadSlot(p) \in SlotIds
      BY SlotType DEF ReadSlot
    <2> QED BY <1>18, <2>1 DEF ReadBefore, Goto, Places, Attached
  <1>19. ASSUME NEW p \in Readers, ReadMeta(p) PROVE TypeOK'
    <2>1. ReadSlot(p) \in SlotIds
      BY SlotType DEF ReadSlot
    <2>2. data[ReadSlot(p)][Meta] \in Frames
      BY <2>1, SizesAssumption DEF Bytes
    <2>3. buf' \in [Processes -> Bytes]
      BY <1>19, <2>2, PartType, SizesAssumption DEF ReadMeta
    <2> QED BY <1>19, <2>3 DEF ReadMeta, Goto, Places, Attached
  <1>20. ASSUME NEW p \in Readers, NEW part \in Parts, ReadPart(p, part) PROVE TypeOK'
    <2>1. ReadSlot(p) \in SlotIds
      BY SlotType DEF ReadSlot
    <2>2. data[ReadSlot(p)][part] \in Frames
      BY <2>1 DEF Bytes
    <2>3. buf' \in [Processes -> Bytes]
      BY <1>20, <2>2, PartType DEF ReadPart
    <2> QED BY <1>20, <2>3 DEF ReadPart
  <1>21. ASSUME NEW p \in Readers, ReadAfter(p) PROVE TypeOK'
    BY <1>21 DEF ReadAfter, Moves, Goto, Places, Attached
  <1>22. ASSUME NEW p \in Readers, ReadRetry(p) PROVE TypeOK'
    <2>1. buf' \in [Processes -> Bytes]
      BY <1>22, NoBytesType DEF ReadRetry
    <2> QED BY <1>22, <2>1 DEF ReadRetry, Goto, Places, Attached
  <1>23. ASSUME NEW p \in Readers, ReadNothing(p) PROVE TypeOK'
    BY <1>23, ReturnedType DEF ReadNothing, ReadReturn, Goto, Places, Attached
  <1>24. ASSUME NEW p \in Readers, ReadFrame(p) PROVE TypeOK'
    BY <1>24, ReturnedType DEF ReadFrame, ReadReturn, Goto, Places, Attached
  <1>25. ASSUME UNCHANGED vars PROVE TypeOK'
    BY <1>25 DEF vars
  <1> QED
    BY <1>1, <1>2, <1>3, <1>4, <1>5, <1>6, <1>7, <1>8, <1>9, <1>10, <1>11,
       <1>12, <1>13, <1>14, <1>15, <1>16, <1>17, <1>18, <1>19, <1>20, <1>21,
       <1>22, <1>23, <1>24, <1>25
    DEF Next, Lifecycle, Write, Read

(* Every variable keeps its type; in particular every slot a process         *)
(* addresses is one of the ring's.                                           *)
THEOREM TypeCorrect == Spec => []TypeOK
  <1>1. Init => TypeOK
    BY InitType
  <1>2. TypeOK /\ [Next]_vars => TypeOK'
    BY NextType
  <1> QED BY <1>1, <1>2, PTL DEF Spec
-----------------------------------------------------------------------------
(* The single-producer claim.  Whoever is past Map keeps the section alive;   *)
(* the section is initialised by the one camera that created it, before      *)
(* anyone can have claimed it.                                               *)
Creating(c) == at[c] \in {"mapped", "create"} /\ ~existed[c]

ClaimInv ==
    /\ \A p \in Processes : at[p] \notin {"closed", "dead"} => p \in handles
    /\ \A p \in Processes : at[p] = "create" => p \in Cameras
    /\ handles = {} => ~magic
    /\ \A c \in Cameras : Creating(c) => ~magic
    /\ \A c, d \in Cameras : Creating(c) /\ Creating(d) => c = d
    /\ \A p \in Producers : HoldsClaim(p) => owner = p /\ magic

(* When p leaves, the others keep what they had. *)
LEMMA LeaveClaim ==
  ASSUME TypeOK, ClaimInv, NEW p \in Processes, NEW place \in {"closed", "dead"},
         Leave(p), Goto(p, place)
  PROVE  ClaimInv'
  <1> USE DEF TypeOK, Processes, Readers, Goto
  <1>1. /\ at' = [at EXCEPT ![p] = place] /\ handles' = handles \ {p}
        /\ existed' = [existed EXCEPT ![p] = FALSE]
    BY DEF Leave, Closed
  <1>2. CASE handles \subseteq {p}
    <2>1. magic' = FALSE
      BY <1>2 DEF Leave, Zeroed
    <2>2. \A q \in Processes : at'[q] \in {"closed", "dead"}
      BY <1>1, <1>2 DEF ClaimInv
    <2> QED BY <1>1, <2>1, <2>2 DEF ClaimInv, Creating, HoldsClaim, Writing
  <1>3. CASE ~(handles \subseteq {p})
    <2>1. magic' = magic /\ owner' = owner
      BY <1>3 DEF Leave, ringVars, headerVars
    <2>2. handles' # {}
      BY <1>1, <1>3
    <2>3. \A q \in Processes : q # p => at'[q] = at[q] /\ existed'[q] = existed[q]
      BY <1>1
    <2>4. at'[p] = place
      BY <1>1
    <2> QED BY <1>1, <2>1, <2>2, <2>3, <2>4 DEF ClaimInv, Creating, HoldsClaim, Writing
  <1> QED BY <1>2, <1>3

LEMMA NextClaim == TypeOK /\ ClaimInv /\ [Next]_vars => ClaimInv'
  <1> SUFFICES ASSUME TypeOK, ClaimInv, [Next]_vars PROVE ClaimInv'
    OBVIOUS
  <1>a. /\ at \in [Processes -> Places] /\ existed \in [Processes -> BOOLEAN]
        /\ handles \subseteq Processes
    BY DEF TypeOK
  <1> USE ProcessesAssumption
      DEF headerVars, slotVars, ringVars, callVars, localVars, Processes, Readers, Goto
  <1>1. ASSUME NEW p \in Processes, Map(p) PROVE ClaimInv'
    BY <1>1, <1>a DEF ClaimInv, Creating, HoldsClaim, Writing, Map
  <1>2. ASSUME NEW p \in Processes, GuardTimeout(p) PROVE ClaimInv'
    BY <1>2, LeaveClaim DEF GuardTimeout
  <1>3. ASSUME NEW p \in Processes, CreateLock(p) PROVE ClaimInv'
    <2>1. CASE Leave(p) /\ Goto(p, "closed")
      BY <2>1, LeaveClaim
    <2>2. CASE ~(Leave(p) /\ Goto(p, "closed"))
      BY <1>3, <1>a, <2>2 DEF ClaimInv, Creating, HoldsClaim, Writing, CreateLock
    <2> QED BY <2>1, <2>2
  <1>4. ASSUME NEW p \in Processes, CreateAttach(p) PROVE ClaimInv'
    BY <1>4, <1>a DEF ClaimInv, Creating, HoldsClaim, Writing, CreateAttach
  <1>5. ASSUME NEW p \in Processes, Open(p) PROVE ClaimInv'
    <2>1. CASE Leave(p) /\ Goto(p, "closed")
      BY <2>1, LeaveClaim
    <2>2. CASE ~(Leave(p) /\ Goto(p, "closed"))
      BY <1>5, <1>a, <2>2 DEF ClaimInv, Creating, HoldsClaim, Writing, Open, Usable, ClaimIsLive
    <2> QED BY <2>1, <2>2
  <1>6. ASSUME NEW p \in Processes, Withdraw(p) PROVE ClaimInv'
    BY <1>6, <1>a DEF ClaimInv, Creating, HoldsClaim, Writing, Withdraw
  <1>7. ASSUME NEW p \in Processes, Unmap(p) PROVE ClaimInv'
    BY <1>7, LeaveClaim DEF Unmap
  <1>8. ASSUME NEW p \in Processes, Die(p) PROVE ClaimInv'
    BY <1>8, LeaveClaim DEF Die
  <1>9. ASSUME NEW p \in Producers, WriteLock(p) PROVE ClaimInv'
    BY <1>9, <1>a DEF ClaimInv, Creating, HoldsClaim, Writing, WriteLock
  <1>10. ASSUME NEW p \in Producers, WriteBegin(p) PROVE ClaimInv'
    BY <1>10, <1>a DEF ClaimInv, Creating, HoldsClaim, Writing, WriteBegin
  <1>11. ASSUME NEW p \in Producers, WriteRefused(p) PROVE ClaimInv'
    BY <1>11, <1>a DEF ClaimInv, Creating, HoldsClaim, Writing, WriteRefused, Unlock
  <1>12. ASSUME NEW p \in Producers, NEW part \in Parts, Fill(p, part) PROVE ClaimInv'
    BY <1>12, <1>a DEF ClaimInv, Creating, HoldsClaim, Writing, Fill
  <1>13. ASSUME NEW p \in Producers, WriteStable(p) PROVE ClaimInv'
    BY <1>13, <1>a DEF ClaimInv, Creating, HoldsClaim, Writing, WriteStable
  <1>14. ASSUME NEW p \in Producers, WriteAbandoned(p) PROVE ClaimInv'
    BY <1>14, <1>a DEF ClaimInv, Creating, HoldsClaim, Writing, WriteAbandoned, Unlock
  <1>15. ASSUME NEW p \in Producers, WriteAnnounce(p) PROVE ClaimInv'
    BY <1>15, <1>a DEF ClaimInv, Creating, HoldsClaim, Writing, WriteAnnounce, Unlock
  <1>16. ASSUME NEW p \in Readers, ReadBegin(p) PROVE ClaimInv'
    BY <1>16, <1>a DEF ClaimInv, Creating, HoldsClaim, Writing, ReadBegin
  <1>17. ASSUME NEW p \in Readers, ReadSeq(p) PROVE ClaimInv'
    BY <1>17, <1>a DEF ClaimInv, Creating, HoldsClaim, Writing, ReadSeq
  <1>18. ASSUME NEW p \in Readers, ReadBefore(p) PROVE ClaimInv'
    BY <1>18, <1>a DEF ClaimInv, Creating, HoldsClaim, Writing, ReadBefore
  <1>19. ASSUME NEW p \in Readers, ReadMeta(p) PROVE ClaimInv'
    BY <1>19, <1>a DEF ClaimInv, Creating, HoldsClaim, Writing, ReadMeta
  <1>20. ASSUME NEW p \in Readers, NEW part \in Parts, ReadPart(p, part) PROVE ClaimInv'
    BY <1>20, <1>a DEF ClaimInv, Creating, HoldsClaim, Writing, ReadPart
  <1>21. ASSUME NEW p \in Readers, ReadAfter(p) PROVE ClaimInv'
    BY <1>21, <1>a DEF ClaimInv, Creating, HoldsClaim, Writing, ReadAfter, Moves, CopyStands
  <1>22. ASSUME NEW p \in Readers, ReadRetry(p) PROVE ClaimInv'
    BY <1>22, <1>a DEF ClaimInv, Creating, HoldsClaim, Writing, ReadRetry, Contended
  <1>23. ASSUME NEW p \in Readers, ReadNothing(p) PROVE ClaimInv'
    BY <1>23, <1>a DEF ClaimInv, Creating, HoldsClaim, Writing, ReadNothing, ReadReturn, Contended
  <1>24. ASSUME NEW p \in Readers, ReadFrame(p) PROVE ClaimInv'
    BY <1>24, <1>a DEF ClaimInv, Creating, HoldsClaim, Writing, ReadFrame, ReadReturn, Contended
  <1>25. ASSUME UNCHANGED vars PROVE ClaimInv'
    BY <1>25 DEF vars, ClaimInv, Creating, HoldsClaim
  <1> QED
    BY <1>1, <1>2, <1>3, <1>4, <1>5, <1>6, <1>7, <1>8, <1>9, <1>10, <1>11,
       <1>12, <1>13, <1>14, <1>15, <1>16, <1>17, <1>18, <1>19, <1>20, <1>21,
       <1>22, <1>23, <1>24, <1>25
    DEF Next, Lifecycle, Write, Read

(* Two live rings never both believe they may write, through deaths,         *)
(* reclaims and late closes, for any number of producers.                    *)
THEOREM OneProducer == Spec => []SingleProducer
  <1>1. Init => TypeOK /\ ClaimInv
    BY InitType DEF Init, ClaimInv, Creating, HoldsClaim, Writing, Processes, Readers
  <1>2. TypeOK /\ ClaimInv /\ [Next]_vars => TypeOK' /\ ClaimInv'
    BY NextType, NextClaim
  <1>3. ClaimInv => SingleProducer
    BY DEF ClaimInv, SingleProducer
  <1> QED BY <1>1, <1>2, <1>3, PTL DEF Spec

-----------------------------------------------------------------------------
(* The copy.  A camera that is attached is counted, so that no generation    *)
(* replaces the one it reads (CountInv); within a generation a slot's        *)
(* sequence only grows, is odd exactly while somebody may be writing and     *)
(* even only with one whole frame in the slot (SlotInv, Writer).  A reader's *)
(* copy agrees with the slot for as long as the sequence is the one it saw   *)
(* first (Reader).                                                           *)

(* The write guard is held in these places, and each place has its processes. *)
GuardInv ==
    /\ \A p \in Processes : at[p] \in Writing \cup {"create"} <=> guard = p
    /\ \A p \in Processes : at[p] \in Writing => p \in Producers
    /\ \A p \in Processes : at[p] \in Attached \ {"attached"} => p \in Readers

Present == {c \in Cameras : at[c] \in Attached}

(* create() reads the count under the guard and writes it later; in between  *)
(* a close without the guard can only lower it.                              *)
CountInv ==
    /\ \A c \in Cameras : at[c] \in Attached => magic
    /\ CamerasCounted
    /\ \A c \in Cameras :
         at[c] = "create" /\ existed[c] => magic /\ consumerCount <= seq[c]

(* A section that its creator has not initialised yet has no frames. *)
FreshInv ==
    /\ handles = {} => \A s \in SlotIds : data[s][Meta] = NoFrame
    /\ \A c \in Cameras : Creating(c) => \A s \in SlotIds : data[s][Meta] = NoFrame

Whole(bytes) == \A x \in Parts : bytes[x] = bytes[Meta]

(* An even slot is empty or holds a whole frame of the generation that is at *)
(* most one ahead of the announcements, and no older than the announced one. *)
SlotOk(s) ==
    slotSeq[s] % 2 = 0 /\ data[s][Meta] # NoFrame
        => /\ Whole(data[s])
           /\ data[s][Meta].gen = consumerGen
           /\ data[s][Meta].seq \in 1..writeSeq + 1
NumberOk(n) ==
    slotSeq[Slot(n - 1)] % 2 = 0
        => data[Slot(n - 1)][Meta] # NoFrame /\ n <= data[Slot(n - 1)][Meta].seq
SlotInv ==
    /\ \A s \in SlotIds : SlotOk(s)
    /\ \A n \in 1..writeSeq : NumberOk(n)

(* A producer inside writeFrame *)
Writer(p) ==
    /\ at[p] \in {"fill", "announce"} => seq[p] = writeSeq /\ myGen[p] = consumerGen
    /\ at[p] = "fill" => /\ mark[p] % 2 = 1 /\ slotSeq[Slot(seq[p])] = mark[p]
                         /\ \A x \in Parts \ todo[p] : data[Slot(seq[p])][x] = Current(p)
    /\ at[p] = "announce" => /\ slotSeq[Slot(seq[p])] % 2 = 0
                             /\ data[Slot(seq[p])][Meta] = Current(p)
WriterInv == \A p \in Producers : Writer(p)

(* A camera inside readLatest *)
Reader(c) ==
    /\ at[c] \notin Attached \ {"attached"} => low[c] = 0
    /\ at[c] \in {"readSeq", "readBefore", "readMeta", "copy"} => low[c] <= writeSeq
    /\ at[c] \in {"readBefore", "readMeta", "copy"} => seq[c] \in 1..writeSeq /\ low[c] <= seq[c]
    /\ at[c] \in {"readMeta", "copy"} => /\ mark[c] % 2 = 0
                                         /\ mark[c] <= slotSeq[ReadSlot(c)]
    /\ at[c] = "copy" /\ slotSeq[ReadSlot(c)] = mark[c]
          => \A x \in Parts \ todo[c] : buf[c][x] = data[ReadSlot(c)][x]
    /\ at[c] = "copy" => Meta \notin todo[c] /\ buf[c][Meta] # NoFrame
    /\ at[c] = "done" => Whole(buf[c])
ReaderInv == \A c \in Cameras : Reader(c)

IInv ==
    /\ TypeOK /\ ClaimInv /\ GuardInv /\ CountInv
    /\ FreshInv /\ SlotInv /\ WriterInv /\ ReaderInv

-----------------------------------------------------------------------------
(* A step of the ring is a step of one process. *)
Step(q) ==
    \/ Lifecycle(q)
    \/ q \in Producers /\ Write(q)
    \/ q \in Readers /\ Read(q)

LEMMA NextIsStep == Next => \E q \in Processes : Step(q)
  BY DEF Next, Step, Processes, Readers

(* The locals of r *)
Kept(r) ==
    /\ at'[r] = at[r] /\ existed'[r] = existed[r] /\ myGen'[r] = myGen[r]
    /\ seq'[r] = seq[r] /\ mark'[r] = mark[r] /\ todo'[r] = todo[r]
    /\ buf'[r] = buf[r] /\ low'[r] = low[r]

(* belong to r alone. *)
LEMMA OthersKept ==
  ASSUME TypeOK, NEW q \in Processes, Step(q), NEW r \in Processes, r # q
  PROVE  Kept(r)
  <1> USE DEF TypeOK, headerVars, slotVars, ringVars, callVars, localVars,
              Kept, Goto, Returned, Closed
  <1>l. ASSUME Leave(q), NEW place, Goto(q, place) PROVE Kept(r)
    BY <1>l DEF Leave
  <1>1. CASE Lifecycle(q)
    <2>1. CASE Map(q)
      BY <2>1 DEF Map
    <2>2. CASE GuardTimeout(q) \/ Unmap(q) \/ Die(q)
      BY <2>2, <1>l DEF GuardTimeout, Unmap, Die
    <2>3. CASE CreateLock(q)
      BY <2>3, <1>l DEF CreateLock
    <2>4. CASE CreateAttach(q)
      BY <2>4 DEF CreateAttach
    <2>5. CASE Open(q)
      BY <2>5, <1>l DEF Open
    <2>6. CASE Withdraw(q)
      BY <2>6 DEF Withdraw
    <2> QED BY <1>1, <2>1, <2>2, <2>3, <2>4, <2>5, <2>6 DEF Lifecycle
  <1>2. CASE Write(q)
    <2>1. CASE WriteLock(q)
      BY <2>1 DEF WriteLock
    <2>2. CASE WriteBegin(q)
      BY <2>2 DEF WriteBegin
    <2>3. CASE WriteRefused(q) \/ WriteAbandoned(q) \/ WriteAnnounce(q)
      BY <2>3 DEF WriteRefused, WriteAbandoned, WriteAnnounce, Unlock
    <2>4. CASE \E part \in Parts : Fill(q, part)
      BY <2>4 DEF Fill
    <2>5. CASE WriteStable(q)
      BY <2>5 DEF WriteStable
    <2> QED BY <1>2, <2>1, <2>2, <2>3, <2>4, <2>5 DEF Write
  <1>3. CASE Read(q)
    <2>1. CASE ReadBegin(q) \/ ReadSeq(q) \/ ReadBefore(q)
      BY <2>1 DEF ReadBegin, ReadSeq, ReadBefore
    <2>2. CASE ReadMeta(q)
      BY <2>2 DEF ReadMeta
    <2>3. CASE \E part \in Parts : ReadPart(q, part)
      BY <2>3 DEF ReadPart
    <2>4. CASE ReadAfter(q)
      BY <2>4 DEF ReadAfter, Moves
    <2>5. CASE ReadRetry(q)
      BY <2>5 DEF ReadRetry
    <2>6. CASE ReadNothing(q) \/ ReadFrame(q)
      BY <2>6 DEF ReadNothing, ReadFrame, ReadReturn
    <2> QED BY <1>3, <2>1, <2>2, <2>3, <2>4, <2>5, <2>6 DEF Read
  <1> QED BY <1>1, <1>2, <1>3 DEF Step

-----------------------------------------------------------------------------
(* The guard and the count. *)

(* q moves between places that keep the guard's invariant. *)
LEMMA GuardStep ==
  ASSUME TypeOK, ClaimInv, GuardInv, NEW q \in Processes, Step(q)
  PROVE  GuardInv'
  <1>k. \A r \in Processes : r # q => at'[r] = at[r]
    BY OthersKept DEF Kept
  <1>g. /\ \A p \in Processes : at[p] \in Writing \cup {"create"} <=> guard = p
        /\ \A p \in Processes : at[p] \in Writing => p \in Producers
        /\ \A p \in Processes : at[p] \in Attached \ {"attached"} => p \in Readers
    BY DEF GuardInv
  <1>p. /\ at \in [Processes -> Places] /\ NoOne \notin Processes
        /\ at[q] = "create" => q \in Cameras
    BY ProcessesAssumption DEF TypeOK, ClaimInv, Processes, Readers
  (* q stays outside the guard, or takes it, or gives it back. *)
  <1>1. ASSUME at[q] \notin Writing \cup {"create"}, UNCHANGED guard,
               at'[q] \notin Writing \cup {"create"},
               at'[q] \in Attached \ {"attached"} => q \in Readers
        PROVE  GuardInv'
    BY <1>1, <1>k, <1>g, <1>p DEF GuardInv
  <1>2. ASSUME at[q] \in Writing, UNCHANGED guard, at'[q] \in Writing
        PROVE  GuardInv'
    <2>1. at'[q] \notin Attached \ {"attached"}
      BY <1>2 DEF Writing, Attached
    <2> QED BY <1>2, <2>1, <1>k, <1>g, <1>p DEF GuardInv
  <1>3. ASSUME guard = NoOne, guard' = q, at'[q] \in Writing => q \in Producers,
               at'[q] \in {"create", "locked"}
        PROVE  GuardInv'
    <2>1. at'[q] \notin Attached /\ at'[q] \in Writing \cup {"create"}
      BY <1>3 DEF Writing, Attached
    <2> QED BY <1>3, <2>1, <1>k, <1>g, <1>p DEF GuardInv
  <1>4. ASSUME at[q] \in Writing \cup {"create"}, guard' = NoOne,
               at'[q] \in {"attached", "closed", "dead"}
        PROVE  GuardInv'
    <2>1. at'[q] \notin Attached \ {"attached"} /\ at'[q] \notin Writing \cup {"create"}
      BY <1>4 DEF Writing, Attached
    <2> QED BY <1>4, <2>1, <1>k, <1>g, <1>p DEF GuardInv
  <1> USE DEF Goto
  <1>5. CASE Lifecycle(q)
    <2>1. CASE Map(q)
      BY <2>1, <1>1, <1>p DEF Map, Writing, Attached
    <2>2. CASE GuardTimeout(q)
      BY <2>2, <1>1, <1>p DEF GuardTimeout, Writing, Attached
    <2>3. CASE Unmap(q)
      BY <2>3, <1>1, <1>p DEF Unmap, Writing, Attached
    <2>4. CASE Die(q)
      BY <2>4, <1>1, <1>4, <1>g, <1>p DEF Die, Writing, Attached
    <2>5. CASE CreateLock(q)
      BY <2>5, <1>1, <1>3, <1>p DEF CreateLock, Writing, Attached
    <2>6. CASE CreateAttach(q)
      BY <2>6, <1>4, <1>p DEF CreateAttach
    <2>7. CASE Open(q)
      BY <2>7, <1>1, <1>p DEF Open, Writing, Attached
    <2>8. CASE Withdraw(q)
      BY <2>8, <1>1, <1>p DEF Withdraw, Writing, Attached
    <2> QED BY <1>5, <2>1, <2>2, <2>3, <2>4, <2>5, <2>6, <2>7, <2>8 DEF Lifecycle
  <1>6. CASE q \in Producers /\ Write(q)
    <2>1. CASE WriteLock(q)
      BY <1>6, <2>1, <1>3, <1>p DEF WriteLock
    <2>2. CASE WriteBegin(q)
      BY <2>2, <1>2, <1>p DEF WriteBegin, Writing
    <2>3. CASE WriteRefused(q) \/ WriteAbandoned(q) \/ WriteAnnounce(q)
      BY <2>3, <1>4, <1>p DEF WriteRefused, WriteAbandoned, WriteAnnounce, Unlock, Writing
    <2>4. CASE \E part \in Parts : Fill(q, part)
      BY <2>4, <1>2, <1>p DEF Fill, Writing
    <2>5. CASE WriteStable(q)
      BY <2>5, <1>2, <1>p DEF WriteStable, Writing
    <2> QED BY <1>6, <2>1, <2>2, <2>3, <2>4, <2>5 DEF Write
  <1>7. CASE q \in Readers /\ Read(q)
    <2>1. at[q] \in Attached /\ at'[q] \in Attached /\ UNCHANGED guard
      BY <1>7, <1>p DEF Read, ReadBegin, ReadSeq, ReadBefore, ReadMeta, ReadPart, ReadAfter,
         CopyStands, Moves, ReadRetry, ReadNothing, ReadFrame, ReadReturn, Contended, Attached
    <2> QED BY <1>7, <2>1, <1>1 DEF Writing, Attached
  <1> QED BY <1>5, <1>6, <1>7 DEF Step

(* What a step does to the frames: nothing; *)
Still == UNCHANGED <<consumerGen, writeSeq, slotSeq, data, minted>>
(* or the section goes with q, its last user; *)
Gone(q) ==
    /\ \A r \in Processes : r # q => at[r] \in {"closed", "dead"}
    /\ at'[q] \in {"closed", "dead"}
    /\ handles' = {} /\ Zeroed /\ minted' = minted
(* or q's create() withdraws the frames of a generation without cameras; *)
Renewed(q) ==
    /\ at[q] = "create" /\ at'[q] = "attached" /\ Present = {}
    /\ handles' = handles /\ minted' = minted
    /\ writeSeq' = 0 /\ \A s \in SlotIds : slotSeq'[s] = 0
    /\ \A s \in SlotIds : data'[s][Meta] = NoFrame
(* or q writes. *)
Writes(q) ==
    \/ WriteBegin(q) \/ \E part \in Parts : Fill(q, part)
    \/ WriteStable(q) \/ WriteAnnounce(q)

LEMMA PresentFinite == IsFiniteSet(Present) /\ Cardinality(Present) \in Nat
  <1>1. Present \in SUBSET Cameras
    BY DEF Present
  <1> QED BY <1>1, CamerasFinite, FS_Subset, FS_CardinalityType

(* create() withdraws frames only when no camera is attached. *)
LEMMA NoneUncounted ==
  ASSUME TypeOK, CountInv, consumerCount = 0
  PROVE  Present = {}
  <1>1. Cardinality(Present) <= 0
    BY DEF CountInv, CamerasCounted, Present
  <1>2. Cardinality(Present) = 0
    BY <1>1, PresentFinite
  <1> QED BY <1>2, PresentFinite, FS_EmptySet

LEMMA LeaveKinds ==
  ASSUME TypeOK, ClaimInv, NEW q \in Processes, NEW place \in {"closed", "dead"},
         Leave(q), Goto(q, place), minted' = minted
  PROVE  \/ Still /\ UNCHANGED <<magic, consumerCount>> /\ handles' # {}
         \/ Gone(q)
  <1>1. handles' = handles \ {q} /\ at'[q] = place
    BY DEF Leave, Goto, TypeOK
  <1>2. CASE handles \subseteq {q}
    BY <1>1, <1>2 DEF Leave, Gone, ClaimInv
  <1>3. CASE ~(handles \subseteq {q})
    BY <1>1, <1>3 DEF Leave, Still, ringVars, headerVars, slotVars
  <1> QED BY <1>2, <1>3

LEMMA RingKinds ==
  ASSUME TypeOK, ClaimInv, GuardInv, CountInv, FreshInv, NEW q \in Processes, Step(q)
  PROVE  \/ Still
         \/ Gone(q)
         \/ q \in Cameras /\ Renewed(q)
         \/ q \in Producers /\ guard = q /\ Writes(q)
  <1> USE DEF ringVars, headerVars, slotVars
  <1>1. CASE Lifecycle(q)
    <2>1. CASE Map(q) \/ Withdraw(q)
      BY <2>1 DEF Map, Withdraw, Still
    <2>2. CASE GuardTimeout(q) \/ Unmap(q) \/ Die(q)
      BY <2>2, LeaveKinds DEF GuardTimeout, Unmap, Die
    <2>3. CASE CreateLock(q)
      BY <2>3, LeaveKinds DEF CreateLock, Still
    <2>4. CASE CreateAttach(q)
      <3>1. /\ at[q] = "create" /\ at'[q] = "attached" /\ q \in Cameras
            /\ handles' = handles /\ minted' = minted
        BY <2>4 DEF CreateAttach, Goto, TypeOK, ClaimInv
      <3>2. CASE ~existed[q]
        <4>1. Creating(q) /\ ~magic
          BY <3>1, <3>2 DEF Creating, ClaimInv
        <4>2. Present = {}
          BY <4>1 DEF Present, CountInv
        <4>3. \A s \in SlotIds : data[s][Meta] = NoFrame
          BY <3>1, <4>1 DEF FreshInv
        <4>4. writeSeq' = 0 /\ slotSeq' = [s \in SlotIds |-> 0] /\ data' = data
          BY <2>4, <3>2 DEF CreateAttach
        <4> QED BY <3>1, <4>2, <4>3, <4>4 DEF Renewed
      <3>3. CASE existed[q] /\ seq[q] = 0
        <4>1. consumerCount = 0
          BY <3>1, <3>3 DEF CountInv, TypeOK
        <4>2. /\ writeSeq' = 0 /\ slotSeq' = [s \in SlotIds |-> 0]
              /\ data' = [s \in SlotIds |-> [data[s] EXCEPT ![Meta] = NoFrame]]
          BY <2>4, <3>3 DEF CreateAttach
        <4>3. \A s \in SlotIds : data'[s][Meta] = NoFrame
          BY <4>2, SizesAssumption DEF TypeOK, Bytes
        <4> QED BY <3>1, <4>1, <4>2, <4>3, NoneUncounted DEF Renewed
      <3>4. CASE existed[q] /\ seq[q] # 0
        BY <2>4, <3>4 DEF CreateAttach, Still
      <3> QED BY <3>2, <3>3, <3>4
    <2>5. CASE Open(q)
      BY <2>5, LeaveKinds DEF Open, Still
    <2> QED BY <1>1, <2>1, <2>2, <2>3, <2>4, <2>5 DEF Lifecycle
  <1>2. CASE q \in Producers /\ Write(q)
    <2>1. CASE WriteLock(q) \/ WriteRefused(q) \/ WriteAbandoned(q)
      BY <2>1 DEF WriteLock, WriteRefused, WriteAbandoned, Still
    <2>2. CASE Writes(q)
      <3>1. at[q] \in Writing
        BY <2>2 DEF Writes, WriteBegin, Fill, WriteStable, WriteAnnounce, Writing
      <3> QED BY <1>2, <2>2, <3>1 DEF GuardInv
    <2> QED BY <1>2, <2>1, <2>2 DEF Write, Writes
  <1>3. CASE Read(q)
    BY <1>3 DEF Read, ReadBegin, ReadSeq, ReadBefore, ReadMeta, ReadPart, ReadAfter,
         Moves, ReadRetry, ReadNothing, ReadFrame, ReadReturn, Still
  <1> QED BY <1>1, <1>2, <1>3 DEF Step

(* Nobody is attached more than before, and the count is what it was. *)
LEMMA CountKept ==
  ASSUME TypeOK, CountInv, UNCHANGED <<magic, consumerCount>>,
         \A c \in Cameras : at'[c] \in Attached => at[c] \in Attached,
         \A c \in Cameras : at'[c] = "create" /\ existed'[c]
             => at[c] = "create" /\ existed[c] /\ seq'[c] = seq[c]
  PROVE  CountInv'
  <1>1. Present' \in SUBSET Present
    BY DEF Present
  <1>2. Cardinality(Present') \in Nat /\ Cardinality(Present') <= Cardinality(Present)
    BY <1>1, PresentFinite, FS_Subset, FS_CardinalityType
  <1>3. Cardinality(Present) <= consumerCount
    BY DEF CountInv, CamerasCounted, Present
  <1>4. Cardinality(Present') <= consumerCount'
    BY <1>2, <1>3, PresentFinite DEF TypeOK
  <1> QED BY <1>4 DEF CountInv, CamerasCounted, Present

LEMMA CountGone ==
  ASSUME TypeOK, NEW q \in Processes, Gone(q), \A r \in Processes : r # q => Kept(r)
  PROVE  CountInv'
  <1>1. \A r \in Processes : at'[r] \in {"closed", "dead"}
    BY DEF Gone, Kept
  <1>2. \A c \in Cameras : at'[c] \notin Attached /\ at'[c] # "create"
    BY <1>1 DEF Attached, Processes, Readers
  <1>3. Present' = {}
    BY <1>2 DEF Present
  <1>4. consumerCount' = 0
    BY DEF Gone, Zeroed
  <1> QED BY <1>2, <1>3, <1>4, FS_EmptySet DEF CountInv, CamerasCounted, Present

LEMMA CountStep ==
  ASSUME TypeOK, ClaimInv, GuardInv, CountInv, FreshInv, NEW q \in Processes, Step(q)
  PROVE  CountInv'
  <1>k. \A r \in Processes : r # q => Kept(r)
    BY OthersKept
  <1>c. Cameras \subseteq Processes /\ at \in [Processes -> Places]
    BY DEF Processes, Readers, TypeOK
  <1>n. consumerCount \in Nat /\ seq \in [Processes -> Nat] /\ existed \in [Processes -> BOOLEAN]
    BY DEF TypeOK
  <1>d. Cardinality(Present) <= consumerCount
    BY DEF CountInv, CamerasCounted, Present
  (* q, that takes no count, moves. *)
  <1>q. ASSUME UNCHANGED <<magic, consumerCount>>,
               q \in Cameras /\ at'[q] \in Attached => at[q] \in Attached,
               q \in Cameras => ~(at'[q] = "create" /\ existed'[q])
        PROVE  CountInv'
    <2>1. \A c \in Cameras : at'[c] \in Attached => at[c] \in Attached
      BY <1>q, <1>k, <1>c DEF Kept
    <2>2. \A c \in Cameras : at'[c] = "create" /\ existed'[c]
             => at[c] = "create" /\ existed[c] /\ seq'[c] = seq[c]
      BY <1>q, <1>k, <1>c DEF Kept
    <2> QED BY <1>q, <2>1, <2>2, CountKept
  <1>l. ASSUME Leave(q), NEW place \in {"closed", "dead"}, Goto(q, place), minted' = minted
        PROVE  CountInv'
    <2>1. at'[q] \notin Attached /\ at'[q] # "create"
      BY <1>l, <1>c DEF Goto, Attached
    <2> QED BY <1>l, <2>1, <1>q, <1>k, LeaveKinds, CountGone
  <1> USE DEF ringVars, headerVars, slotVars, callVars, localVars, Goto
  <1>1. CASE Lifecycle(q)
    <2>1. CASE Map(q)
      BY <2>1, <1>q, <1>c DEF Map, Attached
    <2>2. CASE GuardTimeout(q) \/ Unmap(q) \/ Die(q)
      BY <2>2, <1>l DEF GuardTimeout, Unmap, Die
    <2>3. CASE CreateLock(q)
      <3>1. CASE Leave(q) /\ Goto(q, "closed")
        BY <2>3, <3>1, <1>l DEF CreateLock
      <3>2. CASE ~(Leave(q) /\ Goto(q, "closed"))
        <4>1. /\ ~existed[q] \/ magic
              /\ seq' = [seq EXCEPT ![q] = consumerCount]
              /\ at' = [at EXCEPT ![q] = "create"]
              /\ UNCHANGED <<magic, consumerCount, existed>>
          BY <2>3, <3>2 DEF CreateLock
        <4>2. Present' = Present
          BY <4>1, <1>k, <1>c, <2>3 DEF Present, Attached, CreateLock
        <4>3. seq'[q] = consumerCount'
          BY <4>1, <1>n
        <4>4. \A c \in Cameras : at'[c] \in Attached => magic'
          BY <4>1, <4>2 DEF CountInv, Present
        <4>5. \A c \in Cameras : at'[c] = "create" /\ existed'[c] => magic' /\ consumerCount' <= seq'[c]
          BY <4>1, <4>3, <1>k, <1>c, <1>n DEF CountInv, Kept
        <4>6. CamerasCounted'
          BY <4>1, <4>2, <1>d DEF CamerasCounted, Present
        <4> QED BY <4>4, <4>5, <4>6 DEF CountInv
      <3> QED BY <3>1, <3>2
    <2>4. CASE CreateAttach(q)
      <3>1. /\ at[q] = "create" /\ at' = [at EXCEPT ![q] = "attached"] /\ q \in Cameras
        BY <2>4 DEF CreateAttach, ClaimInv
      <3>2. Present' = Present \cup {q}
        BY <3>1, <1>k, <1>c DEF Present, Attached
      <3>3. Cardinality(Present') <= Cardinality(Present) + 1
        BY <3>2, PresentFinite, FS_AddElement
      <3>4. magic'
        BY <2>4, <3>1 DEF CreateAttach, CountInv
      <3>5. consumerCount' \in Nat /\ Cardinality(Present) + 1 <= consumerCount'
        <4>1. CASE existed[q] /\ seq[q] # 0
          <5>1. consumerCount <= seq[q] /\ consumerCount' = seq[q] + 1
            BY <2>4, <4>1, <3>1 DEF CreateAttach, CountInv
          <5> QED BY <5>1, <1>d, <1>n, <1>c, <3>1, PresentFinite
        <4>2. CASE ~(existed[q] /\ seq[q] # 0)
          <5>1. consumerCount' = 1
            BY <2>4, <4>2 DEF CreateAttach
          <5>2. Present = {}
            <6>1. CASE ~existed[q]
              BY <3>1, <6>1 DEF Present, CountInv, ClaimInv, Creating
            <6>2. CASE existed[q] /\ seq[q] = 0
              BY <3>1, <6>2, <1>n, NoneUncounted DEF CountInv
            <6> QED BY <4>2, <6>1, <6>2
          <5> QED BY <5>1, <5>2, FS_EmptySet
        <4> QED BY <4>1, <4>2
      <3>6. Cardinality(Present') <= consumerCount'
        <4>1. IsFiniteSet(Present') /\ Cardinality(Present') \in Nat
          BY <3>2, PresentFinite, FS_AddElement, FS_CardinalityType
        <4> QED BY <3>3, <3>5, <4>1, PresentFinite
      <3>7. CamerasCounted'
        BY <3>6 DEF CamerasCounted, Present
      <3>8. \A c \in Cameras : at'[c] # "create"
        BY <3>1, <1>k, <1>c DEF GuardInv, Kept
      <3> QED BY <3>4, <3>7, <3>8 DEF CountInv
    <2>5. CASE Open(q)
      <3>1. CASE Leave(q) /\ Goto(q, "closed")
        BY <2>5, <3>1, <1>l DEF Open
      <3>2. CASE ~(Leave(q) /\ Goto(q, "closed"))
        BY <2>5, <3>2, <1>q DEF Open
      <3> QED BY <3>1, <3>2
    <2>6. CASE Withdraw(q)
      <3>1. /\ at[q] = "attached" /\ at' = [at EXCEPT ![q] = "unmap"]
            /\ UNCHANGED <<magic, existed, seq>>
        BY <2>6 DEF Withdraw
      <3>2. CASE q \notin Cameras
        BY <2>6, <3>1, <3>2, <1>q DEF Withdraw
      <3>3. CASE q \in Cameras
        <4>1. Present' = Present \ {q} /\ q \in Present
          BY <3>1, <3>3, <1>k, <1>c DEF Present, Attached
        <4>2. /\ Cardinality(Present') = Cardinality(Present) - 1
              /\ Cardinality(Present') \in Nat
          BY <4>1, PresentFinite, FS_RemoveElement, FS_CardinalityType
        <4>3. consumerCount' = consumerCount - 1
          BY <2>6, <3>3, <4>2, <1>d, <1>n, PresentFinite DEF Withdraw
        <4>4. CamerasCounted'
          BY <4>2, <4>3, <1>d, <1>n, PresentFinite DEF CamerasCounted, Present
        <4>5. \A c \in Cameras : at'[c] = "create" /\ existed'[c] => magic' /\ consumerCount' <= seq'[c]
          BY <3>1, <4>3, <1>c, <1>n DEF CountInv
        <4>6. \A c \in Cameras : at'[c] \in Attached => magic'
          BY <3>1, <4>1 DEF CountInv, Present
        <4> QED BY <4>4, <4>5, <4>6 DEF CountInv
      <3> QED BY <3>2, <3>3
    <2> QED BY <1>1, <2>1, <2>2, <2>3, <2>4, <2>5, <2>6 DEF Lifecycle
  <1>2. CASE q \in Producers /\ Write(q)
    <2>1. UNCHANGED <<magic, consumerCount>>
      BY <1>2 DEF Write, WriteLock, WriteBegin, WriteRefused, Fill, WriteStable, WriteAbandoned,
         WriteAnnounce
    <2>2. q \notin Cameras
      BY <1>2, ProcessesAssumption
    <2> QED BY <2>1, <2>2, <1>q
  <1>3. CASE q \in Readers /\ Read(q)
    <2>1. /\ UNCHANGED <<magic, consumerCount>>
          /\ at[q] \in Attached /\ at'[q] \in Attached
      BY <1>3, <1>c DEF Read, ReadBegin, ReadSeq, ReadBefore, ReadMeta, ReadPart, ReadAfter,
         CopyStands, Moves, ReadRetry, ReadNothing, ReadFrame, ReadReturn, Contended, Attached
    <2>2. at'[q] # "create"
      BY <2>1 DEF Attached
    <2> QED BY <2>1, <2>2, <1>q
  <1> QED BY <1>1, <1>2, <1>3 DEF Step

-----------------------------------------------------------------------------
(* The frames. *)

LEMMA FreshStep ==
  ASSUME TypeOK, ClaimInv, GuardInv, CountInv, FreshInv, NEW q \in Processes, Step(q)
  PROVE  FreshInv'
  <1>k. \A r \in Processes : r # q => Kept(r)
    BY OthersKept
  <1>c. Cameras \subseteq Processes
    BY DEF Processes, Readers
  <1>1. CASE Gone(q) \/ Renewed(q)
    <2>1. \A s \in SlotIds : data'[s][Meta] = NoFrame
      BY <1>1, SizesAssumption DEF Gone, Zeroed, Renewed, NoBytes
    <2> QED BY <2>1 DEF FreshInv
  <1>2. CASE q \in Producers /\ guard = q /\ Writes(q)
    <2>1. at[q] \in Writing
      BY <1>2 DEF Writes, WriteBegin, Fill, WriteStable, WriteAnnounce, Writing
    <2>2. magic /\ q \in handles
      BY <1>2, <2>1 DEF ClaimInv, HoldsClaim, Writing
    <2>3. q \notin Cameras /\ handles' = handles
      BY <1>2, ProcessesAssumption DEF Writes, WriteBegin, Fill, WriteStable, WriteAnnounce
    <2>4. \A c \in Cameras : ~Creating(c)
      BY <2>2 DEF ClaimInv
    <2>5. \A c \in Cameras : ~Creating(c)'
      BY <2>3, <2>4, <1>k, <1>c DEF Creating, Kept
    <2> QED BY <2>2, <2>3, <2>5 DEF FreshInv
  <1>3. CASE Still
    <2>0. data' = data
      BY <1>3 DEF Still
    (* q becomes a creator only of a section that did not exist. *)
    <2>1. \A c \in Cameras : Creating(c)' => Creating(c) \/ handles = {}
      <3>1. \A c \in Cameras : c # q => (Creating(c)' <=> Creating(c))
        BY <1>k, <1>c DEF Creating, Kept
      <3>2. CASE Map(q)
        BY <3>1, <3>2 DEF Map, Creating, Goto, TypeOK
      <3>3. CASE ~Map(q)
        <4>1. at'[q] \in {"mapped", "create"} =>
                at[q] \in {"mapped", "create"} /\ existed'[q] = existed[q]
          BY <3>3 DEF Step, Lifecycle, GuardTimeout, CreateLock, CreateAttach, Open, Withdraw,
             Unmap, Die, Write, WriteLock, WriteBegin, WriteRefused, Fill, WriteStable,
             WriteAbandoned, WriteAnnounce, Unlock, Read, ReadBegin, ReadSeq, ReadBefore, ReadMeta,
             ReadPart, ReadAfter, Moves, ReadRetry, ReadNothing, ReadFrame, ReadReturn, Goto, TypeOK
        <4> QED BY <3>1, <4>1 DEF Creating
      <3> QED BY <3>2, <3>3
    <2>2. handles' = {} => \A s \in SlotIds : data'[s][Meta] = NoFrame
      <3>1. CASE handles' = {} /\ handles # {}
        <4>1. \E place \in {"closed", "dead"} : Leave(q) /\ Goto(q, place) /\ minted' = minted
          BY <3>1 DEF Step, Lifecycle, Map, GuardTimeout, CreateLock, CreateAttach, Open, Withdraw,
             Unmap, Die, Write, WriteLock, WriteBegin, WriteRefused, Fill, WriteStable,
             WriteAbandoned, WriteAnnounce, Unlock, Read, ReadBegin, ReadSeq, ReadBefore, ReadMeta,
             ReadPart, ReadAfter, Moves, ReadRetry, ReadNothing, ReadFrame, ReadReturn
        <4>2. Gone(q)
          BY <3>1, <4>1, LeaveKinds
        <4> QED BY <4>2, SizesAssumption DEF Gone, Zeroed, NoBytes
      <3> QED BY <2>0, <3>1 DEF FreshInv
    <2> QED BY <2>0, <2>1, <2>2 DEF FreshInv
  <1> QED BY <1>1, <1>2, <1>3, RingKinds

(* The odd mark is odd and new, and the even one follows it. *)
LEMMA MarkParity ==
  ASSUME NEW n \in Nat
  PROVE  /\ WritingSeq(n) \in Nat /\ WritingSeq(n) % 2 = 1 /\ n < WritingSeq(n)
         /\ n % 2 = 1 => (n + 1) % 2 = 0
  BY DEF WritingSeq

(* The frame being written is not the empty slot's. *)
LEMMA CurrentFields ==
  ASSUME TypeOK, NEW p \in Processes
  PROVE  /\ Current(p) # NoFrame
         /\ Current(p).seq = seq[p] + 1 /\ Current(p).gen = myGen[p]
  BY DEF Current, NoFrame, TypeOK

(* A ring without frames *)
LEMMA EmptyRing ==
  ASSUME writeSeq' = 0, \A s \in SlotIds : data'[s][Meta] = NoFrame
  PROVE  SlotInv'
  BY DEF SlotInv, SlotOk

(* What a write changes, in terms of its slot alone. *)
LEMMA SlotStep ==
  ASSUME TypeOK, ClaimInv, GuardInv, CountInv, FreshInv, SlotInv, WriterInv,
         NEW q \in Processes, Step(q)
  PROVE  SlotInv'
  <1>t. /\ slotSeq \in [SlotIds -> Nat] /\ data \in [SlotIds -> Bytes] /\ writeSeq \in Nat
        /\ seq \in [Processes -> Nat] /\ mark \in [Processes -> Nat] /\ Meta \in Parts
    BY SizesAssumption DEF TypeOK
  <1>1. CASE Still
    BY <1>1 DEF Still, SlotInv, SlotOk, NumberOk, Whole
  <1>2. CASE Gone(q) \/ Renewed(q)
    BY <1>2, EmptyRing, SizesAssumption DEF Gone, Zeroed, Renewed, NoBytes
  <1>3. CASE q \in Producers /\ guard = q /\ Writes(q)
    <2>w. Writer(q) /\ q \in Producers
      BY <1>3 DEF WriterInv
    (* The other slots and their frames stay. *)
    <2>o. ASSUME NEW t \in SlotIds, writeSeq' = writeSeq, consumerGen' = consumerGen,
                 \A s \in SlotIds : s # t => slotSeq'[s] = slotSeq[s] /\ data'[s] = data[s],
                 SlotOk(t)', \A n \in 1..writeSeq : Slot(n - 1) = t => NumberOk(n)'
          PROVE  SlotInv'
      <3>1. \A s \in SlotIds : s # t => SlotOk(s)'
        BY <2>o DEF SlotInv, SlotOk, Whole
      <3>2. \A n \in 1..writeSeq : Slot(n - 1) # t => NumberOk(n)'
        <4> SUFFICES ASSUME NEW n \in 1..writeSeq, Slot(n - 1) # t PROVE NumberOk(n)'
          OBVIOUS
        <4>1. Slot(n - 1) \in SlotIds
          BY SlotType, <1>t
        <4>2. NumberOk(n)
          BY DEF SlotInv
        <4> QED BY <4>1, <4>2, <2>o DEF NumberOk
      <3> QED BY <2>o, <3>1, <3>2 DEF SlotInv
    <2>1. CASE WriteBegin(q)
      <3>0. PICK t \in SlotIds : t = Slot(writeSeq)
        BY SlotType, <1>t
      <3>2. slotSeq'[t] % 2 = 1
        BY <2>1, <3>0, <1>t, MarkParity DEF WriteBegin
      <3>3. /\ writeSeq' = writeSeq /\ consumerGen' = consumerGen
            /\ \A s \in SlotIds : s # t => slotSeq'[s] = slotSeq[s] /\ data'[s] = data[s]
        BY <2>1, <3>0, <1>t DEF WriteBegin, headerVars
      <3>4. SlotOk(t)' /\ \A n \in 1..writeSeq : Slot(n - 1) = t => NumberOk(n)'
        BY <3>2 DEF SlotOk, NumberOk
      <3> QED BY <3>3, <3>4, <2>o
    <2>2. ASSUME NEW part \in Parts, Fill(q, part) PROVE SlotInv'
      <3>0. PICK t \in SlotIds : t = Slot(seq[q])
        BY SlotType, <1>t
      <3>2. slotSeq'[t] % 2 = 1
        BY <2>2, <3>0, <2>w DEF Writer, Fill
      <3>3. /\ writeSeq' = writeSeq /\ consumerGen' = consumerGen
            /\ \A s \in SlotIds : s # t => slotSeq'[s] = slotSeq[s] /\ data'[s] = data[s]
        BY <2>2, <3>0, <1>t DEF Fill, headerVars
      <3>4. SlotOk(t)' /\ \A n \in 1..writeSeq : Slot(n - 1) = t => NumberOk(n)'
        BY <3>2 DEF SlotOk, NumberOk
      <3> QED BY <3>3, <3>4, <2>o
    <2>3. CASE WriteStable(q)
      <3>0. PICK t \in SlotIds : t = Slot(seq[q])
        BY SlotType, <1>t
      <3>2. /\ seq[q] = writeSeq /\ myGen[q] = consumerGen
            /\ \A x \in Parts : data[t][x] = Current(q)
        BY <2>3, <3>0, <2>w DEF Writer, WriteStable
      <3>3. /\ writeSeq' = writeSeq /\ consumerGen' = consumerGen /\ data' = data
            /\ \A s \in SlotIds : s # t => slotSeq'[s] = slotSeq[s] /\ data'[s] = data[s]
        BY <2>3, <3>0, <1>t DEF WriteStable, headerVars
      <3>4. /\ Current(q) # NoFrame /\ Current(q).seq = writeSeq + 1
            /\ Current(q).gen = consumerGen
        BY <3>2, CurrentFields
      <3>5. data'[t][Meta] = Current(q) /\ Whole(data'[t])
        BY <3>2, <3>3, <1>t DEF Whole
      <3>6. SlotOk(t)'
        BY <3>3, <3>4, <3>5, <1>t DEF SlotOk, Whole
      <3>7. ASSUME NEW n \in 1..writeSeq, Slot(n - 1) = t PROVE NumberOk(n)'
        BY <3>7, <3>4, <3>5, <1>t DEF NumberOk
      <3> QED BY <3>3, <3>6, <3>7, <2>o
    <2>4. CASE WriteAnnounce(q)
      <3>1. seq[q] = writeSeq /\ data[Slot(seq[q])][Meta] = Current(q)
        BY <2>4, <2>w DEF Writer, WriteAnnounce
      <3>2. /\ writeSeq' = writeSeq + 1
            /\ UNCHANGED <<consumerGen, slotSeq, data>>
        BY <2>4, <3>1 DEF WriteAnnounce, slotVars
      <3>3. \A s \in SlotIds : SlotOk(s)'
        BY <3>2, <1>t DEF SlotInv, SlotOk, Whole
      <3>4. \A n \in 1..writeSeq : NumberOk(n)'
        BY <3>2 DEF SlotInv, NumberOk
      <3>0. PICK m \in Nat : m = writeSeq + 1
        BY <1>t
      <3>5. NumberOk(m)'
        <4>1. m - 1 = seq[q]
          BY <3>0, <3>1, <1>t
        <4>2. Current(q) # NoFrame /\ Current(q).seq = m
          BY <3>0, <3>1, CurrentFields
        <4> QED BY <3>1, <3>2, <4>1, <4>2, <1>t DEF NumberOk
      <3>6. \A n \in 1..writeSeq' : n \in 1..writeSeq \/ n = m
        BY <3>0, <3>2, <1>t
      <3> QED BY <3>3, <3>4, <3>5, <3>6 DEF SlotInv
    <2> QED BY <1>3, <2>1, <2>2, <2>3, <2>4 DEF Writes
  <1> QED BY <1>1, <1>2, <1>3, RingKinds

LEMMA WriterStep ==
  ASSUME TypeOK, ClaimInv, GuardInv, CountInv, FreshInv, WriterInv,
         NEW q \in Processes, Step(q)
  PROVE  WriterInv'
  <1>t. /\ slotSeq \in [SlotIds -> Nat] /\ data \in [SlotIds -> Bytes] /\ writeSeq \in Nat
        /\ seq \in [Processes -> Nat] /\ mark \in [Processes -> Nat] /\ Meta \in Parts
        /\ todo \in [Processes -> SUBSET Parts] /\ at \in [Processes -> Places]
    BY SizesAssumption DEF TypeOK
  (* The guard keeps every other process out. *)
  <1>1. ASSUME NEW p \in Producers, p # q PROVE Writer(p)'
    <2>1. p \in Processes /\ Writer(p)
      BY DEF Processes, WriterInv
    <2>2. Kept(p)
      BY <1>1, <2>1, OthersKept
    <2>3. CASE at[p] \notin {"fill", "announce"}
      BY <2>2, <2>3 DEF Writer, Kept
    <2>4. CASE at[p] \in {"fill", "announce"}
      <3>1. guard = p
        BY <2>1, <2>4 DEF GuardInv, Writing
      <3>2. ~Gone(q)
        BY <1>1, <2>1, <2>4 DEF Gone
      <3>3. ~Renewed(q)
        BY <1>1, <3>1 DEF Renewed, GuardInv
      <3>4. Still
        BY <1>1, <3>1, <3>2, <3>3, RingKinds
      <3>5. Current(p)' = Current(p)
        BY <2>2, <3>4 DEF Current, Kept, Still
      <3> QED BY <2>1, <2>2, <3>4, <3>5 DEF Writer, Kept, Still
    <2> QED BY <2>3, <2>4
  <1>2. ASSUME q \in Producers PROVE Writer(q)'
    <2>w. Writer(q)
      BY <1>2 DEF WriterInv
    <2> USE DEF Goto
    <2>1. CASE WriteBegin(q)
      <3>1. Slot(writeSeq) \in SlotIds
        BY SlotType, <1>t
      <3>2. /\ at'[q] = "fill" /\ seq'[q] = writeSeq /\ writeSeq' = writeSeq
            /\ myGen'[q] = consumerGen' /\ todo'[q] = Parts
            /\ mark'[q] = WritingSeq(slotSeq[Slot(writeSeq)])
            /\ slotSeq'[Slot(writeSeq)] = mark'[q]
        BY <2>1, <3>1, <1>t DEF WriteBegin, Bound, headerVars
      <3>3. mark'[q] % 2 = 1
        BY <3>1, <3>2, <1>t, MarkParity
      <3> QED BY <3>2, <3>3 DEF Writer
    <2>2. ASSUME NEW part \in Parts, Fill(q, part) PROVE Writer(q)'
      <3>1. Slot(seq[q]) \in SlotIds
        BY SlotType, <1>t
      <3>2. /\ at'[q] = "fill" /\ at[q] = "fill"
            /\ UNCHANGED <<seq, myGen, mark, writeSeq, consumerGen, slotSeq, minted>>
            /\ todo'[q] = todo[q] \ {part}
        BY <2>2, <1>t DEF Fill, headerVars
      <3>3. Current(q)' = Current(q)
        BY <3>2 DEF Current
      <3>4. /\ data'[Slot(seq[q])][part] = Current(q)
            /\ \A x \in Parts : x # part => data'[Slot(seq[q])][x] = data[Slot(seq[q])][x]
        BY <2>2, <3>1, <1>t DEF Fill, Bytes
      <3>5. \A x \in Parts \ todo'[q] : data'[Slot(seq[q])][x] = Current(q)
        BY <3>2, <3>4, <2>w DEF Writer
      <3> QED BY <3>2, <3>3, <3>5, <2>w DEF Writer
    <2>3. CASE WriteStable(q)
      <3>1. Slot(seq[q]) \in SlotIds
        BY SlotType, <1>t
      <3>2. /\ at'[q] = "announce" /\ at[q] = "fill" /\ todo[q] = {}
            /\ UNCHANGED <<seq, myGen, writeSeq, consumerGen, data, minted>>
            /\ slotSeq'[Slot(seq[q])] = mark[q] + 1
        BY <2>3, <3>1, <1>t DEF WriteStable, headerVars, localVars, callVars
      <3>3. Current(q)' = Current(q)
        BY <3>2 DEF Current
      <3>4. (mark[q] + 1) % 2 = 0
        BY <3>2, <2>w, <1>t, MarkParity DEF Writer
      <3> QED BY <3>2, <3>3, <3>4, <2>w, <1>t DEF Writer
    <2>4. ASSUME at'[q] \notin {"fill", "announce"} PROVE Writer(q)'
      BY <2>4 DEF Writer
    <2>5. CASE ~(WriteBegin(q) \/ (\E part \in Parts : Fill(q, part)) \/ WriteStable(q))
      <3>1. q \notin Readers
        BY <1>2, ProcessesAssumption DEF Readers
      <3>2. at'[q] \notin {"fill", "announce"}
        BY <2>5, <3>1, <1>t DEF Step, Lifecycle, Map, GuardTimeout, CreateLock, CreateAttach, Open,
           Withdraw, Unmap, Die, Write, WriteLock, WriteRefused, WriteAbandoned, WriteAnnounce, Unlock
      <3> QED BY <3>2, <2>4
    <2> QED BY <2>1, <2>2, <2>3, <2>5
  <1> QED BY <1>1, <1>2 DEF WriterInv

(* What a camera that is reading can notice: the generation stays, numbers   *)
(* grow, and an even slot that changes changes its sequence.                 *)
Grows ==
    /\ consumerGen' = consumerGen /\ writeSeq <= writeSeq'
    /\ \A s \in SlotIds :
         /\ slotSeq[s] <= slotSeq'[s]
         /\ slotSeq'[s] = slotSeq[s] /\ slotSeq[s] % 2 = 0 => data'[s] = data[s]

LEMMA WritesGrow ==
  ASSUME TypeOK, WriterInv, NEW q \in Producers, Writes(q)
  PROVE  Grows
  <1>t. /\ slotSeq \in [SlotIds -> Nat] /\ data \in [SlotIds -> Bytes] /\ writeSeq \in Nat
        /\ seq \in [Processes -> Nat] /\ mark \in [Processes -> Nat] /\ q \in Processes
    BY DEF TypeOK, Processes
  <1>w. Writer(q)
    BY DEF WriterInv
  <1>1. CASE WriteBegin(q)
    <2>0. PICK t \in SlotIds : t = Slot(writeSeq)
      BY SlotType, <1>t
    <2>1. /\ UNCHANGED <<consumerGen, writeSeq, data>>
          /\ slotSeq' = [slotSeq EXCEPT ![t] = WritingSeq(slotSeq[t])]
      BY <1>1, <2>0 DEF WriteBegin, headerVars
    <2> QED BY <2>1, <1>t, MarkParity DEF Grows
  <1>2. ASSUME NEW part \in Parts, Fill(q, part) PROVE Grows
    <2>0. PICK t \in SlotIds : t = Slot(seq[q])
      BY SlotType, <1>t
    <2>1. /\ UNCHANGED <<consumerGen, writeSeq, slotSeq>>
          /\ \A s \in SlotIds : s # t => data'[s] = data[s]
      BY <1>2, <2>0, <1>t DEF Fill, headerVars
    <2>2. slotSeq[t] % 2 = 1
      BY <1>2, <1>w, <2>0 DEF Fill, Writer
    <2> QED BY <2>1, <2>2, <1>t DEF Grows
  <1>3. CASE WriteStable(q)
    <2>0. PICK t \in SlotIds : t = Slot(seq[q])
      BY SlotType, <1>t
    <2>1. /\ UNCHANGED <<consumerGen, writeSeq, data>> /\ slotSeq[t] = mark[q]
          /\ slotSeq' = [slotSeq EXCEPT ![t] = mark[q] + 1]
      BY <1>3, <1>w, <2>0 DEF WriteStable, Writer, headerVars
    <2> QED BY <2>1, <1>t DEF Grows
  <1>4. CASE WriteAnnounce(q)
    <2>1. UNCHANGED <<consumerGen, slotSeq, data>> /\ writeSeq' = writeSeq + 1
      BY <1>4, <1>w DEF WriteAnnounce, Writer, slotVars
    <2> QED BY <2>1, <1>t DEF Grows
  <1> QED BY <1>1, <1>2, <1>3, <1>4 DEF Writes

LEMMA StillGrows ==
  ASSUME TypeOK, Still
  PROVE  Grows
  BY DEF TypeOK, Still, Grows

(* While a camera is attached, its generation only grows. *)
LEMMA AttachedGrows ==
  ASSUME TypeOK, ClaimInv, GuardInv, CountInv, FreshInv, WriterInv,
         NEW q \in Processes, Step(q),
         NEW c \in Cameras, c # q, at[c] \in Attached
  PROVE  Grows
  <1>1. ~Gone(q)
    BY DEF Gone, Attached, Processes, Readers
  <1>2. ~Renewed(q)
    BY DEF Renewed, Present
  <1> QED BY <1>1, <1>2, RingKinds, WritesGrow, StillGrows

(* A camera outside readLatest *)
LEMMA IdleReader ==
  ASSUME NEW c \in Cameras, at'[c] \notin Attached \ {"attached"}, low'[c] = 0
  PROVE  Reader(c)'
  BY DEF Reader, Attached

(* The steps of others *)
LEMMA OtherReader ==
  ASSUME TypeOK, TypeOK', NEW c \in Cameras, Reader(c), Kept(c), Grows
  PROVE  Reader(c)'
  <1>1. ReadSlot(c)' = ReadSlot(c) /\ ReadSlot(c) \in SlotIds
    BY SlotType DEF ReadSlot, Slot, Kept, TypeOK, Processes, Readers
  <1>2. PICK s \in SlotIds : s = ReadSlot(c)
    BY <1>1
  <1>3. /\ slotSeq[s] \in Nat /\ slotSeq'[s] \in Nat /\ writeSeq \in Nat /\ writeSeq' \in Nat
        /\ seq[c] \in Nat /\ mark[c] \in Nat /\ low[c] \in Nat
    BY DEF TypeOK, Processes, Readers
  <1>4. /\ slotSeq[s] <= slotSeq'[s] /\ writeSeq <= writeSeq'
        /\ slotSeq'[s] = slotSeq[s] /\ slotSeq[s] % 2 = 0 => data'[s] = data[s]
    BY DEF Grows
  <1>5. /\ at[c] \notin Attached \ {"attached"} => low[c] = 0
        /\ at[c] \in {"readSeq", "readBefore", "readMeta", "copy"} => low[c] <= writeSeq
        /\ at[c] \in {"readBefore", "readMeta", "copy"} => seq[c] \in 1..writeSeq /\ low[c] <= seq[c]
        /\ at[c] \in {"readMeta", "copy"} => mark[c] % 2 = 0 /\ mark[c] <= slotSeq[s]
        /\ at[c] = "copy" /\ slotSeq[s] = mark[c]
              => \A x \in Parts \ todo[c] : buf[c][x] = data[s][x]
        /\ at[c] = "copy" => Meta \notin todo[c] /\ buf[c][Meta] # NoFrame
        /\ at[c] = "done" => Whole(buf[c])
    BY <1>2 DEF Reader
  <1>6. /\ at[c] \in {"readMeta", "copy"} => mark[c] <= slotSeq'[s]
        /\ at[c] \in {"readBefore", "readMeta", "copy"} => seq[c] \in 1..writeSeq'
        /\ at[c] \in {"readSeq", "readBefore", "readMeta", "copy"} => low[c] <= writeSeq'
    BY <1>3, <1>4, <1>5
  <1>7. at[c] = "copy" /\ slotSeq'[s] = mark[c]
              => \A x \in Parts \ todo[c] : buf[c][x] = data'[s][x]
    <2> SUFFICES ASSUME at[c] = "copy", slotSeq'[s] = mark[c]
                 PROVE  \A x \in Parts \ todo[c] : buf[c][x] = data'[s][x]
      OBVIOUS
    <2>1. mark[c] <= slotSeq[s] /\ mark[c] % 2 = 0
      BY <1>5
    <2>2. slotSeq[s] = mark[c]
      BY <2>1, <1>3, <1>4
    <2> QED BY <2>1, <2>2, <1>4, <1>5
  <1>8. ReadSlot(c)' = s
    BY <1>1, <1>2
  <1>9. /\ at'[c] = at[c] /\ seq'[c] = seq[c] /\ mark'[c] = mark[c] /\ todo'[c] = todo[c]
        /\ buf'[c] = buf[c] /\ low'[c] = low[c]
    BY DEF Kept
  <1> QED BY <1>5, <1>6, <1>7, <1>8, <1>9 DEF Reader, Whole

(* A copy that stands is the frame in its slot, whole, no older than the     *)
(* call and at most one ahead of the announcements.                          *)
LEMMA CopyIsFrame ==
  ASSUME TypeOK, SlotInv, NEW c \in Cameras, Reader(c), CopyStands(c)
  PROVE  /\ Whole(buf[c])
         /\ buf[c][Meta].gen = consumerGen
         /\ buf[c][Meta].seq \in (low[c]..writeSeq + 1) \ {0}
  <1>1. PICK s \in SlotIds : s = ReadSlot(c)
    BY SlotType DEF ReadSlot, TypeOK, Processes, Readers
  <1>2. /\ slotSeq[s] % 2 = 0 /\ \A x \in Parts : buf[c][x] = data[s][x]
        /\ seq[c] \in 1..writeSeq /\ low[c] <= seq[c]
    BY <1>1 DEF Reader, CopyStands
  <1>3. NumberOk(seq[c]) /\ SlotOk(s)
    BY <1>2 DEF SlotInv
  <1>4. data[s][Meta] # NoFrame /\ seq[c] <= data[s][Meta].seq
    BY <1>1, <1>2, <1>3 DEF NumberOk, ReadSlot
  <1>5. /\ Whole(data[s]) /\ data[s][Meta].gen = consumerGen
        /\ data[s][Meta].seq \in 1..writeSeq + 1
    BY <1>2, <1>3, <1>4 DEF SlotOk
  <1>6. buf[c][Meta] = data[s][Meta] /\ Whole(buf[c])
    BY <1>2, <1>5, SizesAssumption DEF Whole
  <1>7. low[c] \in Nat /\ writeSeq \in Nat
    BY DEF TypeOK, Processes, Readers
  <1> QED BY <1>2, <1>4, <1>5, <1>6, <1>7

LEMMA ReaderStep ==
  ASSUME TypeOK, TypeOK', ClaimInv, GuardInv, CountInv, FreshInv, SlotInv, WriterInv, ReaderInv,
         NEW q \in Processes, Step(q)
  PROVE  ReaderInv'
  <1>1. ASSUME NEW c \in Cameras, c # q PROVE Reader(c)'
    <2>1. Reader(c) /\ c \in Processes
      BY DEF ReaderInv, Processes, Readers
    <2>2. Kept(c)
      BY <1>1, <2>1, OthersKept
    <2>3. CASE at[c] \in Attached
      BY <1>1, <2>1, <2>2, <2>3, AttachedGrows, OtherReader
    <2>4. CASE at[c] \notin Attached
      <3>1. low[c] = 0
        BY <2>1, <2>4 DEF Reader
      <3> QED BY <3>1, <2>2, <2>4, IdleReader DEF Kept
    <2> QED BY <2>3, <2>4
  <1>2. ASSUME q \in Cameras PROVE Reader(q)'
    <2>t. /\ at \in [Processes -> Places] /\ low \in [Processes -> Nat]
          /\ seq \in [Processes -> Nat] /\ mark \in [Processes -> Nat]
          /\ todo \in [Processes -> SUBSET Parts] /\ buf \in [Processes -> Bytes]
          /\ slotSeq \in [SlotIds -> Nat] /\ data \in [SlotIds -> Bytes]
          /\ writeSeq \in Nat /\ Meta \in Parts
      BY SizesAssumption DEF TypeOK
    <2>r. Reader(q)
      BY <1>2 DEF ReaderInv
    <2>s. ReadSlot(q) \in SlotIds
      BY SlotType, <2>t DEF ReadSlot
    <2>w. q \notin Producers
      BY <1>2, ProcessesAssumption
    <2> USE DEF Goto, ringVars, headerVars, slotVars
    <2>1. CASE Lifecycle(q)
      <3>1. at'[q] \in {"closed", "dead", "mapped", "create", "attached", "unmap"}
        BY <2>1, <2>t DEF Lifecycle, Map, GuardTimeout, CreateLock, CreateAttach, Open, Withdraw,
           Unmap, Die
      <3>2. low'[q] = 0
        <4>1. ASSUME Returned(q) PROVE low'[q] = 0
          BY <4>1, <2>t DEF Returned
        <4>2. CASE Map(q) \/ Withdraw(q)
          <5>1. low' = low /\ at[q] \in {"closed", "attached"}
            BY <4>2 DEF Map, Withdraw, localVars, callVars
          <5> QED BY <5>1, <2>r DEF Reader, Attached
        <4>3. CASE GuardTimeout(q) \/ Unmap(q) \/ Die(q) \/ CreateAttach(q)
          BY <4>1, <4>3 DEF GuardTimeout, Unmap, Die, CreateAttach, Leave, Closed
        <4>4. CASE CreateLock(q)
          <5>1. at[q] = "mapped" /\ (low' = low \/ Returned(q))
            BY <4>4 DEF CreateLock, Leave, Closed
          <5> QED BY <5>1, <4>1, <2>r DEF Reader, Attached
        <4>5. CASE Open(q)
          BY <4>5, <1>2 DEF Open
        <4> QED BY <2>1, <4>2, <4>3, <4>4, <4>5 DEF Lifecycle
      <3>3. at'[q] \notin Attached \ {"attached"}
        BY <3>1 DEF Attached
      <3> QED BY <1>2, <3>2, <3>3, IdleReader
    <2>2. CASE ReadBegin(q)
      BY <2>2, <2>t DEF ReadBegin, Reader, Attached
    <2>3. CASE ReadSeq(q)
      BY <2>3, <2>t, <2>r DEF ReadSeq, Reader, Attached
    <2>4. CASE ReadBefore(q)
      <3>1. /\ at'[q] = "readMeta" /\ at[q] = "readBefore" /\ slotSeq[ReadSlot(q)] % 2 = 0
            /\ mark'[q] = slotSeq[ReadSlot(q)] /\ ReadSlot(q)' = ReadSlot(q)
            /\ UNCHANGED <<seq, low, writeSeq, slotSeq>>
        BY <2>4, <2>t, <2>s DEF ReadBefore, ReadSlot, Slot
      <3> QED BY <3>1, <2>t, <2>r, <2>s DEF Reader, Attached
    <2>5. CASE ReadMeta(q)
      <3>1. /\ at'[q] = "copy" /\ at[q] = "readMeta" /\ ReadSlot(q)' = ReadSlot(q)
            /\ data[ReadSlot(q)][Meta] # NoFrame
            /\ todo'[q] = Parts \ {Meta}
            /\ buf'[q] = [buf[q] EXCEPT ![Meta] = data[ReadSlot(q)][Meta]]
            /\ UNCHANGED <<seq, low, mark, writeSeq, slotSeq, data>>
        BY <2>5, <2>t DEF ReadMeta, ReadSlot, Slot
      <3>2. buf'[q][Meta] = data[ReadSlot(q)][Meta]
        BY <3>1, <2>t DEF Bytes
      <3>3. \A x \in Parts \ todo'[q] : x = Meta
        BY <3>1
      <3> QED BY <3>1, <3>2, <3>3, <2>t, <2>r, <2>s DEF Reader, Attached
    <2>6. ASSUME NEW part \in Parts, ReadPart(q, part) PROVE Reader(q)'
      <3>1. /\ at'[q] = "copy" /\ at[q] = "copy" /\ ReadSlot(q)' = ReadSlot(q)
            /\ part \in todo[q] /\ todo'[q] = todo[q] \ {part}
            /\ buf'[q] = [buf[q] EXCEPT ![part] = data[ReadSlot(q)][part]]
            /\ UNCHANGED <<seq, low, mark, writeSeq, slotSeq, data>>
        BY <2>6, <2>t DEF ReadPart, ReadSlot, Slot
      <3>2. /\ buf'[q][part] = data[ReadSlot(q)][part]
            /\ \A x \in Parts : x # part => buf'[q][x] = buf[q][x]
        BY <3>1, <2>t DEF Bytes
      <3>3. part # Meta
        BY <3>1, <2>r DEF Reader
      <3>4. slotSeq[ReadSlot(q)] = mark[q]
               => \A x \in Parts \ todo'[q] : buf'[q][x] = data[ReadSlot(q)][x]
        BY <3>1, <3>2, <2>r DEF Reader
      <3>5. Meta \notin todo'[q] /\ buf'[q][Meta] # NoFrame
        BY <3>1, <3>2, <3>3, <2>r, <2>t DEF Reader
      <3> QED BY <3>1, <3>4, <3>5, <2>t, <2>r, <2>s DEF Reader, Attached
    <2>7. CASE ReadAfter(q)
      <3>1. /\ at'[q] = "done" /\ UNCHANGED buf
        BY <2>7, <2>t DEF ReadAfter, Moves, localVars, callVars
      <3>2. Whole(buf[q])
        BY <1>2, <2>7, <2>r, CopyIsFrame DEF ReadAfter
      <3> QED BY <3>1, <3>2 DEF Reader, Attached, Whole
    <2>8. CASE ReadRetry(q)
      <3>1. /\ at'[q] = "readSeq" /\ at[q] \in {"readBefore", "readMeta", "copy"}
            /\ UNCHANGED <<low, writeSeq>>
        BY <2>8, <2>t DEF ReadRetry, Contended
      <3> QED BY <3>1, <2>r DEF Reader, Attached
    <2>9. CASE ReadNothing(q) \/ ReadFrame(q)
      <3>1. at'[q] = "attached" /\ low'[q] = 0
        BY <2>9, <2>t DEF ReadNothing, ReadFrame, ReadReturn, Returned
      <3> QED BY <1>2, <3>1, IdleReader
    <2> QED BY <2>1, <2>2, <2>3, <2>4, <2>5, <2>6, <2>7, <2>8, <2>9, <2>w DEF Step, Read
  <1> QED BY <1>1, <1>2 DEF ReaderInv

LEMMA InitIInv == Init => IInv
  <1> SUFFICES ASSUME Init PROVE IInv
    OBVIOUS
  <1>1. TypeOK
    BY InitType
  <1>2. /\ \A p \in Processes : at[p] = "closed" /\ low[p] = 0
        /\ handles = {} /\ ~magic /\ consumerCount = 0 /\ writeSeq = 0 /\ guard = NoOne
        /\ \A s \in SlotIds : data[s][Meta] = NoFrame
    BY SizesAssumption DEF Init, NoBytes
  <1>3. ClaimInv
    BY <1>2 DEF ClaimInv, Creating, HoldsClaim, Writing, Processes, Readers
  <1>4. GuardInv
    BY <1>2, ProcessesAssumption DEF GuardInv, Writing, Attached, Processes, Readers
  <1>5. CountInv
    <2>1. \A c \in Cameras : at[c] \notin Attached /\ at[c] # "create"
      BY <1>2 DEF Attached, Processes, Readers
    <2>2. Present = {}
      BY <2>1 DEF Present
    <2> QED BY <1>2, <2>1, <2>2, FS_EmptySet DEF CountInv, CamerasCounted, Present
  <1>6. FreshInv
    BY <1>2 DEF FreshInv
  <1>7. SlotInv
    BY <1>2 DEF SlotInv, SlotOk
  <1>8. WriterInv
    BY <1>2 DEF WriterInv, Writer, Processes
  <1>9. ReaderInv
    BY <1>2 DEF ReaderInv, Reader, Processes, Readers
  <1> QED BY <1>1, <1>3, <1>4, <1>5, <1>6, <1>7, <1>8, <1>9 DEF IInv

LEMMA NextIInv == IInv /\ [Next]_vars => IInv'
  <1> SUFFICES ASSUME IInv, [Next]_vars PROVE IInv'
    OBVIOUS
  <1>1. TypeOK' /\ ClaimInv'
    BY NextType, NextClaim DEF IInv
  <1>2. CASE Next
    <2>1. PICK q \in Processes : Step(q)
      BY <1>2, NextIsStep
    <2>2. GuardInv' /\ CountInv' /\ FreshInv'
      BY <2>1, GuardStep, CountStep, FreshStep DEF IInv
    <2>3. SlotInv' /\ WriterInv'
      BY <2>1, SlotStep, WriterStep DEF IInv
    <2>4. ReaderInv'
      BY <1>1, <2>1, ReaderStep DEF IInv
    <2> QED BY <1>1, <2>2, <2>3, <2>4 DEF IInv
  <1>3. CASE UNCHANGED vars
    <2>1. GuardInv' /\ CountInv' /\ FreshInv'
      BY <1>3 DEF vars, ringVars, headerVars, slotVars, localVars, callVars, IInv, GuardInv,
         CountInv, CamerasCounted, FreshInv, Creating
    <2>2. SlotInv' /\ WriterInv' /\ ReaderInv'
      BY <1>3 DEF vars, ringVars, headerVars, slotVars, localVars, callVars, IInv, SlotInv, SlotOk,
         NumberOk, Whole, WriterInv, Writer, Current, ReaderInv, Reader, ReadSlot
    <2> QED BY <1>1, <2>1, <2>2 DEF IInv
  <1> QED BY <1>2, <1>3

LEMMA RingInvariant == Spec => []IInv
  BY InitIInv, NextIInv, PTL DEF Spec

(* The count never falls below the attached cameras, although close() may    *)
(* lower it without the guard while a create() holds the value it read.      *)
THEOREM CamerasAreCounted == Spec => []CamerasCounted
  <1>1. IInv => CamerasCounted
    BY DEF IInv, CountInv
  <1> QED BY <1>1, RingInvariant, PTL

(* What readLatest returns to a camera is one whole frame, whatever the      *)
(* number of slots and parts, and however producers, deaths, retries and     *)
(* generation changes interleave with the copy.  A viewer is not counted: a  *)
(* generation may be replaced under it and bring its slot's sequence back to *)
(* the number it first saw, so the theorem is about rings without viewers.   *)
THEOREM WholeFrames ==
  ASSUME Viewers = {}
  PROVE  Spec => []WholeFrame
  <1>1. IInv => WholeFrame
    BY DEF IInv, ReaderInv, Reader, Whole, WholeFrame, Readers
  <1> QED BY <1>1, RingInvariant, PTL

-----------------------------------------------------------------------------
(* The refinement of LatestFrame: what each step does to the register. *)

(* The places of a camera as LatestFrame sees them. *)
LEMMA CallPlaces ==
  ASSUME NEW c
  PROVE  /\ CallOf(c) = "away" <=> at[c] \notin Attached
         /\ CallOf(c) = "idle" <=> at[c] = "attached"
         /\ CallOf(c) = "done" <=> at[c] = "done"
         /\ CallOf(c) = "reading" <=> at[c] \in Attached \ {"attached", "done"}
         /\ at[c] # "done" => FrameOf(c) = [seq |-> 0, gen |-> 0]
  BY DEF CallOf, FrameOf, Attached

LEMMA CallPlacesNext ==
  ASSUME NEW c
  PROVE  /\ CallOf(c)' = "away" <=> at'[c] \notin Attached
         /\ CallOf(c)' = "idle" <=> at'[c] = "attached"
         /\ CallOf(c)' = "done" <=> at'[c] = "done"
         /\ CallOf(c)' = "reading" <=> at'[c] \in Attached \ {"attached", "done"}
         /\ at'[c] # "done" => FrameOf(c)' = [seq |-> 0, gen |-> 0]
  BY DEF CallOf, FrameOf, Attached

(* The register's view of c does not change. *)
Same(c) == CallOf(c)' = CallOf(c) /\ low'[c] = low[c] /\ FrameOf(c)' = FrameOf(c)

LEMMA KeptSame ==
  ASSUME NEW c, Kept(c)
  PROVE  Same(c)
  BY DEF Kept, Same, CallOf, FrameOf

LEMMA AllSame ==
  ASSUME \A c \in Cameras : Same(c)
  PROVE  /\ [c \in Cameras |-> CallOf(c)]' = [c \in Cameras |-> CallOf(c)]
         /\ [c \in Cameras |-> low[c]]' = [c \in Cameras |-> low[c]]
         /\ [c \in Cameras |-> FrameOf(c)]' = [c \in Cameras |-> FrameOf(c)]
  BY DEF Same

(* No camera notices, or none is left to notice. *)
LEMMA SilentStep ==
  ASSUME \A c \in Cameras : Same(c),
         UNCHANGED <<consumerGen, writeSeq>> \/ (Zeroed /\ \A c \in Cameras : CallOf(c) = "away")
  PROVE  [Promise!Next]_Promise!vars
  <1>1. CASE UNCHANGED <<consumerGen, writeSeq>>
    BY <1>1, AllSame DEF Promise!vars
  <1>2. CASE Zeroed /\ \A c \in Cameras : CallOf(c) = "away"
    <2>1. Promise!Vanish
      BY <1>2, AllSame DEF Zeroed, Promise!Vanish, Promise!Present
    <2> QED BY <2>1 DEF Promise!Next
  <1> QED BY <1>1, <1>2

(* Only q's call changes, *)
LEMMA OneCall ==
  ASSUME NEW q \in Cameras, \A c \in Cameras : c # q => Same(c)
  PROVE  /\ [c \in Cameras |-> CallOf(c)]' = [[c \in Cameras |-> CallOf(c)] EXCEPT ![q] = CallOf(q)']
         /\ [c \in Cameras |-> low[c]]' = [[c \in Cameras |-> low[c]] EXCEPT ![q] = low'[q]]
         /\ [c \in Cameras |-> FrameOf(c)]' =
              [[c \in Cameras |-> FrameOf(c)] EXCEPT ![q] = FrameOf(q)']
  BY DEF Same

(* or not even its start and its result. *)
LEMMA OneCallOnly ==
  ASSUME NEW q \in Cameras, \A c \in Cameras : c # q => Same(c),
         low'[q] = low[q], FrameOf(q)' = FrameOf(q)
  PROVE  /\ [c \in Cameras |-> low[c]]' = [c \in Cameras |-> low[c]]
         /\ [c \in Cameras |-> FrameOf(c)]' = [c \in Cameras |-> FrameOf(c)]
  BY DEF Same

(* A camera leaves the register when it closes, dies or was never there. *)
LEMMA LeaveMaps ==
  ASSUME IInv, NEW q \in Cameras, \A c \in Cameras : c # q => Same(c),
         at[q] \in Places, at'[q] \notin Attached, low'[q] = 0,
         UNCHANGED <<consumerGen, writeSeq>> \/ Gone(q)
  PROVE  [Promise!Next]_Promise!vars
  <1>r. /\ CallOf(q)' = "away" /\ FrameOf(q)' = [seq |-> 0, gen |-> 0]
    BY CallPlacesNext DEF Attached
  <1>g. ASSUME Gone(q), NEW c \in Cameras, c # q PROVE CallOf(c) = "away"
    BY <1>g, CallPlaces DEF Gone, Attached, Processes, Readers
  <1>z. Gone(q) => Zeroed /\ consumerGen' = 0 /\ writeSeq' = 0
    BY DEF Gone, Zeroed
  <1>1. CASE at[q] \notin Attached
    <2>1. CallOf(q) = "away" /\ FrameOf(q) = [seq |-> 0, gen |-> 0] /\ low[q] = 0
      BY <1>1, CallPlaces DEF IInv, ReaderInv, Reader, Attached
    <2>2. \A c \in Cameras : Same(c)
      BY <1>r, <2>1 DEF Same
    <2> QED BY <1>g, <1>z, <2>1, <2>2, SilentStep
  <1>2. CASE at[q] \in Attached
    <2>1. CallOf(q) # "away"
      BY <1>2, CallPlaces
    <2>2. UNCHANGED <<consumerGen, writeSeq>> \/ Promise!Replaced(q)
      BY <1>g, <1>z DEF Promise!Replaced, Promise!Present
    <2>3. Promise!Depart(q)
      BY <1>r, <2>1, <2>2, OneCall DEF Promise!Depart, Promise!Present, Promise!Nothing
    <2> QED BY <2>3 DEF Promise!Next
  <1> QED BY <1>1, <1>2

LEMMA StepMaps ==
  ASSUME IInv, IInv', NEW q \in Processes, Step(q)
  PROVE  [Promise!Next]_Promise!vars
  <1>i. TypeOK /\ ClaimInv /\ GuardInv /\ CountInv /\ FreshInv /\ SlotInv /\ WriterInv /\ ReaderInv
    BY DEF IInv
  <1>s. \A c \in Cameras : c # q => Same(c)
    BY <1>i, OthersKept, KeptSame DEF Processes, Readers
  <1>t. /\ at \in [Processes -> Places] /\ low \in [Processes -> Nat]
        /\ writeSeq \in Nat /\ consumerGen' \in Nat /\ seq \in [Processes -> Nat]
    BY DEF IInv, TypeOK
  <1> USE DEF Goto, ringVars, headerVars, slotVars, localVars, callVars
  (* A producer or a viewer *)
  <1>1. CASE q \notin Cameras
    <2>1. \A c \in Cameras : Same(c)
      BY <1>1, <1>s
    <2>2. CASE Still
      BY <2>1, <2>2, SilentStep DEF Still
    <2>3. CASE Gone(q)
      <3>1. \A c \in Cameras : CallOf(c) = "away"
        BY <1>1, <2>3, CallPlaces DEF Gone, Attached, Processes, Readers
      <3> QED BY <2>1, <2>3, <3>1, SilentStep DEF Gone
    <2>4. CASE q \in Producers /\ Writes(q)
      <3>1. CASE WriteAnnounce(q)
        <4>1. seq[q] = writeSeq
          BY <2>4, <3>1, <1>i DEF WriteAnnounce, WriterInv, Writer
        <4>2. writeSeq' = writeSeq + 1 /\ UNCHANGED consumerGen
          BY <3>1, <4>1 DEF WriteAnnounce
        <4>3. Promise!Announce
          BY <4>2, <2>1, AllSame DEF Promise!Announce
        <4> QED BY <4>3 DEF Promise!Next
      <3>2. CASE ~WriteAnnounce(q)
        <4>1. UNCHANGED <<consumerGen, writeSeq>>
          BY <2>4, <3>2 DEF Writes, WriteBegin, Fill, WriteStable
        <4> QED BY <4>1, <2>1, SilentStep
      <3> QED BY <3>1, <3>2
    <2> QED BY <1>1, <1>i, <2>2, <2>3, <2>4, RingKinds
  <1>2. CASE q \in Cameras
    <2>w. q \notin Producers /\ q \notin Viewers
      BY <1>2, ProcessesAssumption
    <2>r. Reader(q)
      BY <1>2, <1>i DEF ReaderInv
    (* Inside a call nothing shows. *)
    <2>c. ASSUME CallOf(q)' = CallOf(q), at[q] # "done", low'[q] = low[q],
                 UNCHANGED <<consumerGen, writeSeq>>
          PROVE  [Promise!Next]_Promise!vars
      <3>1. FrameOf(q)' = FrameOf(q)
        BY <2>c, CallPlaces, CallPlacesNext
      <3>2. \A c \in Cameras : Same(c)
        BY <1>s, <2>c, <3>1 DEF Same
      <3> QED BY <2>c, <3>2, SilentStep
    <2>l. ASSUME Leave(q), NEW place \in {"closed", "dead"}, Goto(q, place), minted' = minted
          PROVE  [Promise!Next]_Promise!vars
      <3>1. at'[q] \notin Attached /\ low'[q] = 0
        BY <2>l, <1>t DEF Leave, Closed, Returned, Attached
      <3>2. Still \/ Gone(q)
        BY <2>l, <1>i, LeaveKinds
      <3>3. UNCHANGED <<consumerGen, writeSeq>> \/ Gone(q)
        BY <3>2 DEF Still
      <3> QED BY <1>2, <1>s, <1>t, <3>1, <3>3, LeaveMaps
    <2>1. CASE Map(q)
      <3>1. at[q] \notin Attached /\ at[q] # "done" /\ at'[q] \notin Attached /\ low' = low
            /\ UNCHANGED <<consumerGen, writeSeq>>
        BY <2>1, <1>t DEF Map, Attached
      <3> QED BY <3>1, <2>c, CallPlaces, CallPlacesNext
    <2>2. CASE GuardTimeout(q) \/ Unmap(q) \/ Die(q)
      BY <2>2, <2>l DEF GuardTimeout, Unmap, Die
    <2>3. CASE CreateLock(q)
      <3>1. CASE Leave(q) /\ Goto(q, "closed")
        BY <2>3, <3>1, <2>l DEF CreateLock
      <3>2. CASE ~(Leave(q) /\ Goto(q, "closed"))
        <4>1. at[q] \notin Attached /\ at[q] # "done" /\ at'[q] \notin Attached /\ low' = low
              /\ UNCHANGED <<consumerGen, writeSeq>>
          BY <2>3, <3>2, <1>t DEF CreateLock, Attached
        <4> QED BY <4>1, <2>c, CallPlaces, CallPlacesNext
      <3> QED BY <3>1, <3>2
    <2>4. CASE CreateAttach(q)
      <3>1. /\ at[q] = "create" /\ at'[q] = "attached" /\ low'[q] = 0
        BY <2>4, <1>t DEF CreateAttach, Returned
      <3>2. low[q] = 0 /\ CallOf(q) = "away" /\ CallOf(q)' = "idle" /\ FrameOf(q)' = FrameOf(q)
        BY <3>1, <2>r, CallPlaces, CallPlacesNext DEF Reader, Attached
      <3>3. UNCHANGED <<consumerGen, writeSeq>> \/ Promise!Replaced(q)
        <4>1. CASE Still
          BY <4>1 DEF Still
        <4>2. CASE Renewed(q)
          <5>1. \A c \in Cameras : CallOf(c) = "away"
            BY <4>2, CallPlaces DEF Renewed, Present
          <5> QED BY <4>2, <5>1, <1>t DEF Renewed, Promise!Replaced, Promise!Present
        <4>3. ~Gone(q)
          BY <3>1 DEF Gone
        <4> QED BY <4>1, <4>2, <4>3, <1>i, <2>w, RingKinds
      <3>4. Promise!Arrive(q)
        BY <1>2, <1>s, <3>1, <3>2, <3>3, OneCall, OneCallOnly DEF Promise!Arrive, Promise!Present
      <3> QED BY <1>2, <3>4 DEF Promise!Next
    <2>5. CASE Open(q)
      BY <1>2, <2>5 DEF Open
    <2>6. CASE Withdraw(q)
      <3>1. at'[q] \notin Attached /\ at[q] = "attached" /\ low' = low
            /\ UNCHANGED <<consumerGen, writeSeq>>
        BY <2>6, <1>t DEF Withdraw, Attached
      <3>2. low'[q] = 0
        BY <3>1, <2>r DEF Reader
      <3> QED BY <1>2, <1>s, <1>t, <3>1, <3>2, LeaveMaps
    <2>7. CASE ReadBegin(q)
      <3>1. /\ at[q] = "attached" /\ at'[q] = "readSeq" /\ low'[q] = writeSeq
            /\ UNCHANGED <<consumerGen, writeSeq>>
        BY <2>7, <1>t DEF ReadBegin
      <3>2. CallOf(q) = "idle" /\ CallOf(q)' = "reading" /\ FrameOf(q)' = FrameOf(q)
        BY <3>1, CallPlaces, CallPlacesNext DEF Attached
      <3>3. [c \in Cameras |-> FrameOf(c)]' = [c \in Cameras |-> FrameOf(c)]
        BY <1>s, <3>2 DEF Same
      <3>4. Promise!Begin(q)
        BY <1>2, <1>s, <3>1, <3>2, <3>3, OneCall DEF Promise!Begin
      <3> QED BY <1>2, <3>4 DEF Promise!Next
    <2>8. CASE ReadSeq(q) \/ ReadBefore(q) \/ ReadMeta(q) \/ (\E part \in Parts : ReadPart(q, part))
               \/ ReadRetry(q)
      <3>1. /\ at[q] \in Attached \ {"attached", "done"} /\ at'[q] \in Attached \ {"attached", "done"}
            /\ low' = low /\ UNCHANGED <<consumerGen, writeSeq>>
        BY <2>8, <1>t DEF ReadSeq, ReadBefore, ReadMeta, ReadPart, ReadRetry, Contended, Attached
      <3> QED BY <3>1, <2>c, CallPlaces, CallPlacesNext
    <2>9. CASE ReadAfter(q)
      <3>1. /\ at[q] = "copy" /\ at'[q] = "done" /\ CopyStands(q)
            /\ UNCHANGED <<consumerGen, writeSeq, low, buf>>
        BY <2>9, <1>t DEF ReadAfter, CopyStands, Moves
      <3>2. CallOf(q) = "reading" /\ CallOf(q)' = "done"
        BY <3>1, CallPlaces, CallPlacesNext DEF Attached
      <3>3. /\ Whole(buf[q]) /\ buf[q][Meta].gen = consumerGen
            /\ buf[q][Meta].seq \in (low[q]..writeSeq + 1) \ {0}
        BY <1>2, <1>i, <2>r, <3>1, CopyIsFrame
      <3>4. FrameOf(q)' = [seq |-> buf[q][Meta].seq, gen |-> consumerGen]
        BY <3>1, <3>3 DEF FrameOf, Whole
      <3>5. [c \in Cameras |-> low[c]]' = [c \in Cameras |-> low[c]]
        BY <3>1
      <3>7. \E n \in ([c \in Cameras |-> low[c]][q]..writeSeq + 1) \ {0} :
               [c \in Cameras |-> FrameOf(c)]' =
                 [[c \in Cameras |-> FrameOf(c)] EXCEPT ![q] = [seq |-> n, gen |-> consumerGen]]
        <4>1. [c \in Cameras |-> FrameOf(c)]' =
                 [[c \in Cameras |-> FrameOf(c)] EXCEPT ![q] = FrameOf(q)']
          BY <1>2, <1>s, OneCall
        <4>2. [c \in Cameras |-> low[c]][q] = low[q]
          BY <1>2
        <4> QED BY <3>3, <3>4, <4>1, <4>2
      <3>6. Promise!Deliver(q)
        BY <1>2, <1>s, <3>1, <3>2, <3>5, <3>7, OneCall DEF Promise!Deliver
      <3> QED BY <1>2, <3>6 DEF Promise!Next
    <2>10. CASE ReadNothing(q) \/ ReadFrame(q)
      <3>1. /\ at[q] \in Attached \ {"attached"} /\ at'[q] = "attached" /\ low'[q] = 0
            /\ UNCHANGED <<consumerGen, writeSeq>>
        BY <2>10, <1>t DEF ReadNothing, ReadFrame, ReadReturn, Returned, Contended, Attached
      <3>2. /\ CallOf(q) \in {"reading", "done"} /\ CallOf(q)' = "idle"
            /\ FrameOf(q)' = [seq |-> 0, gen |-> 0]
        BY <3>1, CallPlaces, CallPlacesNext DEF Attached
      <3>3. Promise!Return(q)
        BY <1>2, <1>s, <3>1, <3>2, OneCall DEF Promise!Return, Promise!Nothing
      <3> QED BY <1>2, <3>3 DEF Promise!Next
    <2> QED BY <2>w, <2>1, <2>2, <2>3, <2>4, <2>5, <2>6, <2>7, <2>8, <2>9, <2>10
        DEF Step, Lifecycle, Read
  <1> QED BY <1>1, <1>2

(* The ring implements the register LatestFrame for its cameras: a read      *)
(* returns a whole frame of the current session, no older than the newest    *)
(* announced when it began, whatever the number of slots, parts, cameras and *)
(* producers; and a session is replaced only when no camera could notice.    *)
THEOREM RingImplements == Spec => ImplementsLatestFrame
  <1>1. Init => Promise!Init
    <2> SUFFICES ASSUME Init PROVE Promise!Init
      OBVIOUS
    <2>1. \A c \in Cameras : at[c] = "closed" /\ low[c] = 0
      BY DEF Init, Processes, Readers
    <2>2. \A c \in Cameras : CallOf(c) = "away" /\ FrameOf(c) = [seq |-> 0, gen |-> 0]
      BY <2>1, CallPlaces DEF Attached
    <2> QED BY <2>1, <2>2 DEF Init, Promise!Init, Promise!Nothing
  <1>2. IInv /\ IInv' /\ [Next]_vars => [Promise!Next]_Promise!vars
    <2> SUFFICES ASSUME IInv, IInv', [Next]_vars PROVE [Promise!Next]_Promise!vars
      OBVIOUS
    <2>1. CASE Next
      BY <2>1, NextIsStep, StepMaps
    <2>2. CASE UNCHANGED vars
      <3>1. \A c : Same(c)
        BY <2>2 DEF vars, localVars, callVars, Same, CallOf, FrameOf
      <3> QED BY <2>2, <3>1, SilentStep DEF vars, ringVars, headerVars
    <2> QED BY <2>1, <2>2
  <1> QED BY <1>1, <1>2, RingInvariant, PTL DEF Spec, ImplementsLatestFrame, Promise!Spec

=============================================================================
