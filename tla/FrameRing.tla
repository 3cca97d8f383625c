------------------------------- MODULE FrameRing -------------------------------
(***************************************************************************)
(* The shared-memory frame ring between the producer in the user's session *)
(* and the virtual camera in Session 0 (windows/common/src/shm_ring.cpp).  *)
(*                                                                         *)
(* Every attached FrameRing object is a process of its own: a camera calls *)
(* create() and readLatest(), a viewer calls open(false) and readLatest(), *)
(* a producer calls open(true) and writeFrame(); any of them may die.      *)
(* One action is one shared-memory access that others can observe; what a  *)
(* process does under the named mutex is split only where somebody can     *)
(* look without it.  Shared memory is sequentially consistent: the release *)
(* and acquire fences of the seqlock order exactly the accesses that the   *)
(* actions order, and the order of a memcpy is left open.                  *)
(*                                                                         *)
(* A wait for the mutex may time out (lockWriteGuard).  A frame is written *)
(* and read part by part; Meta stands for the slot's size and geometry.    *)
(***************************************************************************)
EXTENDS Integers, FiniteSets

CONSTANTS
    Cameras,    \* rings opened with create(), counted as consumers
    Viewers,    \* rings opened read-only, not counted
    Producers,  \* rings opened for writing, each in its own process
    NoOne,      \* no process
    Parts,      \* what a frame is copied in
    Meta,       \* the part that readLatest inspects before it copies
    Slots,      \* kRingSlots
    MaxFrames,  \* bound: calls of writeFrame that begin to write
    MaxOpens    \* bound: calls of create and open

ASSUME ProcessesAssumption ==
    /\ Cameras \cap Viewers = {} /\ Cameras \cap Producers = {}
    /\ Viewers \cap Producers = {}
    /\ NoOne \notin Cameras \cup Viewers \cup Producers
ASSUME CamerasFinite == IsFiniteSet(Cameras)
ASSUME SizesAssumption ==
    /\ Meta \in Parts
    /\ Slots \in Nat \ {0}
    /\ MaxFrames \in Nat /\ MaxOpens \in Nat

VARIABLES
    \* the section
    handles,       \* the processes that have it mapped; it exists for them
    magic,         \* magic holds kRingMagic
    consumerCount, \* consumerCount
    consumerGen,   \* consumerGeneration
    owner,         \* ownerPid and ownerStartTime
    writeSeq,      \* writeSeq
    slotSeq,       \* slotSeq
    data,          \* the slots' bytes and metadata
    guard,         \* who holds the write guard
    \* the processes
    at,            \* where each is
    existed,       \* create()'s existed
    myGen,         \* consumerGeneration_
    seq,           \* the local seq of writeFrame and readLatest
    mark,          \* writeFrame's writingSeq, readLatest's before
    todo,          \* the parts still to be copied
    buf,           \* the reader's destination
    \* history
    low,           \* writeSeq when the reader's call began
    minted,        \* frames ever begun
    opens          \* rings ever opened

headerVars == <<magic, consumerCount, consumerGen, owner, writeSeq>>
slotVars   == <<slotSeq, data>>
ringVars   == <<headerVars, slotVars>>
callVars   == <<seq, mark, todo, buf, low>>
localVars  == <<existed, myGen, callVars>>
vars       == <<handles, ringVars, guard, at, localVars, minted, opens>>

-----------------------------------------------------------------------------
Readers   == Cameras \cup Viewers
Processes == Readers \cup Producers
SlotIds   == 0 .. Slots - 1
(* A frame: its identity, its number in writeSeq order, its generation. *)
Frames    == [id : Nat, seq : Nat, gen : Nat]
NoFrame   == [id |-> 0, seq |-> 0, gen |-> 0]

Attached == {"attached", "readSeq", "readBefore", "readMeta", "copy", "done"}
Writing  == {"locked", "fill", "announce"}

Goto(p, place) == at' = [at EXCEPT ![p] = place]
Moves(p, place) ==
    /\ Goto(p, place)
    /\ UNCHANGED <<handles, ringVars, guard, localVars, minted, opens>>

Bytes == [Parts -> Frames]
NoBytes == [part \in Parts |-> NoFrame]

(* p's call has returned, p's ring is closed: its locals are out of scope. *)
Returned(p) ==
    /\ seq' = [seq EXCEPT ![p] = 0] /\ mark' = [mark EXCEPT ![p] = 0]
    /\ todo' = [todo EXCEPT ![p] = {}] /\ buf' = [buf EXCEPT ![p] = NoBytes]
    /\ low' = [low EXCEPT ![p] = 0]
Closed(p) ==
    /\ Returned(p)
    /\ existed' = [existed EXCEPT ![p] = FALSE]
    /\ myGen' = [myGen EXCEPT ![p] = 0]

(* The pages are zero until create() initialises them. *)
Zeroed ==
    /\ magic' = FALSE /\ consumerCount' = 0 /\ consumerGen' = 0
    /\ owner' = NoOne /\ writeSeq' = 0
    /\ slotSeq' = [s \in SlotIds |-> 0]
    /\ data' = [s \in SlotIds |-> NoBytes]

(* p's handles are closed; the section goes with its last handle. *)
Leave(p) ==
    /\ Closed(p)
    /\ handles' = handles \ {p}
    /\ IF handles \subseteq {p} THEN Zeroed ELSE UNCHANGED ringVars

Init ==
    /\ handles = {} /\ magic = FALSE /\ consumerCount = 0 /\ consumerGen = 0
    /\ owner = NoOne /\ writeSeq = 0
    /\ slotSeq = [s \in SlotIds |-> 0]
    /\ data = [s \in SlotIds |-> NoBytes]
    /\ guard = NoOne
    /\ at = [p \in Processes |-> "closed"]
    /\ existed = [p \in Processes |-> FALSE]
    /\ myGen = [p \in Processes |-> 0]
    /\ seq = [p \in Processes |-> 0]
    /\ mark = [p \in Processes |-> 0]
    /\ todo = [p \in Processes |-> {}]
    /\ buf = [p \in Processes |-> NoBytes]
    /\ low = [p \in Processes |-> 0]
    /\ minted = 0 /\ opens = 0

-----------------------------------------------------------------------------
(* Opening and closing. *)

(* The section is opened and mapped; only create() makes a new one. *)
Map(p) ==
    /\ at[p] = "closed"
    /\ opens < MaxOpens
    /\ p \notin Cameras => handles # {}
    /\ opens' = opens + 1
    /\ handles' = handles \cup {p}
    /\ existed' = [existed EXCEPT ![p] = handles # {}]
    /\ Goto(p, "mapped")
    /\ UNCHANGED <<ringVars, guard, myGen, seq, mark, todo, buf, low, minted>>

(* The guard stays taken for five seconds: the call fails. *)
GuardTimeout(p) ==
    /\ at[p] = "mapped"
    /\ p \notin Viewers
    /\ guard # NoOne
    /\ Leave(p)
    /\ Goto(p, "closed")
    /\ UNCHANGED <<guard, minted, opens>>

(* create() takes the guard and checks an existing header's layout. *)
CreateLock(p) ==
    /\ at[p] = "mapped" /\ p \in Cameras
    /\ guard = NoOne
    /\ \/ /\ existed[p] /\ ~magic
          /\ Leave(p)
          /\ Goto(p, "closed")
          /\ UNCHANGED guard
       \/ /\ ~existed[p] \/ magic
          /\ guard' = p
          /\ seq' = [seq EXCEPT ![p] = consumerCount]
          /\ Goto(p, "create")
          /\ UNCHANGED <<handles, ringVars, existed, myGen, mark, todo, buf,
                         low>>
    /\ UNCHANGED <<minted, opens>>

(* A new header, a new generation of it with its frames withdrawn, or one   *)
(* more consumer of the current generation.                                 *)
CreateAttach(p) ==
    /\ at[p] = "create"
    /\ guard' = NoOne
    /\ Goto(p, "attached")
    /\ \/ /\ ~existed[p]
          /\ magic' = TRUE /\ consumerCount' = 1 /\ consumerGen' = 1
          /\ owner' = NoOne /\ writeSeq' = 0
          /\ slotSeq' = [s \in SlotIds |-> 0]
          /\ UNCHANGED data
       \/ /\ existed[p] /\ seq[p] = 0
          /\ consumerGen' = consumerGen + 1
          /\ consumerCount' = 1
          /\ writeSeq' = 0
          /\ slotSeq' = [s \in SlotIds |-> 0]
          /\ data' = [s \in SlotIds |-> [data[s] EXCEPT ![Meta] = NoFrame]]
          /\ UNCHANGED <<magic, owner>>
       \/ /\ existed[p] /\ seq[p] # 0
          /\ consumerCount' = seq[p] + 1
          /\ UNCHANGED <<magic, consumerGen, owner, writeSeq, slotVars>>
    /\ myGen' = [myGen EXCEPT ![p] = consumerGen']
    /\ existed' = [existed EXCEPT ![p] = FALSE]
    /\ Returned(p)
    /\ UNCHANGED <<handles, minted, opens>>

(* open(): a valid header with an active consumer, and for a producer no    *)
(* live claim.                                                              *)
ClaimIsLive == owner # NoOne /\ at[owner] # "dead"
UsableByAny(p) == magic /\ consumerCount # 0   \* mutant: no claim
Usable(p) == /\ magic /\ consumerCount # 0
             /\ p \in Producers => ~ClaimIsLive

Open(p) ==
    /\ at[p] = "mapped" /\ p \notin Cameras
    /\ p \in Producers => guard = NoOne
    /\ \/ /\ Usable(p)
          /\ owner' = IF p \in Producers THEN p ELSE owner
          /\ myGen' = [myGen EXCEPT ![p] = consumerGen]
          /\ Goto(p, "attached")
          /\ existed' = [existed EXCEPT ![p] = FALSE]
          /\ UNCHANGED <<handles, magic, consumerCount, consumerGen, writeSeq,
                         slotVars, callVars>>
       \/ /\ ~Usable(p)
          /\ Leave(p)
          /\ Goto(p, "closed")
    /\ UNCHANGED <<guard, minted, opens>>

WithdrawAny(p) ==   \* mutant: every ring is counted on close
    /\ at[p] = "attached"
    /\ consumerCount' = IF consumerCount > 0 THEN consumerCount - 1 ELSE 0
    /\ owner' = IF owner = p THEN NoOne ELSE owner
    /\ Goto(p, "unmap")
    /\ UNCHANGED <<handles, magic, consumerGen, writeSeq, slotVars, guard,
                   localVars, minted, opens>>

(* close() withdraws a camera's count and a producer's own claim, with the  *)
(* guard or, after five seconds, without it ...                             *)
Withdraw(p) ==
    /\ at[p] = "attached"
    /\ consumerCount' = IF p \in Cameras /\ consumerCount > 0
                        THEN consumerCount - 1 ELSE consumerCount
    /\ owner' = IF owner = p THEN NoOne ELSE owner
    /\ Goto(p, "unmap")
    /\ UNCHANGED <<handles, magic, consumerGen, writeSeq, slotVars, guard,
                   localVars, minted, opens>>

(* ... and unmaps the section. *)
Unmap(p) ==
    /\ at[p] = "unmap"
    /\ Leave(p)
    /\ Goto(p, "closed")
    /\ UNCHANGED <<guard, minted, opens>>

(* The process dies wherever it is: the kernel closes its handles and hands *)
(* the abandoned mutex to the next waiter.                                  *)
Die(p) ==
    /\ at[p] # "dead"
    /\ Leave(p)
    /\ guard' = IF guard = p THEN NoOne ELSE guard
    /\ Goto(p, "dead")
    /\ UNCHANGED <<minted, opens>>

-----------------------------------------------------------------------------
(* writeFrame. *)

Bound(p) == consumerCount # 0 /\ consumerGen = myGen[p]
Slot(n) == n % Slots

(* The odd mark, also when a dead producer left the slot odd. *)
WritingSeq(n) == n + IF n % 2 = 1 THEN 2 ELSE 1

(* The frame process p is writing. *)
Current(p) == [id |-> minted, seq |-> seq[p] + 1, gen |-> myGen[p]]

WriteLock(p) ==
    /\ at[p] = "attached" /\ p \in Producers
    /\ guard = NoOne
    /\ guard' = p
    /\ Goto(p, "locked")
    /\ UNCHANGED <<handles, ringVars, localVars, minted, opens>>

Unlock(p) == guard' = NoOne /\ Goto(p, "attached") /\ Returned(p)

WriteBegin(p) ==
    LET slot == Slot(writeSeq)
        writingSeq == WritingSeq(slotSeq[slot])
    IN
    /\ at[p] = "locked"
    /\ magic /\ Bound(p)
    /\ minted < MaxFrames
    /\ minted' = minted + 1
    /\ seq' = [seq EXCEPT ![p] = writeSeq]
    /\ slotSeq' = [slotSeq EXCEPT ![slot] = writingSeq]
    /\ mark' = [mark EXCEPT ![p] = writingSeq]
    /\ todo' = [todo EXCEPT ![p] = Parts]
    /\ Goto(p, "fill")
    /\ UNCHANGED <<handles, headerVars, data, guard, existed, myGen, buf, low,
                   opens>>

(* The ring is not the one this producer opened (or MaxFrames is reached). *)
WriteRefused(p) ==
    /\ at[p] = "locked"
    /\ ~(magic /\ Bound(p)) \/ minted = MaxFrames
    /\ Unlock(p)
    /\ UNCHANGED <<handles, ringVars, existed, myGen, minted, opens>>

Fill(p, part) ==
    LET slot == Slot(seq[p]) IN
    /\ at[p] = "fill"
    /\ part \in todo[p]
    /\ data' = [data EXCEPT ![slot] =
                  [data[slot] EXCEPT ![part] = Current(p)]]
    /\ todo' = [todo EXCEPT ![p] = todo[p] \ {part}]
    /\ UNCHANGED <<handles, headerVars, slotSeq, guard, at, existed, myGen,
                   seq, mark, buf, low, minted, opens>>

(* A generation that ended during the copy gets nothing: the slot stays odd. *)
WriteStable(p) ==
    /\ at[p] = "fill" /\ todo[p] = {}
    /\ Bound(p)
    /\ slotSeq' = [slotSeq EXCEPT ![Slot(seq[p])] = mark[p] + 1]
    /\ Goto(p, "announce")
    /\ UNCHANGED <<handles, headerVars, data, guard, localVars, minted, opens>>

WriteAbandoned(p) ==
    /\ at[p] = "fill" /\ todo[p] = {}
    /\ ~Bound(p)
    /\ Unlock(p)
    /\ UNCHANGED <<handles, ringVars, existed, myGen, minted, opens>>

WriteAnnounce(p) ==
    /\ at[p] = "announce"
    /\ writeSeq' = seq[p] + 1
    /\ Unlock(p)
    /\ UNCHANGED <<handles, magic, consumerCount, consumerGen, owner, slotVars,
                   existed, myGen, minted, opens>>

-----------------------------------------------------------------------------
(* readLatest.  Any failed attempt may be the eighth. *)

ReadBegin(p) ==
    /\ at[p] = "attached" /\ p \in Readers
    /\ low' = [low EXCEPT ![p] = writeSeq]
    /\ Goto(p, "readSeq")
    /\ UNCHANGED <<handles, ringVars, guard, existed, myGen, seq, mark, todo,
                   buf, minted, opens>>

(* S_OK with a frame, or S_FALSE. *)
ReadReturn(p) ==
    /\ Returned(p)
    /\ Goto(p, "attached")
    /\ UNCHANGED <<handles, ringVars, guard, existed, myGen, minted, opens>>

ReadSeq(p) ==
    /\ at[p] = "readSeq"
    /\ writeSeq # 0
    /\ seq' = [seq EXCEPT ![p] = writeSeq]
    /\ Goto(p, "readBefore")
    /\ UNCHANGED <<handles, ringVars, guard, existed, myGen, mark, todo, buf,
                   low, minted, opens>>

ReadSlot(p) == Slot(seq[p] - 1)

ReadBefore(p) ==
    /\ at[p] = "readBefore"
    /\ slotSeq[ReadSlot(p)] % 2 = 0
    /\ mark' = [mark EXCEPT ![p] = slotSeq[ReadSlot(p)]]
    /\ Goto(p, "readMeta")
    /\ UNCHANGED <<handles, ringVars, guard, existed, myGen, seq, todo, buf,
                   low, minted, opens>>

ReadMeta(p) ==
    /\ at[p] = "readMeta"
    /\ data[ReadSlot(p)][Meta] # NoFrame
    /\ buf' = [buf EXCEPT ![p] =
                 [buf[p] EXCEPT ![Meta] = data[ReadSlot(p)][Meta]]]
    /\ todo' = [todo EXCEPT ![p] = Parts \ {Meta}]
    /\ Goto(p, "copy")
    /\ UNCHANGED <<handles, ringVars, guard, existed, myGen, seq, mark, low,
                   minted, opens>>

ReadPart(p, part) ==
    /\ at[p] = "copy"
    /\ part \in todo[p]
    /\ buf' = [buf EXCEPT ![p] =
                 [buf[p] EXCEPT ![part] = data[ReadSlot(p)][part]]]
    /\ todo' = [todo EXCEPT ![p] = todo[p] \ {part}]
    /\ UNCHANGED <<handles, ringVars, guard, at, existed, myGen, seq, mark,
                   low, minted, opens>>

(* Unmoved, the sequence lets the copy stand. *)
CopyAlways(p) == at[p] = "copy" /\ todo[p] = {}   \* mutant: unchecked
CopyStands(p) ==
    /\ at[p] = "copy" /\ todo[p] = {}
    /\ slotSeq[ReadSlot(p)] = mark[p]
ReadAfter(p) ==
    /\ CopyStands(p)
    /\ Moves(p, "done")

(* A write in flight, an empty slot, a torn copy. *)
Contended(p) ==
    \/ at[p] = "readBefore" /\ slotSeq[ReadSlot(p)] % 2 = 1
    \/ at[p] = "readMeta" /\ data[ReadSlot(p)][Meta] = NoFrame
    \/ at[p] = "copy" /\ todo[p] = {} /\ slotSeq[ReadSlot(p)] # mark[p]
ReadRetry(p) ==
    /\ Contended(p)
    /\ seq' = [seq EXCEPT ![p] = 0] /\ mark' = [mark EXCEPT ![p] = 0]
    /\ todo' = [todo EXCEPT ![p] = {}] /\ buf' = [buf EXCEPT ![p] = NoBytes]
    /\ Goto(p, "readSeq")
    /\ UNCHANGED <<handles, ringVars, guard, existed, myGen, low, minted, opens>>

(* No frame: nothing published yet, the last attempt was contended too, or  *)
(* the geometry is implausible or the frame larger than the destination.    *)
ReadNothing(p) ==
    /\ \/ at[p] = "readSeq" /\ writeSeq = 0
       \/ Contended(p)
       \/ at[p] = "readMeta"
    /\ ReadReturn(p)

ReadFrame(p) ==
    /\ at[p] = "done"
    /\ ReadReturn(p)

-----------------------------------------------------------------------------
Lifecycle(p) ==
    \/ Map(p) \/ GuardTimeout(p) \/ CreateLock(p) \/ CreateAttach(p) \/ Open(p)
    \/ Withdraw(p) \/ Unmap(p) \/ Die(p)

Write(p) ==
    \/ WriteLock(p) \/ WriteBegin(p) \/ WriteRefused(p)
    \/ \E part \in Parts : Fill(p, part)
    \/ WriteStable(p) \/ WriteAbandoned(p) \/ WriteAnnounce(p)

Read(p) ==
    \/ ReadBegin(p) \/ ReadSeq(p) \/ ReadBefore(p) \/ ReadMeta(p)
    \/ \E part \in Parts : ReadPart(p, part)
    \/ ReadAfter(p) \/ ReadRetry(p) \/ ReadNothing(p) \/ ReadFrame(p)

Next ==
    \/ \E p \in Processes : Lifecycle(p)
    \/ \E p \in Producers : Write(p)
    \/ \E p \in Readers : Read(p)

Spec == Init /\ [][Next]_vars

-----------------------------------------------------------------------------
Places == {"closed", "mapped", "create", "unmap", "dead"}
            \cup Attached \cup Writing

TypeOK ==
    /\ handles \subseteq Processes
    /\ magic \in BOOLEAN /\ consumerCount \in Nat /\ consumerGen \in Nat
    /\ owner \in Producers \cup {NoOne} /\ writeSeq \in Nat
    /\ slotSeq \in [SlotIds -> Nat]
    /\ data \in [SlotIds -> Bytes]
    /\ guard \in Processes \cup {NoOne}
    /\ at \in [Processes -> Places]
    /\ existed \in [Processes -> BOOLEAN]
    /\ myGen \in [Processes -> Nat] /\ seq \in [Processes -> Nat]
    /\ mark \in [Processes -> Nat] /\ todo \in [Processes -> SUBSET Parts]
    /\ buf \in [Processes -> Bytes]
    /\ low \in [Processes -> Nat]
    /\ minted \in Nat /\ opens \in Nat

(* What readLatest returns is one whole frame, however producers, deaths,    *)
(* retries and generation changes interleave with the copy.                  *)
WholeFrame ==
    \A p \in Readers : at[p] = "done" =>
        \A x, y \in Parts : buf[p][x] = buf[p][y]

(* The single-producer claim: two live rings never both believe they may     *)
(* write, through deaths, reclaims and late closes.                          *)
HoldsClaim(p) == at[p] \in {"attached"} \cup Writing
SingleProducer ==
    \A p, q \in Producers : HoldsClaim(p) /\ HoldsClaim(q) => p = q

(* The count never falls below the attached cameras, so that no create()     *)
(* withdraws the frames under a camera that is reading them.                 *)
CamerasCounted ==
    Cardinality({c \in Cameras : at[c] \in Attached}) <= consumerCount

(* The ring is the register its header comment promises: a torn copy, a      *)
(* frame of another session or an outdated frame maps to no result of        *)
(* LatestFrame.                                                              *)
CallOf(c) ==
    IF at[c] = "done" THEN "done"
    ELSE IF at[c] = "attached" THEN "idle"
    ELSE IF at[c] \in Attached THEN "reading" ELSE "away"
FrameOf(c) ==
    IF at[c] = "done" /\ \A x \in Parts : buf[c][x] = buf[c][Meta]
    THEN [seq |-> buf[c][Meta].seq, gen |-> buf[c][Meta].gen]
    ELSE [seq |-> 0, gen |-> 0]

Promise == INSTANCE LatestFrame WITH
    session <- consumerGen,
    newest  <- writeSeq,
    call    <- [c \in Cameras |-> CallOf(c)],
    low     <- [c \in Cameras |-> low[c]],
    frame   <- [c \in Cameras |-> FrameOf(c)]
ImplementsLatestFrame == Promise!Spec

=============================================================================
