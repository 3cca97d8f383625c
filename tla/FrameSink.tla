-------------------------------- MODULE FrameSink --------------------------------
(***************************************************************************)
(* FrameRingSink (windows/platform/src/frame_ring_sink.cpp): pictures are  *)
(* copied into staging slots on the pipeline's worker, read back and       *)
(* published to the frame ring on the sink's own thread; the geometry the  *)
(* camera asks for flows the other way, through desiredGeometry, into      *)
(* AdaptiveTransform::apply (windows/app/live_media_pipeline.cpp).         *)
(*                                                                         *)
(* publish and the read-back run under slotsMutex and are one step each.   *)
(* The camera, the ring behind the bridge and the GPU are external: the    *)
(* camera's request changes at any time, and every call may fail.          *)
(***************************************************************************)
EXTENDS Naturals, Sequences, FiniteSets

CONSTANTS Geometries, NoGeometry,
          Gone,         \* the ring has no camera
          Staging       \* kStagingSlots

ASSUME StagingAssumption == Staging \in Nat \ {0}
ASSUME MarkersApart ==
    NoGeometry \notin Geometries /\ Gone \notin Geometries \cup {NoGeometry}

Slots == 1..Staging

VARIABLES
    \* the worker: the transformed picture's geometry, while it has one
    shape,
    \* under slotsMutex: the slots' textures, the pictures in them, the order
    size, picture, pending, width,
    \* the sink's thread
    sink, shot, connected, state,
    desired,     \* desiredWidth x desiredHeight
    request      \* what the camera asks for

slotVars == <<size, picture, pending, width>>
threadVars == <<sink, shot, connected, state, desired>>
sinkVars == <<shape, slotVars, threadVars, request>>

-----------------------------------------------------------------------------
NoShot == [geometry |-> NoGeometry, picture |-> NoGeometry, sound |-> TRUE]
Empty == [s \in Slots |-> NoGeometry]

SinkInit ==
    /\ shape = NoGeometry
    /\ size = Empty /\ picture = Empty /\ pending = <<>> /\ width = NoGeometry
    /\ sink = "none" /\ shot = NoShot /\ connected = FALSE /\ state = "Stopped"
    /\ desired \in Geometries /\ request = Gone

(* start *)
Start ==
    /\ sink = "none" /\ sink' = "wait" /\ state' = "WaitingForConsumer"
    /\ UNCHANGED <<shape, slotVars, shot, connected, desired, request>>

-----------------------------------------------------------------------------
(* AdaptiveTransform::apply takes the geometry the sink wants now. *)
Transform ==
    /\ sink # "none" /\ shape = NoGeometry /\ shape' = desired
    /\ UNCHANGED <<slotVars, threadVars, request>>

(* configure: the geometry the slots already have, or new slots. *)
AnyShape == width # NoGeometry   \* mutant: a new geometry is not noticed
Configured == shape = width

Busy == {pending[i] : i \in DOMAIN pending}
First(free) == CHOOSE s \in free : \A t \in free : s <= t

(* publish: the first slot that is not pending gets the picture; with none   *)
(* left the picture is dropped.                                              *)
Stage(sizes, pictures, order, free) ==
    /\ size' = sizes
    /\ IF free = {}
       THEN picture' = pictures /\ pending' = order
       ELSE /\ pending' = Append(order, First(free))
            /\ picture' = [pictures EXCEPT ![First(free)] =
                   IF sizes[First(free)] = shape THEN shape ELSE NoGeometry]

Publish ==
    /\ shape # NoGeometry /\ shape' = NoGeometry
    /\ IF Configured
       THEN Stage(size, picture, pending, Slots \ Busy) /\ UNCHANGED width
       ELSE Stage([s \in Slots |-> shape], Empty, <<>>, Slots) /\ width' = shape
    /\ UNCHANGED <<threadVars, request>>

(* A texture or a query could not be created: the slots were emptied, some   *)
(* have the new texture, and width and height still name the old geometry.   *)
ConfigureFails ==
    /\ shape # NoGeometry /\ ~Configured
    /\ shape' = NoGeometry /\ state' = "Failed"
    /\ \E made \in 0..Staging :
         size' = [s \in Slots |-> IF s <= made THEN shape ELSE NoGeometry]
    /\ picture' = Empty /\ pending' = <<>>
    /\ UNCHANGED <<width, sink, shot, connected, desired, request>>

(* A frame the sink does not support *)
PublishFails ==
    /\ shape # NoGeometry /\ shape' = NoGeometry
    /\ UNCHANGED <<slotVars, threadVars, request>>

-----------------------------------------------------------------------------
(* run: the oldest pending slot is read back and freed.  It is sound if the  *)
(* slots really have the geometry that width and height name.                *)
Free(s) == picture' = [picture EXCEPT ![s] = NoGeometry]

ReadBack ==
    /\ sink = "wait" /\ pending # <<>> /\ sink' = "ring"
    /\ shot' = [geometry |-> width, picture |-> picture[Head(pending)],
                sound |-> \A s \in Slots : size[s] = width]
    /\ pending' = Tail(pending) /\ Free(Head(pending))
    /\ UNCHANGED <<shape, size, width, connected, state, desired, request>>

(* GetData or Map fails: the slot is given back, the frame dropped. *)
ForgetsOrder == SubSeq(pending, 1, Len(pending) - 1)   \* mutant: another slot's
GivesBack == Tail(pending)

ReadFails ==
    /\ sink = "wait" /\ pending # <<>>
    /\ pending' = GivesBack /\ Free(Head(pending)) /\ state' = "Failed"
    /\ UNCHANGED <<shape, size, width, sink, shot, connected, desired, request>>

Drops(to) == sink' = "wait" /\ shot' = NoShot /\ state' = to

(* After the preview observer: the conversion to NV12 fails ... *)
ConvertFails ==
    /\ sink = "ring" /\ Drops("Failed")
    /\ UNCHANGED <<shape, slotVars, connected, desired, request>>

(* ... there is no ring, or another producer owns it ... *)
OpenFails ==
    /\ sink = "ring" /\ ~connected
    /\ IF request = Gone THEN Drops("WaitingForConsumer") ELSE Drops("ProducerConflict")
    /\ UNCHANGED <<shape, slotVars, connected, desired, request>>

(* ... or the ring's request is read: it decides on this frame, and on the    *)
(* geometry of the pictures to come.                                          *)
KeepsDesired == desired   \* mutant: what the camera asks for is not taken over
NewDesired == IF request \in Geometries THEN request ELSE desired

AskRing ==
    /\ sink = "ring" /\ (connected \/ request # Gone)
    /\ connected' = TRUE /\ desired' = NewDesired
    /\ IF request \in Geometries /\ request # shot.geometry
       THEN Drops("AdaptingGeometry")
       ELSE sink' = "write" /\ UNCHANGED <<shot, state>>
    /\ UNCHANGED <<shape, slotVars, request>>

(* The write: a ring whose camera left is closed. *)
WriteRing ==
    /\ sink = "write"
    /\ \/ request = Gone /\ connected' = FALSE /\ Drops("WaitingForConsumer")
       \/ request # Gone /\ Drops("Publishing") /\ UNCHANGED connected
       \/ Drops("Failed") /\ UNCHANGED connected
    /\ UNCHANGED <<shape, slotVars, desired, request>>

(* The camera asks for a geometry, starts without asking yet, or leaves. *)
Camera(r) ==
    /\ r # request /\ request' = r
    /\ UNCHANGED <<shape, slotVars, threadVars>>

(* stop, once the worker has none of its pictures on the way: the thread is  *)
(* joined and all slots are dropped.                                         *)
Stop ==
    /\ sink = "wait" /\ shape = NoGeometry
    /\ sink' = "none" /\ connected' = FALSE /\ state' = "Stopped"
    /\ size' = Empty /\ picture' = Empty /\ pending' = <<>> /\ width' = NoGeometry
    /\ UNCHANGED <<shape, shot, desired, request>>

-----------------------------------------------------------------------------
Work == Transform \/ Publish \/ ConfigureFails \/ PublishFails
Thread == ReadBack \/ ReadFails \/ ConvertFails \/ OpenFails \/ AskRing \/ WriteRing

SinkNext ==
    \/ Start \/ Stop \/ Work \/ Thread
    \/ \E r \in Geometries \cup {NoGeometry, Gone} : Camera(r)

SinkSpec == SinkInit /\ [][SinkNext]_sinkVars

(* The sink's thread runs; what may fail does not fail for ever. *)
SinkFairness ==
    /\ SF_sinkVars(Publish) /\ SF_sinkVars(ReadBack)
    /\ SF_sinkVars(AskRing) /\ WF_sinkVars(WriteRing)

FairSinkSpec == SinkSpec /\ SinkFairness

-----------------------------------------------------------------------------
Shapes == Geometries \cup {NoGeometry}
States == {"Stopped", "WaitingForConsumer", "ProducerConflict", "AdaptingGeometry",
           "Publishing", "Failed"}

(* The kinds of the state.  A slot is pending at most once, and holds a       *)
(* picture only while it is.                                                  *)
SinkTypeOK ==
    /\ shape \in Shapes
    /\ size \in [Slots -> Shapes] /\ picture \in [Slots -> Shapes]
    /\ pending \in Seq(Slots) /\ Cardinality(Busy) = Len(pending)
    /\ \A s \in Slots \ Busy : picture[s] = NoGeometry
    /\ width \in Shapes
    /\ sink \in {"none", "wait", "ring", "write"} /\ connected \in BOOLEAN
    /\ shot \in [geometry : Shapes, picture : Shapes, sound : BOOLEAN]
    /\ state \in States /\ desired \in Geometries /\ request \in Shapes \cup {Gone}

(* What is read back from a slot is a picture of the geometry it is published *)
(* with, although publish reconfigures the slots while the sink's thread has  *)
(* others pending.  (Not after a reconfiguration that failed half way.)       *)
PictureGeometry ==
    sink \in {"ring", "write"} /\ shot.sound => shot.picture = shot.geometry

(* While pictures keep coming and the camera keeps asking for one geometry,  *)
(* frames of that geometry keep reaching the ring.                           *)
AdaptsToCamera ==
    \A g \in Geometries :
        []<>(shape # NoGeometry) /\ []<>(shape = NoGeometry)
            /\ <>[](request = g /\ sink # "none")
            => []<>(sink = "write" /\ shot.geometry = g)

(* The sink's slots are used by one side at a time (SinkTypeOK), and what is  *)
(* read back from one has the geometry it is published with.                  *)
SinkInv == SinkTypeOK /\ PictureGeometry

=============================================================================
