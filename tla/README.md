# remoteCam: verification

TLA+ models of remoteCam, which turns an iPhone into a Windows webcam, with the
TLC configurations that check them on small instances and TLAPS proofs of what
matters most for every instance. Paths are relative to the repository.

## 1. The system

```
 iPhone                            Windows user session                Session 0 (Frame Server)
 CaptureEngine, VideoEncoder       TcpListener --frames--> SessionController
 RemoteCamSession  == TCP ==>        |  security (pairing, protector)
 AppModel                            |  consume/reset
                                     v
                                   LiveMediaPipeline -> decoder -> Mp4Recorder, preview
                                     |
                                     v
                                   FrameRingSink == FrameRing (shared memory) ==> FrameSource
                                                                                  MediaStream/MediaSource
```

| component | state | operations | interacts through | hard behaviour |
|---|---|---|---|---|
| **SessionController** `windows/backend` | connection pointer, state, trust, protector, queue with tokens, pending and committed format generation, consumer, deadlines | onConnected, onFrame (control, video), onDisconnected; sendFormat and the other sends; setConsumer; watchdog | called by the listener's thread, the GUI thread and the media worker; calls the consumer; owns a watchdog thread | two mutexes and four threads; what is copied under one lock and used after it; deadlines racing answers |
| **FrameRing** `windows/common/src/shm_ring.cpp` | section header, four slots, named mutex, producer claim, consumer count and generation | create, open, close, writeFrame, readLatest, requestGeometry | shared memory between processes of two Windows sessions | lock-free readers, processes that die anywhere, generations, claims |
| TcpListener, Connection `windows/net` | socket, listening flag, the one connection | start, stop, accept, serve, send, close | calls the session handler | stop against accept, a dead connection that keeps the slot |
| Session security `windows/security` | attempt window, pending challenges, pairing record, envelope counters | begin, finish; protect, open; beginAttempt; pairing; save, load, erase | called under the session's handlers and from the senders | replay and order of envelopes, limits at their edge, a crash while saving |
| LiveMediaPipeline, VideoPipeline `windows/app`, `windows/platform` | worker queue, decoder, recorder | consume, reset, run, start/stop recording | the session's consumer; feeds sink, recorder and preview | reset while a unit is being decoded, losses |
| FrameRingSink `windows/platform` | staging slots, pending pictures, requested geometry, bridge state | configure, publish, read back, start, stop | writes FrameRing, reads the camera's request | slots reconfigured under pending pictures |
| Mp4Recorder `windows/platform` | recorder state, queue, files | start, enqueue, stop, run | pipeline, GUI | stop, overflow and writer failure in any order |
| FrameSource, MediaStream, MediaSource `windows/vcam` | stream state, sample requests, frame thread | Start, Stop, Pause, Shutdown, SetStreamState, RequestSample | Media Foundation; reads FrameRing | stop and shutdown against the frame thread |
| Registrar `windows/register`, `windows/installer` | registry keys, camera device, firewall rule, files | register, unregister, status, preflight; install, roll back, uninstall | run by setup and by the application's launch | a failure or a kill between any two calls |
| Advertiser, shell `windows/app` | record state, outstanding DNS call | start, restart, withdraw, completions | Windows's DNS client | answers that come late |
| SessionStatus, PhoneController, policy `windows/app` | label, downgrade warning, pending control values, timer | queued session events, 75 ms coalescing | the session's notifications; calls the session | late events, changes around a reconnect |
| core `core/src` | wire decoder buffer | append, encode, annexb split and inspect, CBOR and control codecs | both ends | partial input |
| Phone `ios` | phase, negotiated trust, encoder configuration | connect, handle, sendVideo, reconnect | TCP to the PC | set_format against frames in flight |

What makes each correct, in one line: the session hands the decoder only media
it can decode, sends nothing in the clear while it is served, ends sessions that
stall and touches no dead connection; the ring shows a camera one whole, current frame of its own
session; the listener serves one phone, serves it again after a loss and can
always be stopped; the security layer bounds failed attempts, grants a challenge
once, accepts each envelope once and in order, and never loses a saved pairing;
pipeline, sink and recorder apply a reset, a geometry or a stop to exactly the
units it is meant for; the camera serves every request and can be shut down; the
registrar working alone never leaves a camera that cannot be activated; the window
shows what is the case. `PROJECT.json` lists every component and, at its line, the hazards.

## 2. Modules

| module | content |
|---|---|
| `SessionController` | the backend session with its threads, and its correctness properties |
| `SessionControllerProofs` | nine theorems about the session |
| `FrameRing` | the shared-memory ring with its processes |
| `LatestFrame` | what the ring promises a camera, abstractly; `FrameRing` is shown to implement it |
| `FrameRingProofs` | five theorems about the ring, the refinement of `LatestFrame` among them |
| `Mp4Recorder` | the recorder: owner, feeder and worker threads, files, crashes |
| `RecordingControl` | the GUI's recording controls, composed over `Mp4Recorder` |
| `Mp4RecorderProofs` | seven theorems about the recorder and its controls |
| `LivePipeline` | the decode worker behind the session's consumer |
| `LivePipelineProofs` | six theorems: the safety of `LivePipeline` and of `FrameSink`, and what `MediaBytes` computes |
| `MediaBytes` | wire framing and access-unit inspection, as functions |
| `FrameSink` | the staging slots and thread between pipeline and ring, and the geometry loop |
| `VirtualCamera` | media source, stream, frame thread and frame source in the Frame Server |
| `VirtualCameraProofs` | three theorems about the camera |
| `SessionSecurity` | attempt policy, challenge and proof, numbered envelopes, pairing and its record |
| `SessionSecurityProofs` | four theorems about security |
| `Receiver` | listener, session phases, watchdog and status label |
| `ControlPanel` | the coalesced camera controls |
| `Reception` | `Receiver` and `ControlPanel` as main() composes them |
| `ReceptionProofs` | eight theorems about the receiver, the label, the controls, the messages' schemas and the heads of CBOR |
| `CborHeads` | the heads of CBOR items: their writing and reading, as functions |
| `Cbor` | the control channel's CBOR codec, byte for byte, as functions |
| `MessageFields` | control messages by their fields: what builders put in and parsers accept |
| `ControlMessages` | control messages as bytes, over `Cbor` and `MessageFields` |
| `CameraRegistrar` | the registration tool with setup and the application as its callers |
| `Advertiser` | the Bonjour advertiser over Windows's DNS client |
| `DesktopLaunch` | `CameraRegistrar` and `Advertiser` as a launch composes them |
| `DesktopLaunchProofs` | three theorems about registration and advertisement |
| `MC...` | each extends one of the above for TLC (model values, symmetry) |

### SessionController

The model has a program counter per thread (`at["net"]`, `at["ui"]`, `wd`); one
action is one critical section of `mutex_`, one half of a consumer callback under
`consumerMutex_`, or one operation on the Connection, so every interleaving the
mutexes allow is a behaviour. Variables carry the members' names without the
trailing underscore; each declaration names its member.

* The connection thread is `TcpListener::serveConnection`: `OnConnected`, then
  `CheckValid`, a receive, one handler, and again; `RequestStop`, `DropProtector`
  and `OnDisconnected` at the end. A handler that unlocks between two steps, or
  writes an atomic before it locks, is two actions (`HandleVideo` then `Enqueue`;
  `InstallProtector` then `GrantTrust`; `DropProtector` then `OnDisconnected`). The
  socket is open until both are done unless something closed it before.
* The GUI thread may call `SendFormat`, the other commands and, where
  `SwapConsumers` is not empty, `SetConsumer`. `drainQueue` and `resetConsumer`
  are run by whichever thread is at them, hence their parameter `t`.
* The watchdog is `WatchdogLoop`, `WatchdogCheck` under the lock and
  `WatchdogClose` outside it.
* The phone is arbitrary: every frame type in every order, well formed or not,
  acknowledging any generation.
* Time: a stamp is recent or overdue. `Elapse` ages a stamp the watchdog
  currently compares; taking it again makes it recent. Durations and the 100 ms
  poll are abstracted.
* Abstracted: message contents (only the outcomes the handlers tell apart),
  bytes (`bytesExceeded` is a free choice for a non-empty queue), metrics, the
  notification observer, and the generation, which stands for its
  configuration. A connection's number stands for its address.

### FrameRing and LatestFrame

Every attached ring is a process: cameras (`create`, counted), viewers
(`open(false)`, not counted) and producers (`open(true)`). One action is one
observable access of the section; a frame is copied part by part, in any order,
`Meta` being the slot's size and geometry. `Die` may happen anywhere and leaves
an abandoned mutex that the next waiter gets. `GuardTimeout` is the five-second
timeout of `create` and `open`; `close()` goes on without the guard after its
timeout, so `Withdraw` does not need it. A failed read attempt may be the eighth.

The model is sequentially consistent. The code's fences order exactly the
accesses that the actions order (odd mark before the payload, payload before the
even mark, and the reader's mirror image); behaviours that only a weaker order
of the relaxed metadata loads could give are outside it. `resetPublishedFrames`
and the new header are one step: both run under the guard with no camera
counted. The header's `format` word, which every producer sets to NV12,
`requestGeometry` and `lastWriteQpc` are not modelled.

`LatestFrame` has no slots, sequences or handles: a read returns a whole frame
of the present session, no older than the newest announced when the read began
and at most one ahead of the announcements, or nothing. One ahead is real: the
slot turns even before `writeSeq` moves, so a reader that is lapped can return
the frame about to be announced, and its next read may go back to the one
before. `FrameRing!Promise` is the refinement mapping.

### Mp4Recorder and RecordingControl

Three threads have a place each: `owner` in `start()` or `stop()` (serialised by
`lifecycleMutex_`), `feeder` in `enqueue()`, `worker` in `run()`. One action is
one critical section of `queueMutex_` or `statusMutex_`, one call of the writer
or one file operation; where the code holds both locks, as `enqueue` and the
worker's take do, that is one action. The condition variable is `asleep` and
`Notified`; spurious wakeups only repeat the test and are left out. Every writer
and file operation may fail (removing a partial file is taken to succeed), and
`Crash` keeps only the files. A session's number stands for its paths; pixels
and conversions are abstracted to success or failure, and only a frame's id and
capture time are kept. `MaxTime` is the greatest sample time (`LONGLONG`'s maximum):
`Timestamp` saturates there as `MonotonicTimeline` does. `film`, `minted`, `accepted` and `dropped` are history.

`RecordingControl` extends the recorder with the GUI thread, which is its owner:
`startRecording`, `stopRecording`, the observer's posted events and the queued
stop after a frame of another size. `RecorderStep` is any step inside the
recorder together with the event its observer posts. An event carries the
snapshot of its posting although the code discards it and reads the state at
delivery (`ShownNow`): that is the point `UiNeverReverts` is about.

### LivePipeline and MediaBytes

`LivePipeline` has two threads: the session's (`Consume`, `Reset`, and
`ConsumeAsks` for the keyframe request consume makes after unlocking) and the
worker. A step is one section of `queueMutex_` with the worker's private work
before it. A unit is its generation, its number modulo `Wrap` and whether it is
a keyframe; `decoder` is what the decoder was last given. `waiting` tells the
reasons apart for which the worker waits for a keyframe, because only some of
them ask the phone for one. Decoding and the codec's selection may fail at any
unit. Recording is `RecordingControl`; screenshots and the preview are left out.

`MediaBytes` holds what happens to bytes before that: `DecoderAppend` is
`Decoder::append` with its read offset and its compaction, `Split` and `Inspect`
are `annexb.cpp`; a loop is a function of the number of its passes, and `Pass` and
`NalPass` are one pass. They are pure; the two properties compare them with their
definition (concatenation; the units put in) over every bounded byte sequence
that may stand for the units a state of the pipeline holds.

### FrameSink

`publish` (pipeline's worker) and the read-back (sink's thread) run under
`slotsMutex`, one step each. Each slot has the geometry of its texture and of the
picture in it; a reconfiguration to another device of the same size
(`frame_ring_sink.cpp:58`) is left out; one that fails half way is modelled, and marks what
is read from such a slot as not sound. `desired` is what `AdaptiveTransform`
takes, `request` what the camera asks for through the ring; the ring itself is
reduced to these. Opening, converting, reading and writing may fail; `run()`
giving up because the bridge cannot be created (`frame_ring_sink.cpp:130`) is left out.

### VirtualCamera

The callers are three threads of the Frame Server, each with a place; the frame
thread is `worker`. A step ends where the code takes or releases
`lifecycleMutex_` or `mutex_`, waits for the frame thread, or calls FrameSource.
Requests are numbered, so that order and loss can be stated; a sample is the
request it answers and the geometry of its pixels. `request` and `cache` are the
geometry in the ring's present generation and the one FrameSource remembers
having published. `requestGeometry` is taken to succeed on an open ring.

### SessionSecurity

One phone with several sources. `log` is the history of attempts; `charged` the
attempts that still count against the policy, `pending` the challenge open for
each source. A key is the number of the pairing that made it, and a proof is
right if made with that key for that nonce: ciphers, hashes and the curve are
external. Envelopes are numbered per channel with the limit
`MaxRecords` (`kMaximumSessionRecordsPerChannel`); `used` and `accepted` record
what was numbered and accepted. `save` is one action per file operation, each of
which may fail, and power may be lost between any two: what was not flushed is
then incomplete. Time is a counter; lives, window and cooldown are constants.

### Receiver, ControlPanel, Reception

`Receiver` has the main thread (start, event loop, the steps of `stop()`), the
accept thread, the connection's thread and the watchdog, and the session reduced
to its phases and to the order of what it notifies; `events` is the window's
queue. The phone dials whenever it has no connection, also while the PC still
holds a dead one. `handleHello` reads the unauthenticated policy twice (what it
tells, `told`, and what it grants), and the switch may move in between; `Slipped`
says that it was thrown on there (section 3). `ControlPanel` is one control:
the chosen position, the pending field, the single-shot timer and what the phone
was told. `Reception` adds that the window's objects run only in the event loop.

### CborHeads, Cbor, MessageFields, ControlMessages

A CBOR value is a pair of its type and its contents; an integer is the digits of
its argument in base 256, so that all 64 bits are there, and a double is its
eight bytes. `CborHeads` has `appendHead` and `readArgument`, the only places where
arguments and lengths become bytes and back; `Encoded` and `Decoded` of `Cbor` are
`encode` and `decode`, with the errors in the code's order, its depth and element
limits as constants, and `isValidUtf8`.
`ControlMessages` has `Message::encode` and `decode` over them. `MessageFields` is
what comes above the bytes, with the data abstracted: a field has a kind (a text
that is empty or too long, a device id, 32 bytes, zero, a number that is not
finite, ...), `Built` is what a builder may put in, `Allowed` and `MayMiss` what a
parser takes. It and `ControlMessages` extend `Reception`: the properties speak of
the position the phone was told and of the messages that the session waits for in
its phase. What a half or a single float widens to and the builders of messages
that only the phone reads are left out.

### CameraRegistrar, Advertiser, DesktopLaunch

The machine is the CLSID's keys, the camera device, the firewall rule and the
files. Each caller has a job, a sequence of modes of the tool (`register`,
`unregister`, ...), and a place in the tool; every call into Windows is a step
that may fail. Nothing makes the callers take turns, as nothing in the code does. A
caller may be killed between any two steps; the tool it was waiting for goes on as one
of `Orphans` (`CreateProcessW` is given no job object) until it ends or is killed in
its turn. Two history variables say what a property may rely on: `sole` is the
caller that has had the machine for itself since its job began, and `mixed` that
jobs have overlapped, or that Windows denied the link of a camera it has, and no
job of a sole caller has registered or unregistered since. A tool that is killed
while its caller lives on is not modelled. `Advertiser` keeps the requests Windows has accepted
and and not answered, which it is taken to work off in their order; `restart()` may come
at any time. at any time. In `DesktopLaunch` the
application binds and advertises only after the helper has returned.

## 3. Runs

| run | checks | instance |
|---|---|---|
| `SessionMedia` | `DecoderGeneration` `DecodableDelivery` `ConnectionInScope` `EnvelopedWhileServed` | authenticated handshake, two connections, a queue of 2, three frames, one live format change |
| `SessionFormats` | `GenerationNeverRegresses` `PopsOnlyConsumed` | no session security, one connection, three format changes with every kind of answer, two frames, and an owner that swaps the consumer |
| `SessionDeadlines` | `StallsEnd` | liveness, all seven deadlines: before streaming, for a stream's video and for a format change |
| `RingHandoff` | `SingleProducer` `CamerasCounted` `WholeFrame` `ImplementsLatestFrame` | two cameras, two producers, two slots, three frames, four opens |
| `RecorderFiles` | `StopReturns` `StopGuarantee` `OutputReplacedWhole` | two recordings, a queue of 2, four frames, a clock that stands still, jumps beyond the greatest sample time and goes back, failures and crashes everywhere |
| `RecordingControls` | `UiNeverReverts` `UiProgress` | two recordings, a queue of 1, one frame of the recording's size and any number of others |
| `LiveDecode` | `PipelineInv` `ChunksReassembled` `UnitsInspected` `PipelineProgress` | a queue of 3, unit numbers modulo 5, two resets; streams of two frames with payloads up to 2 bytes in three chunks; access units of up to 4 NAL units |
| `RingSink` | `SinkInv` `AdaptsToCamera` | three staging slots, two geometries, a camera that asks, changes its mind and goes |
| `VirtualCamera` | `StreamInv` `GeometryInv` `SamplesInOrder` `StreamProgress` | two formats, a queue of 2 requests, three requests, two calls of the source, one of the stream, a shutdown |
| `SecureSessions` | `ChallengeInv` `PolicyInv` `RecordsInOrderOnce` `RecordLoadable` | two sources, limits 2 and 3, window and cooldown 2, four attempts or a new pairing and two, three records of a limit of 2, crashes and power loss |
| `Reception` | `ReceptionInv` `StatusTruthful` `LastChangeWins` `MessagesDecoded` `MessagesUnderstood` `ReceptionProgress` | two control positions, a timer of 2, at most two queued events, any number of connections; input of up to 4 bytes from 20 heads, text of up to 4 bytes from 14, nesting to 2 and 3 elements |
| `Registrar` | `RegistrarInv` `AdvertiserInv` `UninstallLeavesNothing` | one directory, setup, the application and a place for one tool that outlives its caller, two jobs at once, every failure and kill |

Several of these names are conjunctions of named parts, defined at the end of
their module: what must hold of one object together is one property of a run.

Bounds. `MaxFrames = 3` with `QueueLimit = 2` reaches a full queue, the overflow
flush and a delta frame after it. `MaxGeneration = 3` lets an answer be late,
wrong and right around the same change; with two connections every reset of
per-connection state is exercised. `Ageing` names the deadlines that may pass:
where the property does not depend on which deadline passed, one
(`lastActivity`, watched in every state) suffices to make the watchdog expire at
any moment; the liveness run has all of them. In the ring, two slots suffice to
tell the slot written from the slot read, a third frame laps the ring, and four
opens allow close, reopen and reclaim. Two of each process show every conflict
between peers; the claim and the count relate processes in pairs. For the
recorder, four frames and a queue of 2 allow a drop with a frame in the worker's
hand, and the times 0, 1 and 4 microseconds with a duration of 15 (100 ns units)
give samples that must be pushed forward and one that is late enough by itself;
`MaxTime = 35` lies below both the greatest time of the phone and three durations, so
that each half of the timeline saturates within a file; the second recording finds what the first left behind. In the pipeline `Wrap`
exceeds the queue, so that a gap is never mistaken for a successor; two resets
let one meet a unit of the generation before the last. The camera's cap of 2
with three requests drops the oldest one and returns a failed one to a full
queue. The PC of the security run is paired already, so that a new
record replaces an old one; a fourth attempt exceeds every limit, time 3 outlasts
window and cooldown, and the third record is the one past a channel's last
number. `Compact = 4` makes the wire decoder compact in the middle of a stream. The CBOR
run's bytes are those on either side of every test of a head and of a UTF-8
lead or continuation; the arguments it encodes are the least of each width, the
greatest of none and of one byte, and the greatest that is accepted. `MaxInput = 4`
bytes show heads with arguments of up to two bytes; that a head of four or eight
that is not the shortest is refused is left to the theorem `HeadsAreCanonical`. In
`Registrar` one directory and two jobs at once are enough for every pair of
overlapping tools, one of them possibly an orphan whose caller begins its next job;
the theorems have any number.

Deadlock checking is off where the system may rest: a session may end and no
phone may ever come again, every process may close or die, a pipeline and a
camera are stopped for good. It is on for `RingSink` and `Registrar`.

Fairness. In `SessionController`, weak fairness of the connection thread inside
its handlers, the delivery steps, the watchdog and the clock: they run on threads
of their own whose waits are bounded, and a `recv` on a closed socket returns.
Nothing is assumed of the phone, the owner or the consumer's answer, so a
silent phone is a fair behaviour, and the deadlines alone must end its session.
For the recorder, weak fairness of each thread inside a call: writer calls
return and threads are scheduled, but nobody has to call `start`, `stop` or
`enqueue`. In `RecordingControl` the GUI's event loop also delivers its events.
In `LivePipeline` the worker and pending calls are weakly fair, and strong
fairness says that a phone which was asked for a keyframe, or begins a stream,
sends one, although others of its units may come first; decoding may fail for
ever. In `FrameSink` the calls that may fail (`Publish`, `ReadBack`, `AskRing`)
are strongly fair: failures are transient. In `VirtualCamera` every call made and
the frame thread proceed, and a sample that is retried does not fail for ever
(strong fairness of `Fill`); no request has to come. In `Reception` threads and
event loop run, the deadline comes to a connection whose far end is gone, and a
phone without a connection dials while the application runs; a `recv` on a live
connection may block for ever. `SessionSecurity`, `FrameRing` and `DesktopLaunch`
state safety only.

### Where the code and its documents disagree

Met while modelling. The passing runs state what the code does guarantee.

* `docs/protocol.md:357` says media is gated while an acknowledgement is pending.
  A unit past `handleVideo`'s first lock, or copied by `drainQueue`, is still
  delivered. It belongs to the committed generation and does no harm to the
  decoder (`DecoderGeneration`).
* `setConsumer`'s comment (`session_controller.cpp:897`) lets callers release the
  old consumer when it returns; `drainQueue` may still call it through the pointer
  it copied. And the queue tokens restart at 1 with each connection, so a drain
  begun on the previous connection pops a unit of the new one that nobody
  consumed (`session_controller.cpp:780`); within one connection the token does
  what its comment says (`PopsOnlyConsumed`). Both need `setConsumer` to run while
  a connection is served, which its locks are written for but nothing in the
  repository does today.
* The slot sequences restart at 0 with each camera generation, so a read-only
  ring (`shm_ring.h:151`), which is not counted, can accept a mixture of two
  frames. Only tests open the ring read-only; `WholeFrame` is checked for cameras
  (`Viewers = {}`), and fails with a viewer.
* `mp4_recorder_test.cpp:314` says the recorder's counters reconcile exactly.
  `start()` activates the session in one critical section and resets the snapshot
  in a later one; a frame enqueued in between is counted in the old snapshot and
  written in the new. `StopGuarantee` does not depend on the counters.
* `docs/protocol.md:180-184` has both apps say so while a session is
  unauthenticated, and `paired` stay false throughout. `handleHello` asks
  `allowsUnauthenticated()` (`session_controller.cpp:534`) and then `trusted()`
  (535): if the GUI turns the switch on in between, the session is READY without
  authentication, `paired` is told as true, and no warning is sent (592), against
  the comments at 536 and 590. `DowngradeShown` states what holds: the warning is
  there for what the first read saw (`Slipped` is the exception).
* Media and commands after trust go through the protector (`sendControl`). But
  `onDisconnected` clears `protector_` (`session_controller.cpp:805`) before it takes
  `mutex_` to clear `connection_` and trust (807-819), and the socket is closed only
  by its caller (`tcp_listener.cpp:362`). A command of another thread in between
  leaves in the clear, if the socket still takes it: after a receive error or an
  orderly end of the phone's sending side. `EnvelopedWhileServed` says that this is
  the only window.
* `confirmCameraAbsent`'s comment (`register/main.cpp:564`) says the CLSID is never
  removed until the camera is gone. Nothing serialises the helper of a launch with
  setup's or another launch's, and the helper outlives a caller that is killed
  (`app/main.cpp:47`): one that registers while another unregisters leaves a camera
  without a CLSID. And `removeCameraAndConfirm` takes `MF_E_ATTRIBUTENOTFOUND` for
  absence whatever Windows lists (`register/main.cpp:587`). `mixed` marks both;
  without it `ActivatableCamera` fails. `removeFirewallRule` (`register/main.cpp:320`)
  removes whatever rule has RemoteCam's name, also one captured as foreign.
* `video_decoder.h:28` has a lost decoder ask for a keyframe; a codec that cannot
  be selected makes the worker wait for one without asking. `Recovers` leaves
  that case out.

* `cbor.h:11` says that its order of map keys differs from RFC 8949's, which would
  put "aaa" before "zz". RFC 8949 orders the encoded keys, head included, and for
  text keys that is the length-first order: `MessagesDecoded` checks that the two
  agree. `cbor.h:20` says that shortest heads remove alternate encodings of a
  value; the decoder does not look at the order of a map's keys, and takes three
  widths of a float, so a message of several fields still has several. And
  `appendHead`'s comment (`cbor.cpp:29`) has decoding more permissive, which since
  shortest heads are required it is not.

## 4. Proofs

The eight proof modules are checked by tlapm with SMT, Zenon and LS4. They assume the
named `ASSUME`s of the models (distinct processes and marker values, finitely many
cameras, positive sizes, natural bounds, and in `SessionSecurity` the order of the
lifetimes: a challenge lives no longer than the cooldown, the cooldown no longer than
the window, as in the code). Nothing bounds the number of connections, frames,
processes, slots, sources or requests. Four theorems state one assumption more, about
`SwapConsumers` or `Viewers`; it is explained below. In
every module the inductive invariant is a conjunction of named parts, was first
checked by TLC as an invariant of the module's run, and is proved preserved part by
part and action by action.

**SessionControllerProofs.** `SessionInv` is inductive (lemma
`SessionInvariant`, from one lemma per conjunct). It strengthens the checked
invariants by what the program counters imply:

* `ScopeInv`: `connection_` is the connection being served, the watchdog is off
  while none is, and the pointer it captured is that connection. Needed because
  "joined before destroyed" is a fact about where the threads are. Gives
  `ConnectionSafe`.
* `TrustInv`: the places of the handshake are reached only before trust, those
  of media and format changes only after; a queued unit and a pending change
  imply trust. A frame between the two locks of `handleVideo` thus still has
  the trust its first lock saw.
* `ProtectorInv`: with session security, trust and every place that sends READY
  imply the protector, up to `DropProtector`. Gives `EnvelopedUntilDisconnect`.
* `GenerationOrder` is inductive with `TrustInv`. Gives `GenerationsOrdered`
  and `GenerationMonotone` (an action property): a commit takes the pending
  generation, which is newer than the committed one.
* `QueueInv`: a queue that is not empty awaits no keyframe and is within its
  bound. With `TrustInv` and `ScopeInv` it gives `QueueSafe`.
* `MediaInv`, with `SwapConsumers = {}` (nothing in the repository calls
  `setConsumer`, so the consumer is the one the controller was made with): every
  queued unit and the unit in hand arrived on this connection in the committed
  generation; the unit in hand is the queue's front or was flushed; a decoder that
  may be fed was reset for that connection and generation (`UnitInv`, `HandInv`);
  the queue is a chain in which a delta frame directly follows its predecessor, its
  front follows what the decoder consumed last, and the newest unit accepted is the
  last that arrived unless a keyframe is awaited (`Chained`, `FrontInv`,
  `NewestInv`). The last part is what carries over overflows, refusals and resets.
  Gives `DecoderFits` and `DeliveryDecodable`.
* `TokenInv`, on one connection, with any exchange of consumers: two units with one
  token are the same unit, in the queue and in both threads' hands. With `HandInv`
  for the other case it gives `PopsAreExact`. Tokens restart with a connection; a
  `setConsumer` that is still draining when the next connection begins is the case
  the theorem leaves out.

`TypeCorrect` is the first conjunct.

**FrameRingProofs.** `TypeCorrect`, and `OneProducer`: `ClaimInv` says that an
attached process has a handle (so the section cannot vanish under it), that a
producer that may write is the recorded owner of an initialised header, and that
the camera still creating a section is alone in doing so and its header not yet
valid. With that, a second `open(true)` finds a live claim, the header is never
initialised under a claim, and a late `close()` clears only its own.

`IInv` adds `GuardInv` (who holds the guard is where the code holds it);
`CountInv`, which gives `CamerasAreCounted`: between create's read and its write of
the count a close without the guard can only lower it; `SlotInv`: an even slot is
empty or holds a whole frame of this generation, at most one ahead of the
announcements and no older than the announced number of that slot; `WriterInv` and
`ReaderInv`, which tie the parts copied so far to the slot as long as its sequence
still has the value first read. A slot's sequence only grows while a camera is
attached (lemma `WritesGrow`), so an equal sequence at the end means an untouched
slot: `WholeFrames`, for `Viewers = {}`, since no count protects a read-only
viewer (section 3). `RingImplements` is the refinement of `LatestFrame`: lemma
`StepMaps` maps each step of a process to a step of the abstract register or a
stutter; the lower bound of a read is `ReaderInv`'s.

**Mp4RecorderProofs.** `IInv` is inductive (lemma `Invariant`, one lemma per
part). `LifeInv`: the worker, the snapshot and the partial file are of the
present session, and no later session has a file; `PartialAccounted` follows
along it (`FailuresAccounted`). `HandInv`: the worker holds one frame exactly
while it writes, and from the moment it has seen the stop request the queue
stays empty. `InOrder` and `TimeInv` order the frames from queue through hand to
file and tie the timeline to the last sample; they give `SamplesOrdered`, up to
`MaxTime`, where samples can only be equal.
`CountInv`: while a session runs, every accepted frame is in the file, in hand,
in the queue or was pushed out, and the newest is not pushed out; at `Publish`
hand and queue are empty, which gives `FinalPathReplacedWhole`. `EndInv` carries
that past the end of the worker to the return of `stop()` and gives
`StopDelivers`. The capacity, the clock's values, the duration and the numbers
of sessions and frames are arbitrary.

`ControlsUseRecorder` shows that `GuiSpec` implies the recorder's `Spec`, so all of
this holds under the controls. `StageInv` fixes the snapshot's state by the places of
owner and worker, hence a snapshot never goes back while the process lives (lemma
`StatusAdvances`); `UiInv`: the window is at or behind the snapshot. Together they
give `WindowNeverReverts`.

**LivePipelineProofs.** `PipelineSafe`. `QueueInv`: the queue is of the session's
stream and without gaps, and empty while a keyframe is awaited; `HeadInv` and
`TailInv`: the unit before the queue's first is in the worker's hand or was fed last,
and the unit that may follow as a delta follows the last accepted one; `StreamInv`:
the decoder's stream is the session's unless a reset is pending. The two ends are
needed because overflow, failure and reset act on the queue, and the worker on its
front, independently.

`SinkSafe` is about `FrameSink`, where the worker publishes. `SlotsInv`: a slot is
pending at most once, a slot that is not pending holds no picture, and a pending slot
whose size is the one `width` names holds a picture of that size. The condition is
needed: a configuration that fails half way leaves slots of the new size under the
old `width`. `ThreadInv` says the same of the frame in the thread's hand.

The rest of the module is about the functions of `MediaBytes`, for inputs of any
length. The induction theorems of the library take an operator as a parameter and
cannot be used here, so an induction over the number of passes, frames or units is
made about a set instead: `NaturalsFrom` (a set of naturals with 0 and every
successor is `Nat`) follows from the library's fact that a nonempty set of naturals has a least
member, and `IterationExists` from it: the recursive
functions which the models write with LET exist and satisfy their equations.
`FlattenSeq` gets the facts that are needed about it in the same way (`Layout`:
where in the concatenation each piece lies).

* `AnyChunks`: `D[q]` is the decoder after the q-th of any number of chunks, which
  end anywhere. `Got` holds after each: the frames given are the first `m`, where
  `m` is the number of frames whose last byte has come; the buffer from the read
  offset on holds the bytes that came after them (`Reads`); and there is an error
  exactly if the header to be refused is complete. It is inductive because a pass
  takes a frame exactly if it is whole (`FrameTaken`), the loop ends where none is
  (`ParsedReads`), and a compaction moves the offset and keeps the bytes behind it
  (`CompactedReads`). `FramesReassembled` is the property of the run, three chunks.
* `AnyAccessUnit`: a NAL unit is any bytes without an emulated start code whose
  last byte is not 0 (as the codecs require), after a code of three or four bytes.
  No start code then begins inside a unit (`NoCodeInNal`), not even one that would
  reach into the code behind it; so each pass of split finds one unit and stands at
  the next code (`UnitsPass`, `SplitFinds`), and inspect's report after k units is
  what the first k say (`Reported`). `AccessUnitsInspected` is the property of the
  run.

**SessionSecurityProofs.** `AttemptInv` relates the policy's state to the log of all
attempts: what is charged is failing and within the limits, a failing attempt that is
no longer charged is a cooldown old, and a cooldown in force ends one cooldown after
the last charged attempt. From this the bound over every window follows by counting
(`PolicyHolds`, with the cardinality lemmas of `FiniteSetTheorems`).
`OpenChallenges` gives `ChallengesSafe`; `RecordInv` says that a channel's numbers
are 0, 1, 2, ... and gives `RecordsOrdered`; `StoreInv`, that only a flushed file is
moved over the record, gives `RecordSurvives`.

**ReceptionProofs.** About `FairSpec`, its fairness unused. `HoldInv` and `WatchInv`
order the lives of acceptor, connection thread and watchdog and give
`ReceptionSafe`. `LabelInv` is about the label there will be once the queued events
are applied, and `WarnInv` about the warning at each event of the queue; a property
of the label alone is not inductive. They give `StatusIsTruthful`, with the exception
of a switch thrown on between the two reads. `PanelInv` gives
`LastChangeReachesPhone`.

`AnyMessage` is about the schemas. One lemma per message compares its builder with
its parser field by field (`FieldFits`): what is usable of what is built is taken,
only a flag may be anything, no number that is not finite passes elsewhere. From
the twelve follows which messages parse whatever they carry (`InOrder`) and which
never do; `MessagesAreUnderstood`, the property of the run, is the case of the
messages that it tries.

Of the codec's bytes the heads are proved about. `Pads` relates bytes to the digits
behind their leading zeros, which are unique (`PadsUnique`); just one of the four
long forms is wide enough for an argument and not too wide (`FormExists`,
`LongHead`). Hence `HeadsReadBack` and, the other way, `HeadsAreCanonical`: what
`readArgument` takes is what `appendHead` writes. `LengthsReadBack` says the same
of the counts in front of strings and collections.

**VirtualCameraProofs.** `LockInv` says exactly where `lifecycleMutex_` is held, and
`JoinInv` that a caller past its join finds no frame thread and that a live frame
thread runs or is waited for; so `FrameSource` has one user (`StreamSafe`) and
Configure never changes the format under a frame thread (`FormatInv`, `RingInv`:
`GeometrySafe`). `AnnounceInv` is about MENewStream, `OrderInv` about the requests
behind the last sample and the one in hand (`SamplesOrdered`).

**DesktopLaunchProofs.** `AdvertiserSafe` from `AnswerInv` and `BoundInv` (a
registration that Windows has is its last request and the one `callbackPending_`
stands for). `RegistrarSafe` and `UninstallClean` assume nothing of when callers and
orphans run. `SoleInv`: while `mixed` is false whoever has a job is the sole one, and a
sole one is alone. `CallerInv` says for each place of the tool what it has written
whatever the others do (`PlaceOk`), and what it has found on the machine and can rely
on as long as it is the sole one (`MachineOk`); `ClearedInv` carries what a sole
uninstall has removed to its deletion of the files.

The type invariants of the first three modules, `GenerationOrder`, `QueueGuarded`,
`FilmOrdered` and `PartialAccounted` are not repeated as properties of runs.

Only model-checked: the liveness properties (fairness is out of the prover's
reach), and `MessagesDecoded`, what `Cbor` and `ControlMessages` compute above the
heads: the codec is recursive over trees of values, written with RECURSIVE operators,
for which the provers have no backend.

## 5. Plan

Modelled so far: the session, the ring with its abstract specification, the
recorder with its controls; the media path from bytes over the decode worker and
the sink to the camera's samples; session security; listener, status, controls
and control messages; registration and advertisement. Proved: every safety
property of these that a run checks, except the ones named above.

Next:

1. The CBOR codec as functions on the depth of a value, and its round trip as a
   theorem over those about the heads.
2. `AbrController`, a small deterministic controller, and the phone's session
   (`ios`) with the live format change as an agreement on the generation.

Hazards without a property yet, beyond the ones `PROJECT.json` lists: a camera
process that dies never withdraws its count (`shm_ring.cpp:422`); the requested
geometry is stored field by field (`shm_ring.cpp:531`); two threads may send
numbered envelopes in the other order (`session_controller.cpp:106`), which the
phone rejects; a send that times out after some bytes leaves the connection in the
middle of a frame (`tcp_listener.cpp:58`); an accept error ends the loop while the
listener still says it listens (`tcp_listener.cpp:256`, visible as the exception
in `ServedAgain`); the attempt policy lives in memory and a restart forgets it; a
phone keeps a key that the PC lost before it was saved; the commands of a failed
control flush are dropped.

Not modelled, and not planned: cryptographic primitives and curve arithmetic,
pixel and shader work and frame geometry, COM
plumbing, QML and SwiftUI views, logging and test patterns, the frame producer
(a host for end-to-end tests), the TCP client and Bonjour service of the
development tools, and those tools.
