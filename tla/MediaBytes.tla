------------------------------ MODULE MediaBytes ------------------------------
(***************************************************************************)
(* The bytes of a stream before LivePipeline sees its units: the frames    *)
(* that rc::wire::Decoder (core/src/wire.cpp) reassembles from what the    *)
(* socket delivers, and the NAL units that rc::annexb (core/src/annexb.cpp)*)
(* finds in an access unit.  Both are functions of their input.            *)
(*                                                                         *)
(* Of a frame's header three bytes are kept, the payload's length, the     *)
(* flags and the reserved byte; the channel and the time stamp are payload *)
(* as far as framing goes.                                                 *)
(***************************************************************************)
EXTENDS LivePipeline, FiniteSetsExt, SequencesExt

CONSTANTS MaxPayload,   \* kMaxPayloadBytes
          Compact,      \* kCompactThreshold
          WireBytes,    \* bound: the bytes a payload is made of
          MaxFrames,    \* bound: frames of a stream
          MaxNals       \* bound: NAL units of an access unit

ASSUME WireAssumption == 
    /\ MaxPayload \in Nat /\ Compact \in Nat /\ WireBytes \subseteq Nat
    /\ MaxFrames \in Nat /\ MaxNals \in Nat

-----------------------------------------------------------------------------
HeaderBytes == 3
KnownMask == 8   \* flags below this one are known

(* encode *)
Encode(frame) == <<Len(frame.payload), frame.flags, 0>> \o frame.payload

(* What a header is refused for, in the order of the checks. *)
HeaderError(length, flags, reserved) ==
    IF length > MaxPayload THEN "PayloadTooLarge"
    ELSE IF flags >= KnownMask THEN "ReservedFlagsSet"
    ELSE IF reserved # 0 THEN "ReservedHeaderNonZero"
    ELSE "None"

NewDecoder == [buffer |-> <<>>, offset |-> 0, error |-> "None", out |-> <<>>]

(* The loop of append: a header is judged before its payload is waited for.  *)
JudgedWithPayload(buffer, at) ==   \* mutant: a refused frame is read first
    /\ Len(buffer) - at >= HeaderBytes
    /\ Len(buffer) - at - HeaderBytes >= buffer[at + 1]
    /\ HeaderError(buffer[at + 1], buffer[at + 2], buffer[at + 3]) # "None"
Refused(buffer, at) ==
    /\ Len(buffer) - at >= HeaderBytes
    /\ HeaderError(buffer[at + 1], buffer[at + 2], buffer[at + 3]) # "None"

Complete(buffer, at) ==
    /\ Len(buffer) - at >= HeaderBytes
    /\ Len(buffer) - at - HeaderBytes >= buffer[at + 1]

FrameAt(buffer, at) ==
    [flags |-> buffer[at + 2],
     payload |-> SubSeq(buffer, at + HeaderBytes + 1, at + HeaderBytes + buffer[at + 1])]

(* One pass of the loop; it ends where a pass finds no frame to take. *)
Pass(buffer, read) ==
    IF Complete(buffer, read.offset) /\ ~Refused(buffer, read.offset)
    THEN [offset |-> read.offset + HeaderBytes + buffer[read.offset + 1],
          out |-> Append(read.out, FrameAt(buffer, read.offset))]
    ELSE read

Parsed(buffer, start, out) ==
    LET after[k \in 0 .. Len(buffer)] ==
            IF k = 0 THEN [offset |-> start, out |-> out] ELSE Pass(buffer, after[k - 1])
        read == after[Len(buffer)]
        at == read.offset
    IN [buffer |-> buffer, offset |-> at, out |-> read.out,
        error |-> IF Refused(buffer, at)
                  THEN HeaderError(buffer[at + 1], buffer[at + 2], buffer[at + 3])
                  ELSE "None"]

(* What was consumed is dropped, when that is worth the copy. *)
Dropped(d) == [d EXCEPT !.buffer = SubSeq(@, d.offset + 1, Len(@)), !.offset = 0]

Compacted(d) ==
    IF d.error = "None" /\ (\/ d.offset = Len(d.buffer)
                            \/ d.offset >= Compact
                            \/ d.offset > Len(d.buffer) \div 2)
    THEN Dropped(d) ELSE d

(* Decoder::append; after an error it does nothing. *)
DecoderAppend(d, chunk) ==
    IF d.error # "None" THEN d
    ELSE Compacted(Parsed(d.buffer \o chunk, d.offset, d.out))

-----------------------------------------------------------------------------
(* rc::annexb, for byte sequences numbered from 1 *)
Codecs == {"H264", "Hevc"}

Prefixed(data, i, code) ==
    i + Len(code) - 1 <= Len(data) /\ SubSeq(data, i, i + Len(code) - 1) = code

ShortCodeOnly(data, i) ==   \* mutant: codes of four bytes are not known
    IF Prefixed(data, i, <<0, 0, 1>>) THEN 3 ELSE 0
StartCodeAt(data, i) ==   \* the code's length, or 0
    CASE Prefixed(data, i, <<0, 0, 1>>) -> 3
      [] Prefixed(data, i, <<0, 0, 0, 1>>) -> 4
      [] OTHER -> 0

NalTypeOf(codec, byte) ==
    IF codec = "H264" THEN byte % 32 ELSE (byte \div 2) % 64

IsVideoSlice(codec, type) ==
    IF codec = "H264" THEN type \in 1..5 ELSE type <= 31

ParameterSets(codec) == IF codec = "H264" THEN {7, 8} ELSE {32, 33, 34}

IsKeyframeSlice(codec, type) ==
    IF codec = "H264" THEN type = 5 ELSE type \in 16..21

(* split: a NAL unit reaches from a start code to the next one, and an empty *)
(* one is skipped.                                                           *)
NextCode(data, i) ==
    Min({j \in i .. Len(data) : StartCodeAt(data, j) # 0} \cup {Len(data) + 1})

(* One pass of the loop, from a start code or from past the end *)
NalPass(data, codec, found) ==
    LET start == found.at + StartCodeAt(data, found.at)
        end == NextCode(data, start)
        nal == [type |-> NalTypeOf(codec, data[start]), bytes |-> SubSeq(data, start, end - 1)]
    IN IF start > Len(data) THEN found
       ELSE [at |-> end,
             nals |-> IF end = start THEN found.nals ELSE Append(found.nals, nal)]

Split(data, codec) ==
    LET after[k \in 0 .. Len(data)] ==
            IF k = 0 THEN [at |-> NextCode(data, 1), nals |-> <<>>]
            ELSE NalPass(data, codec, after[k - 1])
    IN IF Len(data) < 4 THEN <<>> ELSE after[Len(data)].nals

(* inspect: one pass over the units.  The sets that count are the ones seen  *)
(* when the first keyframe slice comes.                                      *)
HasAll(codec, seen) == ParameterSets(codec) \subseteq seen

Inspected(codec, report, nal) ==
    LET key == IsKeyframeSlice(codec, nal.type)
        seen == report.seen \cup ({nal.type} \cap ParameterSets(codec))
    IN [seen |-> seen,
        slice |-> report.slice \/ IsVideoSlice(codec, nal.type),
        key |-> report.key \/ key,
        before |-> IF key /\ ~report.key THEN HasAll(codec, seen) ELSE report.before]

Inspect(data, codec) ==
    LET nals == Split(data, codec)
        after[k \in 0 .. Len(nals)] ==
            IF k = 0 THEN [seen |-> {}, slice |-> FALSE, key |-> FALSE, before |-> FALSE]
            ELSE Inspected(codec, after[k - 1], nals[k])
        report == after[Len(nals)]
    IN [isAnnexB |-> nals # <<>>,
        hasVideoSlice |-> report.slice,
        hasKeyframeSlice |-> report.key,
        hasParameterSets |-> HasAll(codec, report.seen),
        isSelfContainedKeyframe |-> report.key /\ report.before,
        decodableFromHere |-> nals # <<>> /\ (~report.key \/ report.before)]

-----------------------------------------------------------------------------
(* The streams: frames, of which the last may have a header to be refused.   *)
Payloads == BoundedSeq(WireBytes, MaxPayload)
GoodFrames == {Encode(f) : f \in [flags : {0, KnownMask - 1}, payload : Payloads]}
BadHeaders == {<<MaxPayload + 1, 0, 0>>, <<1, KnownMask, 0>>, <<0, 0, 1>>}

(* The first bytes of a stream, in three chunks, some perhaps empty. *)
Fed3(bytes, i, j) ==
    DecoderAppend(DecoderAppend(DecoderAppend(NewDecoder,
        SubSeq(bytes, 1, i)), SubSeq(bytes, i + 1, j)), SubSeq(bytes, j + 1, Len(bytes)))

(* A stream of n frames, however it is cut and wherever it stops, gives the  *)
(* frames whose last byte has come, and a header that must be refused is     *)
(* refused as soon as it is complete, before its payload.                    *)
Reassembles == [n \in 1 .. MaxFrames |->
    \A frames \in [1 .. n -> GoodFrames], bad \in BadHeaders \cup {<<>>} :
        LET stream == FlattenSeq(frames) \o bad \o (IF bad = <<>> THEN <<>> ELSE <<0>>)
            upTo(m) == Len(FlattenSeq(SubSeq(frames, 1, m)))
        IN \A k \in 0 .. Len(stream) : \A j \in 0 .. k : \A i \in 0 .. j :
             LET d == Fed3(SubSeq(stream, 1, k), i, j)
                 came == {m \in 0 .. n : upTo(m) <= k}
                 refused == bad # <<>> /\ upTo(n) + HeaderBytes <= k
             IN /\ [m \in DOMAIN d.out |-> Encode(d.out[m])] = SubSeq(frames, 1, Max(came))
                /\ (d.error # "None") = refused
                /\ refused => d.error = HeaderError(bad[1], bad[2], bad[3])]

(* wire.h: the socket "delivers arbitrary chunks with no relationship to     *)
(* message boundaries".  The units in the queue are the ones that were sent, *)
(* each in a frame of its own, however the socket cut the frames and         *)
(* whatever was refused after them.                                          *)
ChunksReassembled == \A n \in 1 .. MaxFrames : n <= Len(queue) => Reassembles[n]

-----------------------------------------------------------------------------
(* Access units: NAL units of one or two bytes, each after a code of three   *)
(* or of four bytes.  A NAL unit does not end in a zero byte.                *)
Nals(codec) ==
    IF codec = "H264" THEN {<<101>>, <<103, 0, 9>>, <<104>>, <<65, 1>>, <<6>>}
    ELSE {<<38, 1>>, <<64>>, <<66>>, <<68, 0, 9>>, <<0, 1>>, <<78>>}
Codes == {<<0, 0, 1>>, <<0, 0, 0, 1>>}

(* Of every access unit that is, or is not, a self-contained keyframe: each  *)
(* NAL unit is found, with its bytes and its type, and inspect says which it *)
(* is.  It is one if every parameter set of its codec comes before the first *)
(* slice of a keyframe.                                                      *)
Inspects == [key \in BOOLEAN |->
    \A codec \in Codecs : \A n \in 1 .. MaxNals :
        \A nals \in [1 .. n -> Nals(codec)], codes \in [1 .. n -> Codes] :
            LET data == FlattenSeq([i \in 1 .. n |-> codes[i] \o nals[i]])
                type(i) == NalTypeOf(codec, nals[i][1])
                keys == {i \in 1 .. n : IsKeyframeSlice(codec, type(i))}
                selfContained ==
                    keys # {} /\ \A set \in ParameterSets(codec) :
                                    \E i \in 1 .. n : type(i) = set /\ i < Min(keys)
            IN selfContained = key =>
                 /\ Split(data, codec) = [i \in 1 .. n |-> [type |-> type(i), bytes |-> nals[i]]]
                 /\ Inspect(data, codec).isSelfContainedKeyframe = key]

(* annexb.h: both lengths of the start code occur in the same stream.  The   *)
(* unit in the worker's hand is what its bytes say, whichever bytes it has:  *)
(* a keyframe the decoder can begin with, or a unit that needs others.       *)
UnitsInspected == work = "decode" => Inspects[unit.key]
=============================================================================
