---------------------------- MODULE ControlMessages ----------------------------
(***************************************************************************)
(* rc::control (core/src/control.cpp), as bytes: Message::encode and       *)
(* decode, over Cbor.                                                      *)
(***************************************************************************)
EXTENDS MessageFields, Cbor

CONSTANTS MaxControl,    \* kMaxPayloadBytes of the control channel
          HeadBytes,     \* bound: the bytes of arbitrary input
          TextBytes,     \* bound: the bytes of arbitrary text
          MaxInput,      \* bound: the length of arbitrary input
          MaxText        \* bound: the length of arbitrary text

ASSUME ControlAssumption == MaxControl \in Nat /\ MaxInput \in Nat /\ MaxText \in Nat

-----------------------------------------------------------------------------
(* Message::encode: the type is put in last and replaces a field "t". *)
TypeKey == <<116>>

MessageEncode(type, fields) ==
    Encoded(<<"Map", [k \in DOMAIN fields \cup {TypeKey} |->
                        IF k = TypeKey THEN <<"Text", type>> ELSE fields[k]]>>)

(* Message::decode: the type is taken out of the fields. *)
Refused(error) == [error |-> error, type |-> <<>>, fields |-> <<>>]

MessageDecode(data) ==
    LET read == Decoded(data)
        map == read.value[2]
    IN IF Len(data) > MaxControl THEN Refused("PayloadTooLarge")
       ELSE IF read.error # "None" THEN Refused("MalformedCbor")
       ELSE IF read.value[1] # "Map" THEN Refused("NotAMap")
       ELSE IF TypeKey \notin DOMAIN map THEN Refused("MissingType")
       ELSE IF map[TypeKey][1] # "Text" THEN Refused("MissingType")
       ELSE [error |-> "None", type |-> map[TypeKey][2],
             fields |-> [k \in DOMAIN map \ {TypeKey} |-> map[k]]]

-----------------------------------------------------------------------------
(* Samples: what a field of a message may hold, next to a control's position. *)
Name == <<122>>
Keys == {<<>>, <<97>>, <<98>>, <<97, 97>>, TypeKey}
Position(p) == <<"Double", <<63, 240 + p, 0, 0, 0, 0, 0, 0>>>>

Arguments == {<<>>, <<23>>, <<24>>, <<255>>, <<1, 0>>, <<1, 0, 0>>, <<1, 0, 0, 0, 0>>,
              <<127, 255, 255, 255, 255, 255, 255, 255>>}
Atoms == {<<"Unsigned", a>> : a \in Arguments} \cup {<<"Negative", a>> : a \in Arguments}
           \cup {<<"Bytes", <<>>>>, <<"Bytes", <<255>>>>, <<"Text", <<>>>>,
                 <<"Text", <<195, 169>>>>, <<"Boolean", FALSE>>, <<"Null">>}
Few == {<<"Unsigned", <<24>>>>, <<"Text", <<97>>>>, <<"Null">>}
Items == Atoms \cup {<<"Array", s>> : s \in BoundedSeq(Few, 2)}
           \cup {<<"Map", [k \in ks |-> i]>> : ks \in SUBSET {<<97>>, <<98>>}, i \in Few}

(* A message that tells the phone a position arrives as it was built, with   *)
(* any other field; not one byte of it may be missing, or follow it.         *)
Survives == [p \in Values |->
    \A key, other \in Keys, item \in Items :
        LET fields == [k \in {key, other} |-> IF k = key THEN Position(p) ELSE item]
            data == MessageEncode(Name, fields)
        IN /\ MessageDecode(data) =
                [error |-> "None", type |-> Name,
                 fields |-> [k \in {key, other} \ {TypeKey} |-> fields[k]]]
           /\ \A n \in 0 .. Len(data) - 1 : Decoded(SubSeq(data, 1, n)).error = "Truncated"
           /\ Decoded(Append(data, 0)).error = "TrailingBytes"]

(* The limits of the decoder, at their edge *)
Nested(n) == FoldLeft(LAMBDA inner, k : <<"Array", <<inner>>>>, <<"Null">>, [k \in 1 .. n |-> k])
Limits ==
    /\ \A n \in 0 .. MaxDepth + 2 :
         Decoded(Encoded(Nested(n))).error =
            IF n > MaxDepth THEN "NestingLimitExceeded" ELSE "None"
    /\ \A n \in 0 .. MaxElements + 1 :
         Decoded(Encoded(<<"Array", [i \in 1 .. n |-> <<"Null">>]>>)).error =
            IF n > MaxElements THEN "CollectionTooLarge" ELSE "None"

(* No two byte sequences stand for the same value (but for the order of a    *)
(* map's keys and the width of a float, which the decoder does not look at:  *)
(* the input has maps of one key and no floats), and the order of a map's    *)
(* keys is the order of the bytes that encode them.                          *)
BytesLess(a, b) ==
    \/ \E i \in DOMAIN a \cap DOMAIN b : a[i] < b[i] /\ \A j \in 1 .. i - 1 : a[j] = b[j]
    \/ Len(a) < Len(b) /\ IsPrefix(a, b)

OneEncoding ==
    /\ \A data \in BoundedSeq(HeadBytes, MaxInput) :
         LET read == Decoded(data)
         IN read.error = "None" => Encoded(read.value) = data
    /\ \A a, b \in Keys \cup {[i \in 1 .. 24 |-> 97]} :
         KeyLess(a, b) <=> BytesLess(Encoded(<<"Text", a>>), Encoded(<<"Text", b>>))

(* Unicode's table of well-formed byte sequences *)
Scalar(s) ==
    LET tail(n) == \A i \in n .. Len(s) : s[i] \in 128 .. 191
    IN CASE Len(s) = 1 -> s[1] < 128
         [] Len(s) = 2 -> s[1] \in 194 .. 223 /\ tail(2)
         [] Len(s) = 3 -> \/ s[1] = 224 /\ s[2] \in 160 .. 191 /\ tail(3)
                          \/ s[1] \in (225 .. 239) \ {237} /\ tail(2)
                          \/ s[1] = 237 /\ s[2] \in 128 .. 159 /\ tail(3)
         [] Len(s) = 4 -> \/ s[1] = 240 /\ s[2] \in 144 .. 191 /\ tail(3)
                          \/ s[1] \in 241 .. 243 /\ tail(2)
                          \/ s[1] = 244 /\ s[2] \in 128 .. 143 /\ tail(3)
RECURSIVE WellFormed(_)
WellFormed(s) ==
    s = <<>> \/ \E n \in 1 .. Min({4, Len(s)}) :
                  Scalar(SubSeq(s, 1, n)) /\ WellFormed(SubSeq(s, n + 1, Len(s)))

TextChecked == \A s \in BoundedSeq(TextBytes, MaxText) : IsValidUtf8(s) <=> WellFormed(s)

(* cbor.h: the codec is "to produce and accept exactly the same bytes" as    *)
(* the phone's, and its shortest forms leave no "alternate authenticated     *)
(* encodings for the same v1 value".  The position the phone was told came   *)
(* whole, in whatever message, and of what the PC receives no integer or     *)
(* length is accepted but in its one encoding, no text but well-formed text, *)
(* and nothing beyond the limits.                                            *)
MessagesDecoded ==
    /\ given # Unknown => Survives[given]
    /\ server = "recv" => OneEncoding /\ Limits /\ TextChecked
=============================================================================
