--------------------------------- MODULE Cbor ---------------------------------
(***************************************************************************)
(* rc::cbor (core/src/cbor.cpp): the CBOR subset of the control channel,   *)
(* byte for byte.  Values and messages are functions of bytes and back.    *)
(*                                                                         *)
(* A value is a pair of its type and its contents.  An integer is its      *)
(* argument, negative n being the argument of -1-n; a double is the bytes  *)
(* that were read.  What a narrower float widens to is not modelled.       *)
(***************************************************************************)
EXTENDS CborHeads, SequencesExt

CONSTANTS MaxDepth,      \* kMaxNestingDepth
          MaxElements    \* kMaxCollectionElements

ASSUME CborAssumption == MaxDepth \in Nat /\ MaxElements \in 0 .. 2 ^ 24 - 1

Simple == [false |-> 20, true |-> 21, null |-> 22]

-----------------------------------------------------------------------------
(* arg > n, for a limit n within three bytes *)
Exceeds(arg, n) == IF Len(arg) > 3 THEN TRUE ELSE CountOf(arg) > n

(* CanonicalKeyLess: by length, then by bytes *)
KeyLess(a, b) ==
    \/ Len(a) < Len(b)
    \/ /\ Len(a) = Len(b)
       /\ \E i \in DOMAIN a : a[i] < b[i] /\ \A j \in 1 .. i - 1 : a[j] = b[j]

(* encode.  A map is kept in its canonical order. *)
RECURSIVE Encoded(_)
Encoded(v) ==
    CASE v[1] = "Unsigned" -> AppendHead(0, v[2])
      [] v[1] = "Negative" -> AppendHead(1, v[2])
      [] v[1] = "Bytes"    -> AppendHead(2, ArgumentOf(Len(v[2]))) \o v[2]
      [] v[1] = "Text"     -> AppendHead(3, ArgumentOf(Len(v[2]))) \o v[2]
      [] v[1] = "Array"    ->
           AppendHead(4, ArgumentOf(Len(v[2])))
             \o FlattenSeq([i \in DOMAIN v[2] |-> Encoded(v[2][i])])
      [] v[1] = "Map"      ->
           LET keys == SetToSortSeq(DOMAIN v[2], KeyLess)
           IN AppendHead(5, ArgumentOf(Len(keys)))
                \o FlattenSeq([i \in DOMAIN keys |->
                     Encoded(<<"Text", keys[i]>>) \o Encoded(v[2][keys[i]])])
      [] v[1] = "Boolean"  -> <<224 + IF v[2] THEN Simple.true ELSE Simple.false>>
      [] v[1] = "Null"     -> <<224 + Simple.null>>
      [] v[1] = "Double"   -> <<224 + 27>> \o v[2]

-----------------------------------------------------------------------------
(* isValidUtf8, from the i-th byte on *)
Continues(byte) == byte \div 64 = 2

OverlongPasses(extra, code) == code <= 1114111   \* mutant: only the range is tested
ValidCode(extra, code) ==
    /\ code >= <<0, 128, 2048, 65536>>[extra + 1]
    /\ code <= 1114111
    /\ code \notin 55296 .. 57343

RECURSIVE Utf8From(_, _)
Utf8From(data, i) ==
    IF i > Len(data) THEN TRUE
    ELSE LET lead == data[i]
             extra == CASE lead < 128 -> 0 [] lead \div 32 = 6 -> 1
                        [] lead \div 16 = 14 -> 2 [] lead \div 8 = 30 -> 3 [] OTHER -> 4
         IN IF extra = 0 THEN Utf8From(data, i + 1)
            ELSE /\ extra < 4 /\ i + extra <= Len(data)
                 /\ \A k \in 1 .. extra : Continues(data[i + k])
                 /\ ValidCode(extra, FoldLeft(LAMBDA code, k : code * 64 + (data[i + k] % 64),
                                              lead % (2 ^ (6 - extra)), [k \in 1 .. extra |-> k]))
                 /\ Utf8From(data, i + extra + 1)

IsValidUtf8(data) == Utf8From(data, 1)

-----------------------------------------------------------------------------
(* INT64_MAX *)
Overflows(arg) == Len(arg) = 8 /\ arg[1] >= 128

ReadString(type, data, head) ==
    IF Exceeds(head.value, Len(data) - head.at) THEN Failed("Truncated")
    ELSE LET n == CountOf(head.value)
             bytes == Taken(data, head.at, n)
         IN IF type = "Text" /\ ~IsValidUtf8(bytes) THEN Failed("InvalidUtf8")
            ELSE Read(<<type, bytes>>, head.at + n)

ReadSimple(data, at, additional) ==
    IF additional \in {Simple.false, Simple.true} THEN Read(<<"Boolean", additional = Simple.true>>, at)
    ELSE IF additional = Simple.null THEN Read(<<"Null">>, at)
    ELSE IF additional \notin 25 .. 27 THEN Failed("UnsupportedSimpleValue")
    ELSE LET width == Width(additional)
         IN IF Available(data, at, width) THEN Read(<<"Double", Taken(data, at, width)>>, at + width)
            ELSE Failed("Truncated")

(* decodeValue, and the loops of its two collections *)
RECURSIVE DecodeValue(_, _, _), DecodeItems(_, _, _, _, _), DecodeEntries(_, _, _, _, _)
DecodeValue(data, at, depth) ==
    IF depth > MaxDepth THEN Failed("NestingLimitExceeded")
    ELSE IF ~Available(data, at, 1) THEN Failed("Truncated")
    ELSE LET major == data[at + 1] \div 32
             additional == data[at + 1] % 32
             head == ReadArgument(data, at + 1, additional)
         IN IF major = 7 THEN ReadSimple(data, at + 1, additional)
            ELSE IF major = 6 THEN Failed("InvalidAdditionalInformation")
            ELSE IF head.error # "None" THEN head
            ELSE IF major = 0 THEN Read(<<"Unsigned", head.value>>, head.at)
            ELSE IF major = 1
            THEN IF Overflows(head.value) THEN Failed("IntegerOverflow")
                 ELSE Read(<<"Negative", head.value>>, head.at)
            ELSE IF major = 2 THEN ReadString("Bytes", data, head)
            ELSE IF major = 3 THEN ReadString("Text", data, head)
            ELSE IF Exceeds(head.value, MaxElements) THEN Failed("CollectionTooLarge")
            ELSE IF major = 4
            THEN DecodeItems(data, head.at, CountOf(head.value), depth + 1, <<>>)
            ELSE DecodeEntries(data, head.at, CountOf(head.value), depth + 1, <<>>)

DecodeItems(data, at, left, depth, items) ==
    IF left = 0 THEN Read(<<"Array", items>>, at)
    ELSE LET item == DecodeValue(data, at, depth)
         IN IF item.error # "None" THEN item
            ELSE DecodeItems(data, item.at, left - 1, depth, Append(items, item.value))

DecodeEntries(data, at, left, depth, entries) ==
    IF left = 0 THEN Read(<<"Map", entries>>, at)
    ELSE LET key == DecodeValue(data, at, depth)
             item == DecodeValue(data, key.at, depth)
         IN IF key.error # "None" THEN key
            ELSE IF key.value[1] # "Text" THEN Failed("UnsupportedMapKey")
            ELSE IF item.error # "None" THEN item
            ELSE IF key.value[2] \in DOMAIN entries THEN Failed("DuplicateMapKey")
            ELSE DecodeEntries(data, item.at, left - 1, depth,
                   [k \in DOMAIN entries \cup {key.value[2]} |->
                      IF k = key.value[2] THEN item.value ELSE entries[k]])

(* decode: one value, and nothing after it *)
TrailingIgnored(read, data) == FALSE   \* mutant: what follows is not looked at
Trailing(read, data) == read.at # Len(data)

Decoded(data) ==
    LET read == DecodeValue(data, 0, 0)
    IN IF read.error = "None" /\ Trailing(read, data) THEN Failed("TrailingBytes") ELSE read
=============================================================================
