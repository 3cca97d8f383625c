------------------------------- MODULE CborHeads -------------------------------
(***************************************************************************)
(* The heads of rc::cbor (core/src/cbor.cpp): a major type and an argument,*)
(* which is an item's value or its length.                                 *)
(*                                                                         *)
(* An argument is its bytes without leading zeros (the whole 64 bits,      *)
(* whatever TLC's own integers hold).                                      *)
(***************************************************************************)
EXTENDS Naturals, Sequences, FiniteSetsExt

Digits(bytes) ==
    SubSeq(bytes, Min({i \in DOMAIN bytes : bytes[i] # 0} \cup {Len(bytes) + 1}), Len(bytes))

Below24(arg) == arg = <<>> \/ (Len(arg) = 1 /\ arg[1] < 24)

(* appendBigEndian *)
BigEndian(arg, width) == [i \in 1 .. width - Len(arg) |-> 0] \o arg

Width(additional) == <<1, 2, 4, 8>>[additional - 23]   \* of the forms 24 to 27

ArgumentOf(n) == Digits(<<n \div 65536, (n \div 256) % 256, n % 256>>)

(* The count an argument of at most three bytes stands for *)
CountOf(arg) ==
    CASE arg = <<>> -> 0
      [] Len(arg) = 1 -> arg[1]
      [] Len(arg) = 2 -> 256 * arg[1] + arg[2]
      [] Len(arg) = 3 -> 65536 * arg[1] + 256 * arg[2] + arg[3]

(* appendHead: the shortest form *)
AppendHead(major, arg) ==
    IF Below24(arg) THEN <<32 * major + CountOf(arg)>>
    ELSE LET form == Min({a \in 24 .. 27 : Len(arg) <= Width(a)})
         IN <<32 * major + form>> \o BigEndian(arg, Width(form))

-----------------------------------------------------------------------------
(* Reading: an error, or what was read and how far *)
Failed(error) == [error |-> error, value |-> <<"Null">>, at |-> 0]
Read(value, at) == [error |-> "None", value |-> value, at |-> at]

(* Reader::readBytes, also for the bytes of an argument *)
Available(data, at, n) == n <= Len(data) - at
Taken(data, at, n) == SubSeq(data, at + 1, at + n)

(* readArgument: no form that is longer than it needs to be *)
MinimalEnough(arg, width) == Len(arg) >= width \div 2   \* mutant: off by one
Minimal(arg, width) ==
    IF width = 1 THEN ~Below24(arg) ELSE Len(arg) > width \div 2

ReadArgument(data, at, additional) ==
    LET width == Width(additional)
        arg == Digits(Taken(data, at, width))
    IN IF additional < 24 THEN Read(Digits(<<additional>>), at)
       ELSE IF additional > 27 THEN Failed("InvalidAdditionalInformation")
       ELSE IF ~Available(data, at, width) THEN Failed("Truncated")
       ELSE IF Minimal(arg, width) THEN Read(arg, at + width)
       ELSE Failed("NonMinimalInteger")
================================================================================
