----------------------------- MODULE MessageFields -----------------------------
(***************************************************************************)
(* rc::control (core/src/control.cpp), as fields: what each message that   *)
(* Reception's two ends exchange has in it, what its builder puts in and   *)
(* what its parser accepts.                                                *)
(*                                                                         *)
(* A parser looks at a field's kind: its type, and what else is required   *)
(* of it (a text that is not empty, a device id, 32 bytes, a number that   *)
(* is finite, an unsigned integer that is not 0 or within a limit).        *)
(***************************************************************************)
EXTENDS Reception

-----------------------------------------------------------------------------
(* Kinds of values, and what the accessors take: Value::asText and the       *)
(* others are strict, numericDouble also takes integers but nothing that is  *)
(* not finite.                                                               *)
Text == {"deviceId", "text", "long", "empty"}
Unsigned == {"unsigned", "zero", "tooLarge"}
Number == Unsigned \cup {"negative", "real"}
Kinds == Text \cup Number \cup
         {"notFinite", "boolean", "bytes32", "bytes", "null", "texts", "cameras", "codecs", "formats"}

NonEmpty == Text \ {"empty"}
Brief == NonEmpty \ {"long"}
Positive == Unsigned \ {"zero"}
InRange == {"unsigned"}

(* The parsers' lists of fields (onlyFields), and what each must be.  A      *)
(* flag is a boolean, and is read as false if it is anything else.           *)
Flag == Kinds

Allowed(type) ==
    CASE type = "hello" ->
           [v |-> Unsigned, device_id |-> {"deviceId"}, device_name |-> NonEmpty,
            platform |-> NonEmpty, model |-> NonEmpty, caps |-> {"texts", "codecs"},
            allow_unauthenticated |-> Flag]
      [] type = "auth_response" -> [client_nonce |-> {"bytes32"}, client_proof |-> {"bytes32"}]
      [] type = "format_ack" -> [generation |-> Positive]
      [] type = "format_reject" ->
           [generation |-> Positive, code |-> Brief, message |-> Brief]
      [] type = "orientation" -> [deg |-> Number, locked |-> Flag]
      [] type = "thermal" -> [state |-> Text]
      [] type = "battery" -> [level |-> Number, charging |-> Flag]
      [] type = "camera_state" ->
           [device_id |-> Text \cup {"null"}, position |-> Text, lens |-> Text,
            zoom |-> Number, focus_mode |-> Text, focus |-> Number,
            exposure_mode |-> Text, iso |-> Number, exposure |-> Number, ev |-> Number,
            wb_mode |-> Text, wb |-> Number, torch |-> {"boolean"}, stabilization |-> Flag]
      [] type = "error" -> [code |-> Text, message |-> Text]
      [] type = "caps" -> [cameras |-> {"cameras"}, codecs |-> {"codecs"}]
      [] type = "camera" ->
           [id |-> NonEmpty, name |-> Text, position |-> Text, lens |-> Text,
            formats |-> {"formats"}]
      [] type = "format" -> [width |-> InRange, height |-> InRange, fps |-> InRange]

(* What may be missing: a flag is then false, a camera has no device. *)
MayMiss(type) ==
    {f \in DOMAIN Allowed(type) : Allowed(type)[f] = Flag}
      \cup (IF type = "camera_state" THEN {"device_id"} ELSE {})

(* parseHello, parseFormatAck and the others *)
UnknownPass(type, fields) == {}   \* mutant: onlyFields is left out
Unknowns(type, fields) == DOMAIN fields \ DOMAIN Allowed(type)

Parses(type, fields) ==
    /\ Unknowns(type, fields) = {}
    /\ DOMAIN Allowed(type) \ MayMiss(type) \subseteq DOMAIN fields
    /\ \A f \in DOMAIN fields \cap DOMAIN Allowed(type) : fields[f] \in Allowed(type)[f]

(* The kinds a builder may put into each field. *)
WithoutLens(type) ==   \* mutant: cameraState and capabilities forget the lens
    [f \in DOMAIN Allowed(type) \ {"lens"} |-> Allowed(type)[f]]
Built(type) ==
    CASE type = "hello" ->
           [v |-> {"unsigned"}, device_id |-> Text, device_name |-> Text,
            platform |-> Text, model |-> Text, caps |-> {"texts"},
            allow_unauthenticated |-> {"boolean"}]
      [] type = "auth_response" -> [client_nonce |-> {"bytes32"}, client_proof |-> {"bytes32"}]
      [] type = "format_ack" -> [generation |-> Unsigned]
      [] type = "format_reject" -> [generation |-> Unsigned, code |-> Text, message |-> Text]
      [] type = "orientation" -> [deg |-> {"real", "notFinite"}, locked |-> {"boolean"}]
      [] type = "thermal" -> [state |-> Text]
      [] type = "battery" -> [level |-> {"real", "notFinite"}, charging |-> {"boolean"}]
      [] type = "camera_state" ->
           [device_id |-> Text \cup {"null"}, position |-> Text, lens |-> Text,
            zoom |-> {"real", "notFinite"}, focus_mode |-> Text,
            focus |-> {"real", "notFinite"}, exposure_mode |-> Text,
            iso |-> {"real", "notFinite"}, exposure |-> {"real", "notFinite"},
            ev |-> {"real", "notFinite"}, wb_mode |-> Text,
            wb |-> {"real", "notFinite"}, torch |-> {"boolean"},
            stabilization |-> {"boolean"}]
      [] type = "error" -> [code |-> Text, message |-> Text]
      [] type = "caps" -> [cameras |-> {"cameras"}, codecs |-> {"codecs", "texts"}]
      [] type = "camera" ->
           [id |-> Text, name |-> Text, position |-> Text, lens |-> Text,
            formats |-> {"formats"}]
      [] type = "format" -> [width |-> Unsigned, height |-> Unsigned, fps |-> Unsigned]

-----------------------------------------------------------------------------
Types == {"hello", "auth_response", "format_ack", "format_reject", "orientation", "thermal",
          "battery", "camera_state", "error", "caps", "camera", "format"}
Fields == UNION {DOMAIN Built(type) : type \in Types} \cup {"other"}

(* What a sender in order has to say *)
Usable == Kinds \ {"long", "empty", "zero", "tooLarge", "notFinite"}
Base(type) ==
    [f \in DOMAIN Built(type) |->
        IF f = "device_id" THEN "deviceId"
        ELSE IF f = "codecs" THEN "codecs" ELSE CHOOSE k \in Built(type)[f] : k \in Usable]
With(fields, f, k) == [g \in DOMAIN fields \cup {f} |-> IF g = f THEN k ELSE fields[g]]
Without(fields, f) == [g \in DOMAIN fields \ {f} |-> fields[g]]

(* The flags that a client may leave out *)
Flags == {"allow_unauthenticated", "locked", "charging", "stabilization"}

Understood == [type \in Types |->
    /\ Parses(type, Base(type))
    /\ \A f \in DOMAIN Base(type) :
         /\ Parses(type, Without(Base(type), f)) <=>
              f \in Flags \/ (type = "camera_state" /\ f = "device_id")
         /\ "notFinite" \in Built(type)[f] => ~Parses(type, With(Base(type), f, "notFinite"))
         /\ f \in Flags => Parses(type, With(Base(type), f, "null"))
    /\ \A f \in Fields \ DOMAIN Base(type) : ~Parses(type, With(Base(type), f, "null"))]

(* What the session reads in each of its phases *)
Awaited ==
    CASE state = "AwaitingHello" -> {"hello"}
      [] state = "AwaitingTrust" -> {"auth_response"}
      [] OTHER -> Types \ {"hello", "auth_response"}

(* protocol.md: "Known v1 message types reject fields outside their listed   *)
(* schema, including nested camera and format maps."  What the builder of a  *)
(* message that the session waits for puts in is what its parser takes, no   *)
(* field more and none but a flag less; a number that is not finite is       *)
(* taken nowhere.                                                            *)
MessagesUnderstood == server = "recv" => \A type \in Awaited : Understood[type]
===============================================================================
