---------------------------- MODULE CommandParser ----------------------------
(***************************************************************************)
(* parseCommand() (src/src/protocol/messages.cpp): the verdict on one      *)
(* command payload.  A payload is what its checks tell apart of it: each   *)
(* field is one of a few classes of values.  The strict parser, which      *)
(* RemoteCommandProcessor uses, knows the device_id it expects; the other  *)
(* one does not ask for the fields that go with it.                        *)
(***************************************************************************)
VARIABLES
    strict,     \* expectedDeviceId is given
    payload,    \* the payload received
    parsed      \* the result, of which status is "none" before the call

parserVars == <<strict, payload, parsed>>

(* "not" stands for a field that is missing or has another JSON type.      *)
Payload ==
    [size : {"fits", "large"}, json : {"object", "other", "broken"},
     fields : SUBSET {"unlisted", "payload", "forbidden"},
     protocol_version : {"current", "other", "not"},
     command_id : {"hex32", "malformed", "not"},
     command : {"OPEN_DOOR", "RESTART", "LATER_COMMAND", "empty", "not"},
     device_id : {"own", "other", "not"}, parameters : {"empty", "filled", "not"},
     issued_at : {"int", "not"}, expires_at : {"int", "not"}]

(* A payload that is no JSON object has no fields.                         *)
Bare(p) ==
    /\ p.fields = {}
    /\ \A f \in {"protocol_version", "command_id", "command", "device_id",
                 "parameters", "issued_at", "expires_at"} : p[f] = "not"

Payloads == {p \in Payload : p.json # "object" => Bare(p)}

(* commandTypeFromString()                                                 *)
CommandTypeOf(command) ==
    IF command \in {"OPEN_DOOR", "RESTART", "ENTER_PROVISIONING", "FACTORY_RESET",
                    "ANSWER_CALL", "REJECT_CALL", "END_CALL"}
    THEN command ELSE "Unknown"

(* A field outside the seven listed ones; only the strict parser minds.    *)
Unlisted(p) == strict /\ p.fields # {}

(* Mutant of OtherDevice: only the type of device_id is looked at.         *)
OtherDeviceByType(p) == strict /\ p.device_id = "not"
OtherDevice(p) == strict /\ p.device_id # "own"

(* isValidCommandId() and the type of the other two.                       *)
Unidentified(p) == p.command_id # "hex32" \/ p.command \in {"empty", "not"} \/ OtherDevice(p)

Incomplete(p) ==
    strict /\ (p.parameters # "empty" \/ p.issued_at = "not" \/ p.expires_at = "not")

(* The first check that fails decides; the version is looked at once the   *)
(* payload is known to hold no field it must not hold.                     *)
ParseStatus(p) ==
    CASE p.size = "large" -> "PayloadTooLarge"
      [] p.size # "large" /\ (p.json = "broken" \/ Unlisted(p) \/ "forbidden" \in p.fields
                              \/ p.protocol_version = "not") -> "InvalidPayload"
      [] OTHER -> IF p.protocol_version # "current" THEN "UnsupportedProtocolVersion"
                  ELSE IF Unidentified(p) \/ Incomplete(p) THEN "InvalidPayload"
                  ELSE "Ok"

NotParsed == [status |-> "none"]

(* The fields of DeviceCommand exist only in a result that is Ok.          *)
ParseResult(p) ==
    IF ParseStatus(p) # "Ok" THEN [status |-> ParseStatus(p)]
    ELSE [status |-> "Ok", type |-> CommandTypeOf(p.command),
          hasIssuedAt |-> p.issued_at = "int", hasExpiresAt |-> p.expires_at = "int",
          rawPayload |-> "payload" \in p.fields]

ParserInit ==
    /\ strict \in BOOLEAN
    /\ payload \in Payloads
    /\ parsed = NotParsed

ParseCommand ==
    /\ parsed = NotParsed
    /\ parsed' = ParseResult(payload)
    /\ UNCHANGED <<strict, payload>>

----------------------------------------------------------------------------
(* Properties.                                                             *)

(* What docs and parser agree is a command: nothing but the fields of the  *)
(* protocol's example, each of its type.                                   *)
PlainCommand ==
    [size : {"fits"}, json : {"object"}, fields : {{}},
     protocol_version : {"current"}, command_id : {"hex32"},
     command : {"OPEN_DOOR", "RESTART", "LATER_COMMAND"}, device_id : {"own"},
     parameters : {"empty"}, issued_at : {"int"}, expires_at : {"int"}]

(* What must hold of a payload, whatever else it holds and says of time.   *)
ForThisDevice(p) ==
    /\ p.size = "fits" /\ p.json = "object" /\ p.protocol_version = "current"
    /\ p.command_id = "hex32" /\ p.command \notin {"empty", "not"}
    /\ p.device_id = "own" /\ p.parameters = "empty"

(* The strict parser passes to the handler only commands for this device,  *)
(* neither parser passes a physical-control field (messages.cpp:210), and  *)
(* both pass every plain command: an unknown name is the handler's to      *)
(* refuse.                                                                 *)
PassesOnlyCommands ==
    parsed # NotParsed =>
        /\ strict /\ parsed.status = "Ok" => ForThisDevice(payload)
        /\ parsed.status = "Ok" => "forbidden" \notin payload.fields
        /\ payload \in PlainCommand => parsed.status = "Ok"

(* "Consumers tolerate additional unknown fields."                         *)
(* (docs/communication-protocol.md:1557); the strict parser does not.      *)
ToleratesUnknownFields ==
    parsed # NotParsed /\ [payload EXCEPT !.fields = {}] \in PlainCommand =>
        (payload.fields = {"unlisted"} => parsed.status = "Ok")

=============================================================================
