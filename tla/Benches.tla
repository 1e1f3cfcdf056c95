------------------------------- MODULE Benches -------------------------------
(***************************************************************************)
(* Components that no other one of the program drives but by their inputs, *)
(* each on its own bench: the debounced inputs, the bring-up of the        *)
(* Si3050, the meter of its clock probe, the command parser, the MQTT      *)
(* client, the backoff between connections.  They share no state; a        *)
(* behaviour exercises one of them.                                        *)
(***************************************************************************)
EXTENDS RingInputs, Si3050BringUp, ClockProbe, CommandParser, MqttClient,
        ReconnectBackoff

CONSTANT Exercised    \* the benches of a run

ASSUME BenchesAssumption ==
    Exercised \subseteq
        {"config", "ring", "detector", "si3050", "meter", "parser", "client", "reconnect"}

VARIABLE bench

vars == <<bench, inputVars, bringUpVars, meterVars, parserVars, clientVars, reconnectVars>>

TypeOK ==
    /\ bench \in Exercised
    /\ InputsTypeOK /\ BringUpTypeOK /\ MeterTypeOK /\ ClientTypeOK /\ ReconnectTypeOK
    /\ strict \in BOOLEAN

(* A component off the bench rests in one of its initial states.           *)
OnBench(benches, values, rest) == IF bench \in benches THEN values ELSE {rest}

EmptyPayload ==
    CHOOSE p \in Payload : p.size = "fits" /\ p.json = "other" /\ Bare(p)

Init ==
    /\ bench \in Exercised
    /\ kind = (IF bench \in {"ring", "detector"} THEN bench ELSE "config")
    /\ level \in OnBench({"config", "ring", "detector"}, BOOLEAN, FALSE)
    /\ config \in OnBench({"si3050"}, Configs, CHOOSE c \in Configs : TRUE)
    /\ strict \in OnBench({"parser"}, BOOLEAN, FALSE)
    /\ payload \in OnBench({"parser"}, Payloads, EmptyPayload)
    /\ InputsInit /\ BringUpInit /\ MeterInit /\ ParserInit /\ ClientInit
    /\ ReconnectInit

Next ==
    /\ UNCHANGED bench
    /\ \/ /\ bench \in {"config", "ring", "detector"}
          /\ InputsNext
          /\ UNCHANGED <<bringUpVars, meterVars, parserVars, clientVars, reconnectVars>>
       \/ /\ bench = "si3050"
          /\ BringUpNext
          /\ UNCHANGED <<inputVars, meterVars, parserVars, clientVars, reconnectVars>>
       \/ /\ bench = "meter"
          /\ MeterNext
          /\ UNCHANGED <<inputVars, bringUpVars, parserVars, clientVars, reconnectVars>>
       \/ /\ bench = "parser"
          /\ ParseCommand
          /\ UNCHANGED <<inputVars, bringUpVars, meterVars, clientVars, reconnectVars>>
       \/ /\ bench = "client"
          /\ ClientNext
          /\ UNCHANGED <<inputVars, bringUpVars, meterVars, parserVars, reconnectVars>>
       \/ /\ bench = "reconnect"
          /\ ReconnectNext
          /\ UNCHANGED <<inputVars, bringUpVars, meterVars, parserVars, clientVars>>

Spec == Init /\ [][Next]_vars
=============================================================================
