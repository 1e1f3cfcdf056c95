--------------------------- MODULE MqttTransport ---------------------------
(***************************************************************************)
(* Esp32AwsIotTransport (src/src/network/mqtt_transport.cpp): the session  *)
(* the firmware believes in, kept apart from the state of the MQTT client  *)
(* library underneath and from what the broker holds for it.               *)
(*                                                                         *)
(* Each operation is an action over transportVars that a composing module  *)
(* conjoins with its own effects; the outcome the library chooses is a     *)
(* disjunct.  The session is clean (setOptions(keepAlive, true, ...)), so  *)
(* a new connection starts with no subscription.                           *)
(***************************************************************************)

VARIABLES
    clientUp,      \* client_->connected()
    sessionValid,  \* sessionValid_
    callbackSet,   \* callback_ holds the command handler's callback
    brokerSub      \* the broker routes the command topic to this session

transportVars == <<clientUp, sessionValid, callbackSet, brokerSub>>

TransportTypeOK ==
    /\ clientUp \in BOOLEAN
    /\ sessionValid \in BOOLEAN
    /\ callbackSet \in BOOLEAN
    /\ brokerSub \in BOOLEAN

TransportInit ==
    /\ clientUp = FALSE
    /\ sessionValid = FALSE
    /\ callbackSet = FALSE
    /\ brokerSub = FALSE

(* Mutant of IsConnected: it trusts the flag and does not ask the client.  *)
IsConnectedByFlag == sessionValid

(* isConnected()                                                           *)
IsConnected == sessionValid /\ clientUp

----------------------------------------------------------------------------
(* connect(): the old session is torn down before anything else, so a      *)
(* failure at any later step (configuration, TLS, CONNECT) leaves none.    *)
(* The callback of the previous subscription stays installed.              *)
ConnectSucceeds ==
    /\ clientUp' = TRUE
    /\ sessionValid' = TRUE
    /\ brokerSub' = FALSE
    /\ UNCHANGED callbackSet

ConnectFails ==
    /\ clientUp' = FALSE
    /\ sessionValid' = FALSE
    /\ brokerSub' = FALSE
    /\ UNCHANGED callbackSet

Disconnect ==
    /\ clientUp' = FALSE
    /\ sessionValid' = FALSE
    /\ callbackSet' = FALSE
    /\ brokerSub' = FALSE

(* publish() returns false without touching the client.                    *)
PublishRefused ==
    /\ ~IsConnected
    /\ UNCHANGED transportVars

(* publish() returns true: at QoS 1 the PUBACK came back.                  *)
PublishAcknowledged ==
    /\ IsConnected
    /\ UNCHANGED transportVars

(* Mutant of PublishFails: the session is kept.                            *)
PublishFailsKeepsSession ==
    /\ IsConnected
    /\ UNCHANGED transportVars

(* publish() returns false: the session is no longer trusted, whether or   *)
(* not the library still calls itself connected.                           *)
PublishFails ==
    /\ IsConnected
    /\ sessionValid' = FALSE
    /\ clientUp' \in {clientUp, FALSE}
    /\ UNCHANGED <<callbackSet, brokerSub>>

SubscribeSucceeds ==
    /\ IsConnected
    /\ callbackSet' = TRUE
    /\ brokerSub' = TRUE
    /\ UNCHANGED <<clientUp, sessionValid>>

(* subscribe() on a dead session, or without a SUBACK; the broker may have *)
(* acted on the request all the same.                                      *)
SubscribeRefused ==
    /\ ~IsConnected
    /\ sessionValid' = FALSE
    /\ UNCHANGED <<clientUp, callbackSet, brokerSub>>

SubscribeFails ==
    /\ IsConnected
    /\ sessionValid' = FALSE
    /\ clientUp' \in {clientUp, FALSE}
    /\ brokerSub' \in {brokerSub, TRUE}
    /\ UNCHANGED callbackSet

(* poll() finds the client disconnected after its loop().                  *)
PollFindsBroken ==
    /\ IsConnected
    /\ clientUp' = FALSE
    /\ sessionValid' = FALSE
    /\ brokerSub' = FALSE
    /\ UNCHANGED callbackSet

(* The TCP/TLS connection dies on its own; sessionValid_ is not told.      *)
ClientDrops ==
    /\ clientUp
    /\ clientUp' = FALSE
    /\ brokerSub' = FALSE
    /\ UNCHANGED <<sessionValid, callbackSet>>
=============================================================================
