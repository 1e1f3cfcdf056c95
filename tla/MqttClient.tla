------------------------------ MODULE MqttClient ------------------------------
(***************************************************************************)
(* The MQTT client of the boards, ArduinoMqttClient, statement by          *)
(* statement as Esp32AwsIotTransport::connect() drives it                  *)
(* (src/src/network/mqtt_transport.cpp); MqttTransport is the session that *)
(* comes of it.  The library's MQTTClient keeps a raw pointer to a TLS     *)
(* client that tls_ owns, and a TLS client keeps raw pointers to the PEM   *)
(* buffers of the transport.  The peer may hang up at any time.            *)
(***************************************************************************)
EXTENDS Naturals

CONSTANT Sockets    \* addresses of WiFiClientSecure objects, reused once freed

ASSUME SocketsAssumption == Sockets \subseteq Nat \ {0}

VARIABLES
    clientPc,     \* "idle" outside connect(), or the statement due in it
    valid,        \* sessionValid_
    up,           \* mqtt_.connected()
    owned,        \* what tls_ owns, 0 for nothing
    bound,        \* what the library's Client* points to
    freshTls,     \* the local of configureTls()
    alive,        \* the TLS clients that exist
    open,         \* those with an open socket
    tried,        \* those a connection was attempted over
    stalePem      \* those whose PEM buffers were overwritten

socketVars == <<owned, bound, freshTls, alive, tried, stalePem>>
clientVars == <<clientPc, valid, up, open, socketVars>>

ClientTypeOK ==
    /\ clientPc \in {"idle", "credentials", "configure", "begin", "swap", "connect"}
    /\ {valid, up} \subseteq BOOLEAN
    /\ {owned, bound, freshTls} \subseteq Sockets \cup {0}
    /\ {alive, open, tried, stalePem} \subseteq SUBSET Sockets

ClientInit ==
    /\ clientPc = "idle" /\ valid = FALSE /\ up = FALSE
    /\ owned = 0 /\ bound = 0 /\ freshTls = 0
    /\ alive = {} /\ open = {} /\ tried = {} /\ stalePem = {}

SessionUp == valid /\ owned # 0 /\ up

----------------------------------------------------------------------------

(* teardownSocket(): nothing to do without a TLS client.                   *)
TeardownSocket ==
    IF owned = 0 THEN UNCHANGED <<up, open>>
    ELSE up' = FALSE /\ open' = open \ {owned}

(* connect(): the session of before is torn down first.                    *)
TransportConnects ==
    /\ clientPc = "idle" /\ ~SessionUp
    /\ TeardownSocket
    /\ valid' = FALSE
    /\ clientPc' = "credentials"
    /\ UNCHANGED socketVars

(* It refuses without credentials or with a configuration that is invalid. *)
ConnectRefused ==
    /\ clientPc = "credentials" /\ clientPc' = "idle"
    /\ UNCHANGED <<valid, up, open, socketVars>>

(* certificatePem_ and privateKeyPem_ are assigned over.                   *)
CredentialsLoaded ==
    /\ clientPc = "credentials" /\ clientPc' = "configure"
    /\ stalePem' = alive
    /\ UNCHANGED <<valid, up, open, owned, bound, freshTls, alive, tried>>

(* Mutant of FreshSockets: the TLS client of before is connected again.    *)
SameSocket == IF owned = 0 THEN Sockets \ alive ELSE {owned}

FreshSockets == Sockets \ alive

(* configureTls(), up to the three PEM setters.                            *)
AllocatesTls ==
    /\ clientPc = "configure" /\ clientPc' = "begin"
    /\ TeardownSocket
    /\ \E s \in FreshSockets :
        /\ freshTls' = s /\ alive' = alive \cup {s}
        /\ stalePem' = stalePem \ {s}
    /\ UNCHANGED <<valid, owned, bound, tried>>

(* mqtt_.begin() binds the library to the new TLS client.                  *)
BindsLibrary ==
    /\ clientPc = "begin" /\ clientPc' = "swap"
    /\ bound' = freshTls
    /\ UNCHANGED <<valid, up, open, owned, freshTls, alive, tried, stalePem>>

(* tls_ takes the new one over, and the old one is destroyed.              *)
SwapsTls ==
    /\ clientPc = "swap" /\ clientPc' = "connect"
    /\ owned' = freshTls /\ freshTls' = 0
    /\ LET old == {owned} \ {freshTls} IN
        /\ alive' = alive \ old /\ open' = open \ old
        /\ tried' = tried \ old /\ stalePem' = stalePem \ old
    /\ UNCHANGED <<valid, up, bound>>

(* The library's connect() opens the socket, and closes it if the session  *)
(* is refused.                                                             *)
ClientConnects ==
    /\ clientPc = "connect" /\ clientPc' = "idle"
    /\ tried' = tried \cup {bound}
    /\ \/ valid' = TRUE /\ up' = TRUE /\ open' = open \cup {bound}
       \/ UNCHANGED <<valid, up, open>>
    /\ UNCHANGED <<owned, bound, freshTls, alive, stalePem>>

----------------------------------------------------------------------------
(* publish() or subscribe() that fails: the library closes its socket only *)
(* for some errors, the transport trusts neither.                          *)
RequestFails ==
    /\ clientPc = "idle" /\ SessionUp
    /\ valid' = FALSE
    /\ \/ UNCHANGED <<up, open>>
       \/ up' = FALSE /\ open' = open \ {bound}
    /\ UNCHANGED <<clientPc, socketVars>>

(* poll() finds that loop() closed the connection.                         *)
PollFails ==
    /\ clientPc = "idle" /\ SessionUp
    /\ valid' = FALSE /\ up' = FALSE /\ open' = open \ {bound}
    /\ UNCHANGED <<clientPc, socketVars>>

TransportDisconnects ==
    /\ clientPc = "idle"
    /\ TeardownSocket
    /\ valid' = FALSE
    /\ UNCHANGED <<clientPc, socketVars>>

(* The peer hangs up: connected() sees it, the socket stays allocated.     *)
PeerHangsUp ==
    /\ up /\ up' = FALSE
    /\ UNCHANGED <<clientPc, valid, open, socketVars>>

ClientNext ==
    \/ TransportConnects \/ ConnectRefused \/ CredentialsLoaded
    \/ AllocatesTls \/ BindsLibrary \/ SwapsTls \/ ClientConnects
    \/ RequestFails \/ PollFails \/ TransportDisconnects \/ PeerHangsUp

----------------------------------------------------------------------------
(* The library's pointer never dangles, "not even for an instant"; every   *)
(* attempt to connect is over a TLS client that never tried before; no     *)
(* socket is left open behind the one in use, and none of them over PEM    *)
(* buffers that were overwritten (the comments of ArduinoMqttClient and of *)
(* certificatePem_), whatever failed before and whenever the peer hung up. *)
FreshSocket ==
    /\ bound # 0 => bound \in alive
    /\ clientPc = "connect" => bound = owned /\ bound \notin tried \cup stalePem
    /\ open \subseteq {bound} \ stalePem
=============================================================================
