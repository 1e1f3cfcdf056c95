----------------------------- MODULE SmokeState -----------------------------
(***************************************************************************)
(* DevMqttSmokeState (src/src/dev/mqtt_smoke_state.cpp): the connectivity  *)
(* cascade Wi-Fi, DNS, time, MQTT that every DEV image runs.               *)
(*                                                                         *)
(* A deadline is kept as the time left to it, in units of a loop pass: 0   *)
(* is a deadline that is reached, Idle a timer that is not armed.  That is *)
(* what the signed difference of deadlineReached() compares, as long as a  *)
(* deadline is used or replaced within half a turn of the counter.         *)
(*                                                                         *)
(* The coordinator is one record, sm.  Its helpers map a record to a       *)
(* record, so that a composing module applies them in the code's order;    *)
(* update() is one action per way it returns, from a record r, and its     *)
(* result is in todo.                                                      *)
(***************************************************************************)
EXTENDS Integers

CONSTANTS
    InitialRetry,        \* initialRetryMs_
    MaxRetry,            \* maxRetryMs_
    NtpTimeout,          \* ntpAttemptTimeoutMs_
    AssociationTimeout,  \* wifiAssociationTimeoutMs_
    RecoveryThreshold,   \* wifiRecoveryThreshold_
    RecoveryCooldown     \* wifiRecoveryCooldownMs_

ASSUME SmokeAssumption ==
    /\ {InitialRetry, MaxRetry, NtpTimeout, AssociationTimeout,
        RecoveryThreshold, RecoveryCooldown} \subseteq Nat \ {0}
    /\ InitialRetry <= MaxRetry

VARIABLES
    sm,      \* the members of the coordinator
    todo     \* the action update() returned and the loop has yet to perform

smokeVars == <<sm, todo>>

Idle == -1
States == {"wifi", "dns", "time", "mqtt", "online"}
Actions == {"None", "ConnectWifi", "ResolveDns", "ConfigureTime",
            "ConnectMqtt", "RecoverWifi"}

SmokeRecord ==
    [state : States,                            \* state_
     retryIn : 0..MaxRetry,                     \* retryAtMs_
     retryDelay : InitialRetry..MaxRetry,       \* retryDelayMs_
     issued : BOOLEAN,                          \* actionIssued_
     ntpIn : Idle..NtpTimeout,                  \* ntpAttemptInFlight_, -DeadlineMs_
     attemptIn : Idle..AssociationTimeout,      \* wifiAttemptInFlight_, -DeadlineMs_
     confirmIn : Idle..AssociationTimeout,      \* wifiConfirmPending_, -DeadlineMs_
     wifiRetryIn : 0..MaxRetry,                 \* wifiRetryAtMs_
     wifiDelay : InitialRetry..MaxRetry,        \* wifiRetryDelayMs_
     failures : 0..(RecoveryThreshold - 1),     \* consecutiveConnectivityFailures_
     cooldownIn : Idle..RecoveryCooldown,       \* wifiRecoveryCooldownActive_, -UntilMs_
     recovery : BOOLEAN,                        \* wifiRecoveryRequested_
     awaiting : BOOLEAN]                        \* awaitingWifiRecoveryDisconnect_

SmokeTypeOK == sm \in SmokeRecord /\ todo \in Actions

SmokeInit ==
    /\ sm = [state |-> "wifi", retryIn |-> 0, retryDelay |-> InitialRetry,
             issued |-> FALSE, ntpIn |-> Idle, attemptIn |-> Idle,
             confirmIn |-> Idle, wifiRetryIn |-> 0, wifiDelay |-> InitialRetry,
             failures |-> 0, cooldownIn |-> Idle, recovery |-> FALSE,
             awaiting |-> FALSE]
    /\ todo = "None"

----------------------------------------------------------------------------
TimeLeft(x, n) == IF x > n THEN x - n ELSE IF x = Idle THEN Idle ELSE 0

(* The record n units later.                                               *)
Elapsed(m, n) ==
    [m EXCEPT !.retryIn = TimeLeft(@, n), !.ntpIn = TimeLeft(@, n),
              !.attemptIn = TimeLeft(@, n), !.confirmIn = TimeLeft(@, n),
              !.wifiRetryIn = TimeLeft(@, n), !.cooldownIn = TimeLeft(@, n)]

Doubled(d) == IF d > MaxRetry \div 2 THEN MaxRetry ELSE d * 2

(* enter(): the Wi-Fi ladder keeps its deadline and its growth.            *)
Enter(m, s) ==
    [m EXCEPT !.state = s, !.retryDelay = InitialRetry, !.retryIn = 0,
              !.issued = FALSE, !.confirmIn = Idle]

ScheduleRetry(m) ==
    [m EXCEPT !.retryIn = m.retryDelay, !.retryDelay = Doubled(@), !.issued = FALSE]

ScheduleWifiRetry(m) ==
    [m EXCEPT !.wifiRetryIn = m.wifiDelay, !.wifiDelay = Doubled(@)]

(* recordConnectivityFailure()                                             *)
RecordFailure(m) ==
    IF m.failures + 1 < RecoveryThreshold THEN [m EXCEPT !.failures = @ + 1]
    ELSE IF m.cooldownIn > 0 THEN [m EXCEPT !.failures = 0]
    ELSE [m EXCEPT !.failures = 0, !.cooldownIn = RecoveryCooldown, !.recovery = TRUE]

----------------------------------------------------------------------------
(* wifiAssociationStarted()                                                *)
AssociationStarted(m) ==
    IF m.attemptIn = Idle THEN m ELSE [m EXCEPT !.attemptIn = AssociationTimeout]

(* wifiAssociationResult(true) and (false)                                 *)
AssociationSucceeded(m) ==
    IF m.state # "wifi" \/ m.attemptIn = Idle THEN m
    ELSE [m EXCEPT !.attemptIn = Idle, !.confirmIn = AssociationTimeout]

AssociationFailed(m) ==
    IF m.state # "wifi" \/ m.attemptIn = Idle THEN m
    ELSE ScheduleWifiRetry([m EXCEPT !.attemptIn = Idle])

DnsResult(m, ok) ==
    IF m.state # "dns" THEN m
    ELSE IF ok THEN Enter(m, "time") ELSE RecordFailure(ScheduleRetry(m))

NetworkPreflightFailed(m) ==
    IF m.state # "mqtt" THEN m ELSE RecordFailure(Enter(m, "dns"))

MqttResult(m, ok) ==
    IF m.state # "mqtt" THEN m
    ELSE IF ok
         THEN [Enter(m, "online") EXCEPT
                  !.failures = 0, !.cooldownIn = Idle, !.recovery = FALSE,
                  !.awaiting = FALSE, !.wifiDelay = InitialRetry]
         ELSE RecordFailure(ScheduleRetry(m))
----------------------------------------------------------------------------
(* Mutant of UpdateRecovers: nothing waits for the disconnect.             *)
UpdateRecoversAtOnce(r) ==
    /\ r.recovery
    /\ sm' = [Enter(r, "wifi") EXCEPT
                 !.recovery = FALSE, !.ntpIn = Idle, !.attemptIn = Idle,
                 !.wifiRetryIn = 0]
    /\ todo' = "RecoverWifi"

(* update(): an authorised recovery preempts everything else.              *)
UpdateRecovers(r) ==
    /\ r.recovery
    /\ sm' = [Enter(r, "wifi") EXCEPT
                 !.recovery = FALSE, !.ntpIn = Idle, !.attemptIn = Idle,
                 !.wifiRetryIn = 0, !.awaiting = TRUE]
    /\ todo' = "RecoverWifi"

(* The disconnect of a recovery has not taken effect yet.                  *)
UpdateAwaits(r, wifi) ==
    /\ ~r.recovery /\ r.awaiting /\ wifi
    /\ todo' = "None" /\ sm' = r

LossNoticed(m) ==
    IF m.state = "wifi" THEN m
    ELSE [Enter(m, "wifi") EXCEPT !.ntpIn = Idle, !.attemptIn = Idle, !.wifiRetryIn = 0]

AttemptExpired(m) ==
    IF m.attemptIn = 0 THEN ScheduleWifiRetry([m EXCEPT !.attemptIn = Idle]) ELSE m

(* Mutant of ConfirmExpired: the confirmation is waited for without limit. *)
ConfirmNeverExpires(m) == m

ConfirmExpired(m) ==
    IF m.attemptIn = Idle /\ m.confirmIn = 0
    THEN ScheduleWifiRetry([m EXCEPT !.confirmIn = Idle]) ELSE m

(* What a pass without Wi-Fi makes of the record before it decides.        *)
Offline(r) ==
    ConfirmExpired(AttemptExpired(LossNoticed([r EXCEPT !.awaiting = FALSE])))

MayBegin(m) == m.attemptIn = Idle /\ m.confirmIn = Idle /\ m.wifiRetryIn = 0

UpdateWaitsForWifi(r, wifi) ==
    /\ ~r.recovery /\ ~wifi
    /\ ~MayBegin(Offline(r))
    /\ sm' = Offline(r) /\ todo' = "None"

UpdateConnectsWifi(r, wifi) ==
    /\ ~r.recovery /\ ~wifi
    /\ MayBegin(Offline(r))
    /\ sm' = [Offline(r) EXCEPT !.attemptIn = AssociationTimeout]
    /\ todo' = "ConnectWifi"

----------------------------------------------------------------------------
(* The cascade over a Wi-Fi link; m is the record after the stages that    *)
(* this update() leaves.                                                   *)
Linked(m) == IF m.state = "wifi" THEN Enter(m, "dns") ELSE m

Due(m) == ~m.issued /\ m.retryIn = 0

UpdateDns(r, wifi) ==
    LET m == Linked(r) IN
    /\ ~r.recovery /\ ~r.awaiting /\ wifi
    /\ m.state = "dns"
    /\ sm' = [m EXCEPT !.issued = @ \/ Due(m)]
    /\ todo' = IF Due(m) THEN "ResolveDns" ELSE "None"

(* An attempt that is still in flight is not repeated, whatever the        *)
(* backoff says.                                                           *)
UpdateTime(r, wifi, timeValid) ==
    LET m == [r EXCEPT !.ntpIn = IF @ = 0 THEN Idle ELSE @]
        asks == m.ntpIn = Idle /\ Due(m) IN
    /\ ~r.recovery /\ ~r.awaiting /\ wifi
    /\ r.state = "time" /\ ~timeValid
    /\ sm' = IF asks THEN [ScheduleRetry(m) EXCEPT !.ntpIn = NtpTimeout] ELSE m
    /\ todo' = IF asks THEN "ConfigureTime" ELSE "None"

(* A valid clock passes through the time stage in the same update().       *)
Timed(m, timeValid) ==
    IF m.state = "time" /\ timeValid THEN Enter([m EXCEPT !.ntpIn = Idle], "mqtt") ELSE m

UpdateMqtt(r, wifi, timeValid, mqttConnected) ==
    LET m == Timed(r, timeValid) IN
    /\ ~r.recovery /\ ~r.awaiting /\ wifi
    /\ m.state = "mqtt"
    /\ IF ~timeValid THEN sm' = Enter(m, "time") /\ todo' = "None"
       ELSE IF mqttConnected THEN sm' = Enter(m, "online") /\ todo' = "None"
       ELSE /\ sm' = [m EXCEPT !.issued = @ \/ Due(m)]
            /\ todo' = IF Due(m) THEN "ConnectMqtt" ELSE "None"

UpdateOnline(r, wifi, timeValid, mqttConnected) ==
    /\ ~r.recovery /\ ~r.awaiting /\ wifi
    /\ r.state = "online"
    /\ sm' = IF mqttConnected THEN r
             ELSE Enter(r, IF timeValid THEN "mqtt" ELSE "time")
    /\ todo' = "None"

(* update(nowMs, wifiConnected, timeValid, mqttConnected)                  *)
Update(r, wifi, timeValid, mqttConnected) ==
    \/ UpdateRecovers(r)
    \/ UpdateAwaits(r, wifi)
    \/ UpdateWaitsForWifi(r, wifi)
    \/ UpdateConnectsWifi(r, wifi)
    \/ UpdateDns(r, wifi)
    \/ UpdateTime(r, wifi, timeValid)
    \/ UpdateMqtt(r, wifi, timeValid, mqttConnected)
    \/ UpdateOnline(r, wifi, timeValid, mqttConnected)
=============================================================================
