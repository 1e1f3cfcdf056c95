-------------------------- MODULE SmokeConnectivity --------------------------
(***************************************************************************)
(* The loop that the DEV images run around DevMqttSmokeState               *)
(* (src/src/dev/mqtt_smoke_main.cpp; dev_ring_simulator_main.cpp and       *)
(* ble_mqtt_main.cpp repeat it with the differences DevImages names), with *)
(* the Wi-Fi driver, the SNTP client and the broker it talks to.           *)
(*                                                                         *)
(* One pass of loop() is cut where another task may come in between: the   *)
(* reading of WiFi.status(), the two event flags, which the driver's task  *)
(* sets some time after the status changed, the action, and the report.    *)
(* A pass takes one unit of time or, when a call blocks, up to LongestPass *)
(* of them; results are dated at its start, as the code dates them.        *)
(***************************************************************************)
EXTENDS SmokeState, Sequences

CONSTANTS
    ScanTime,       \* units the one Wi-Fi scan of a boot takes
    LongestPass,    \* units a pass may take when a call blocks
    MaxUndelivered  \* bound on the driver's events not yet delivered

ASSUME ConnectivityAssumption ==
    ScanTime \in Nat /\ {LongestPass, MaxUndelivered} \subseteq Nat \ {0}

VARIABLES
    phase,        \* where the pass of loop() is
    sawWifi,      \* wifiConnected of this pass
    radio,        \* the driver: idle, joining, up, or leaving on request
    undelivered,  \* events the driver's task has yet to hand to onWifiEvent()
    gotIp,        \* wifiAssociatedEventPending
    lost,         \* wifiDisconnectedEventPending
    stored,       \* the driver has the credentials of a network
    clock,        \* NtpSyncState and the SNTP client: never asked, asked,
                  \* settling, trusted
    session,      \* transport.isConnected()
    subscribed,   \* subscribed
    forced,       \* forced_ of the health reporter
    scanned,      \* wifiScanEverRun
    healthy,      \* the network has recovered for good
    joinAge,      \* time since WiFi.begin(), Idle once an outcome of it or of
                  \* anything later was drained
    stale,        \* a recovery asked the radio to leave and it has not yet
    announced     \* this session has reported health

envVars == <<radio, undelivered, stored, clock, healthy>>
loopVars == <<phase, sawWifi, gotIp, lost, session, subscribed, forced, scanned>>
historyVars == <<joinAge, stale, announced>>
connectivityVars == <<smokeVars, envVars, loopVars, historyVars>>

Status == radio \in {"up", "leaving"}    \* WiFi.status() == WL_CONNECTED
HasValidTime == clock = "trusted"        \* clockSource.hasValidTime()

ConnectivityTypeOK ==
    /\ SmokeTypeOK
    /\ phase \in {"sample", "gotIp", "lost", "act", "report"}
    /\ radio \in {"idle", "joining", "up", "leaving"}
    /\ undelivered \in Seq({"gotIp", "lost"})
    /\ clock \in {"never", "asked", "settling", "trusted"}
    /\ {sawWifi, gotIp, lost, session, subscribed, forced, scanned, stored,
        healthy, stale, announced} \subseteq BOOLEAN
    /\ joinAge \in Idle..AssociationTimeout

ConnectivityInit ==
    /\ SmokeInit
    /\ phase = "sample" /\ sawWifi = FALSE
    /\ radio = "idle" /\ undelivered = <<>>
    /\ gotIp = FALSE /\ lost = FALSE
    /\ clock = "never"
    /\ session = FALSE /\ subscribed = FALSE /\ forced = FALSE
    /\ scanned = FALSE /\ healthy = FALSE    \* stored is the image's
    /\ joinAge = Idle /\ stale = FALSE /\ announced = FALSE

----------------------------------------------------------------------------
(* The driver, the network and time servers.                               *)

(* An association completes and gets its address.  It takes longer than a  *)
(* pass that blocks nowhere, as every pass does that awaits a disconnect.  *)
Associates ==
    /\ radio = "joining" /\ ~sm.awaiting
    /\ Len(undelivered) < MaxUndelivered
    /\ stored
    /\ radio' = "up"
    /\ undelivered' = Append(undelivered, "gotIp")
    /\ UNCHANGED <<smokeVars, stored, clock, healthy, loopVars, historyVars>>

(* An association fails, or the link is lost; a leave takes effect.        *)
LinkEnds ==
    /\ \/ radio \in {"joining", "up"} /\ ~healthy
       \/ radio = "joining" /\ ~stored
       \/ radio = "leaving"
    /\ Len(undelivered) < MaxUndelivered
    /\ radio' = "idle"
    /\ undelivered' = Append(undelivered, "lost")
    /\ stale' = FALSE
    /\ UNCHANGED <<smokeVars, stored, clock, healthy, loopVars, joinAge, announced>>

(* onWifiEvent() runs on the driver's task and only sets a flag.           *)
OnWifiEvent ==
    /\ undelivered # <<>>
    /\ undelivered' = Tail(undelivered)
    /\ gotIp' = (gotIp \/ Head(undelivered) = "gotIp")
    /\ lost' = (lost \/ Head(undelivered) = "lost")
    /\ UNCHANGED <<smokeVars, radio, stored, clock, healthy, phase, sawWifi, session,
                   subscribed, forced, scanned, historyVars>>

(* An SNTP answer, or the resynchronisation of a client that polls on:     *)
(* synchronizationCompleted().  On a healthy network the latter comes long *)
(* after the session was built.                                            *)
TimeSynchronized ==
    /\ clock \in {"asked", "settling", "trusted"}
    /\ radio = "up"
    /\ ~healthy \/ (session /\ sm.state = "online")
    /\ clock' = "settling"
    /\ UNCHANGED <<smokeVars, radio, undelivered, stored, healthy, loopVars, historyVars>>

SessionDrops ==
    /\ session /\ ~healthy
    /\ session' = FALSE
    /\ UNCHANGED <<smokeVars, envVars, phase, sawWifi, gotIp, lost, subscribed,
                   forced, scanned, historyVars>>

NetworkHeals ==
    /\ ~healthy
    /\ healthy' = TRUE
    /\ UNCHANGED <<smokeVars, radio, undelivered, stored, clock, loopVars, historyVars>>
----------------------------------------------------------------------------
(* loop(): the head of a pass reads WiFi.status() and tears down a session *)
(* that has lost its link, its clock or its socket.                        *)
Sample ==
    /\ phase = "sample" /\ phase' = "gotIp"
    /\ sawWifi' = Status
    /\ session' = (session /\ Status /\ HasValidTime)
    /\ subscribed' = (subscribed /\ session')
    /\ joinAge' = IF Status THEN Idle ELSE joinAge
    /\ UNCHANGED <<smokeVars, envVars, gotIp, lost, forced, scanned, stale, announced>>

(* drainWifiEventSignals(): the two flags, in this order.                  *)
DrainGotIp ==
    /\ phase = "gotIp" /\ phase' = "lost"
    /\ gotIp' = FALSE
    /\ sm' = IF gotIp THEN AssociationSucceeded(sm) ELSE sm
    /\ joinAge' = IF gotIp THEN Idle ELSE joinAge
    /\ UNCHANGED <<todo, envVars, sawWifi, lost, session, subscribed, forced,
                   scanned, stale, announced>>

(* The second flag, and update().                                          *)
DrainLostAndUpdate ==
    /\ phase = "lost"
    /\ lost' = FALSE
    /\ joinAge' = IF lost THEN Idle ELSE joinAge
    /\ Update(IF lost THEN AssociationFailed(sm) ELSE sm, sawWifi, HasValidTime, session)
    /\ phase' = IF todo' = "None" THEN "report" ELSE "act"
    /\ sawWifi' = FALSE    \* a local that is not read again
    /\ UNCHANGED <<envVars, gotIp, session, subscribed, forced,
                   scanned, stale, announced>>

Performs(action) ==
    /\ phase = "act" /\ todo = action
    /\ todo' = "None"
    /\ phase' = "report"

(* Mutant of BeginAssociation: the timeout is not armed again when the     *)
(* scan is over.                                                           *)
BeginWithoutRearming ==
    /\ sm' = IF scanned THEN sm ELSE Elapsed(sm, ScanTime)
    /\ radio' = "joining"
    /\ joinAge' = 0

(* What is left of the handler once the scan, if one was due, is over:     *)
(* wifiAssociationStarted(), WiFi.begin().                                 *)
BeginAssociation ==
    /\ sm' = AssociationStarted(IF scanned THEN sm ELSE Elapsed(sm, ScanTime))
    /\ radio' = "joining"
    /\ joinAge' = 0

(* case ConnectWifi.  begin() stores the credentials and starts the        *)
(* driver's association anew, whatever it was doing.                       *)
ConnectWifi ==
    /\ Performs("ConnectWifi")
    /\ BeginAssociation
    /\ undelivered' = IF radio = "up" THEN Append(undelivered, "lost") ELSE undelivered
    /\ scanned' = TRUE /\ stored' = TRUE
    /\ UNCHANGED <<clock, healthy, sawWifi, gotIp, lost, session,
                   subscribed, forced, stale, announced>>

(* case ResolveDns: a lookup needs a link, and a healthy network answers.  *)
ResolveDns ==
    /\ Performs("ResolveDns")
    /\ \E ok \in BOOLEAN :
         /\ ok => Status
         /\ (healthy /\ radio = "up") => ok
         /\ sm' = DnsResult(sm, ok)
    /\ UNCHANGED <<envVars, sawWifi, gotIp, lost, session, subscribed, forced,
                   scanned, historyVars>>

(* case ConfigureTime: synchronizationStarted(), configTime()              *)
ConfigureTime ==
    /\ Performs("ConfigureTime")
    /\ clock' = "asked"
    /\ UNCHANGED <<sm, radio, undelivered, stored, healthy, sawWifi, gotIp, lost,
                   session, subscribed, forced, scanned, historyVars>>

(* case ConnectMqtt, where the lookup before the connection fails.         *)
PreflightFails ==
    /\ Performs("ConnectMqtt")
    /\ ~(healthy /\ radio = "up")
    /\ sm' = NetworkPreflightFailed(sm)
    /\ UNCHANGED <<envVars, sawWifi, gotIp, lost, session, subscribed, forced,
                   scanned, historyVars>>

(* connect() refuses, or connects and subscribe() fails: nothing is left   *)
(* of the session.                                                         *)
ConnectMqttFails ==
    /\ Performs("ConnectMqtt")
    /\ ~(healthy /\ radio = "up" /\ HasValidTime)
    /\ sm' = MqttResult(sm, FALSE)
    /\ session' = FALSE /\ subscribed' = FALSE
    /\ UNCHANGED <<envVars, sawWifi, gotIp, lost, forced, scanned, historyVars>>

ConnectMqttSucceeds ==
    /\ Performs("ConnectMqtt")
    /\ Status /\ HasValidTime
    /\ sm' = MqttResult(sm, TRUE)
    /\ session' = TRUE /\ subscribed' = TRUE
    /\ forced' = TRUE    \* forceNextPublish()
    /\ announced' = FALSE
    /\ UNCHANGED <<envVars, sawWifi, gotIp, lost, scanned, joinAge, stale>>

(* WiFi.disconnect(false, false) takes effect later, or ends an            *)
(* association that was under way.                                         *)
Leave ==
    /\ radio' = IF radio = "up" THEN "leaving" ELSE "idle"
    /\ undelivered' =
           IF radio = "joining" THEN Append(undelivered, "lost") ELSE undelivered
    /\ stale' = (radio = "up")

(* case RecoverWifi                                                        *)
RecoverWifi ==
    /\ Performs("RecoverWifi")
    /\ session' = FALSE /\ subscribed' = FALSE
    /\ Leave
    /\ UNCHANGED <<sm, stored, clock, healthy, sawWifi, gotIp, lost,
                   forced, scanned, joinAge, announced>>

(* The same case of dev_ring_simulator_main.cpp, which leaves "subscribed" *)
(* to the head of the next pass.                                           *)
RecoverWifiOnly ==
    /\ Performs("RecoverWifi")
    /\ session' = FALSE
    /\ Leave
    /\ UNCHANGED <<sm, stored, clock, healthy, sawWifi, gotIp, lost,
                   subscribed, forced, scanned, joinAge, announced>>

----------------------------------------------------------------------------
(* Mutant of ReportDue: isDue(), which uses the forced report up, is asked *)
(* before the link and the clock.                                          *)
ReportDueFirst == forced

(* publishHealth() asks isDue() last.                                      *)
ReportDue == subscribed /\ Status /\ HasValidTime /\ session /\ forced

(* publishHealth(): a report the transport refuses costs the session.      *)
PublishHealth ==
    /\ forced' = (forced /\ ~ReportDue)
    /\ \/ ~ReportDue /\ UNCHANGED <<session, announced>>
       \/ ReportDue /\ announced' = (announced \/ (session /\ Status /\ HasValidTime))
          /\ UNCHANGED session
       \/ ReportDue /\ ~healthy /\ session' = FALSE /\ UNCHANGED announced

(* Time passes.  A healthy network completes an association within a unit, *)
(* its server answers within one, and an answer has settled in the next.   *)
PassTime(d) ==
    /\ ~(healthy /\ stored /\ radio = "joining" /\ ~sm.awaiting)
    /\ sm' = Elapsed(sm, d)
    /\ joinAge' = IF joinAge = Idle THEN Idle
                  ELSE IF joinAge + d < AssociationTimeout THEN joinAge + d
                  ELSE AssociationTimeout
    /\ clock' = CASE clock = "settling" -> "trusted"
                  [] clock = "asked" /\ healthy /\ radio = "up" -> "settling"
                  [] OTHER -> clock

(* The tail of a pass that takes d units.                                  *)
Report(d) ==
    /\ phase = "report" /\ phase' = "sample"
    /\ PublishHealth
    /\ PassTime(d)
    /\ UNCHANGED <<todo, radio, undelivered, stored, healthy, sawWifi, gotIp,
                   lost, subscribed, scanned, stale>>
=============================================================================
