------------------------------ MODULE DevImages ------------------------------
(***************************************************************************)
(* The DEV images on their network: the loop of SmokeConnectivity as       *)
(* mqtt_smoke_main.cpp and dev_ring_simulator_main.cpp run it, and as      *)
(* ble_mqtt_main.cpp runs it, where BLE onboarding owns the Wi-Fi until    *)
(* BleMqttHandoffGate (src/src/dev/ble_mqtt_handoff.h) hands it over.      *)
(* The isolated image of ble_provisioning_main.cpp has the onboarding and  *)
(* no connectivity: its pass is one look at the window.                    *)
(***************************************************************************)
EXTENDS SmokeConnectivity, BleOnboarding

CONSTANT Images   \* the images considered

ASSUME ImagesAssumption == Images \subseteq {"mqtt", "ring", "ble", "isolated"}

VARIABLES
    image,        \* the image that was flashed
    bleOwnsWifi,  \* bleOwnsWifi_
    windowSeen    \* this pass has updated the onboarding window

imageVars == <<image, bleOwnsWifi, windowSeen>>
vars == <<connectivityVars, bleVars, imageVars>>

TypeOK ==
    /\ ConnectivityTypeOK /\ BleTypeOK
    /\ image \in Images
    /\ bleOwnsWifi \in BOOLEAN /\ windowSeen \in BOOLEAN

(* setup(): BLE owns the Wi-Fi unless its start is refused.                *)
SetupBle == BleInit /\ bleOwnsWifi = (manager = "starting") /\ stored \in BOOLEAN

(* setup() of the isolated image: nobody else wants the Wi-Fi.             *)
SetupIsolated == BleInit /\ bleOwnsWifi = FALSE /\ stored \in BOOLEAN

Init ==
    /\ ConnectivityInit
    /\ image \in Images
    /\ windowSeen = FALSE
    /\ CASE image = "ble" -> SetupBle
         [] image = "isolated" -> SetupIsolated
         [] OTHER -> NoBleInit /\ bleOwnsWifi = FALSE /\ stored = FALSE

----------------------------------------------------------------------------
(* onSystemEvent(): what the manager does, with what it does to the radio. *)
ProvisioningStarts ==
    /\ ~stored
    /\ ProvStart
    /\ UNCHANGED <<connectivityVars, imageVars>>

(* Stored credentials: the manager connects and is gone, with a PROV_END   *)
(* or without one.                                                         *)
ReconnectsDirectly ==
    /\ stored /\ manager = "starting" /\ radio = "idle"
    /\ radio' = "joining"
    /\ manager' = "off"
    /\ \/ Close /\ bleOwnsWifi' = FALSE
       \/ UNCHANGED <<awaitingIn, windowIn, tooLate, bleOwnsWifi>>
    /\ UNCHANGED <<smokeVars, undelivered, stored, clock, healthy, loopVars, historyVars, image,
                   windowSeen>>

(* The manager stores what it was given, right or wrong, and connects.     *)
ReceivesCredentials ==
    /\ CredRecv
    /\ radio \in {"idle", "joining"}
    /\ radio' = "joining"
    /\ stored' \in BOOLEAN
    /\ UNCHANGED <<smokeVars, undelivered, clock, healthy, loopVars, historyVars, imageVars>>

RadioAssociates ==
    /\ Associates
    /\ IF manager = "joining" THEN CredSuccess ELSE UNCHANGED bleVars
    /\ UNCHANGED imageVars

RadioLinkEnds ==
    /\ LinkEnds
    /\ IF manager = "joining" THEN CredFail ELSE UNCHANGED bleVars
    /\ UNCHANGED imageVars

(* PROV_CRED_FAIL, where the reset of the manager fails, which is only     *)
(* logged: it goes on trying the same credentials.                         *)
ManagerRetries ==
    /\ manager = "joining" /\ radio = "joining"
    /\ ~healthy \/ ~stored
    /\ Len(undelivered) < MaxUndelivered
    /\ undelivered' = Append(undelivered, "lost")
    /\ UNCHANGED <<smokeVars, radio, stored, clock, healthy, loopVars, historyVars, bleVars,
                   imageVars>>

ProvisioningEnds ==
    /\ ProvEnd
    /\ bleOwnsWifi' = FALSE
    /\ UNCHANGED <<connectivityVars, image, windowSeen>>

FlagsWifiEvent ==
    /\ image # "isolated"
    /\ OnWifiEvent
    /\ UNCHANGED <<bleVars, imageVars>>

(* The handler of the isolated image has no case for the events of Wi-Fi.  *)
IgnoresWifiEvent ==
    /\ image = "isolated" /\ undelivered # <<>>
    /\ undelivered' = Tail(undelivered)
    /\ UNCHANGED <<smokeVars, radio, stored, clock, healthy, loopVars, historyVars, bleVars,
                   imageVars>>

Environment ==
    \/ ProvisioningStarts \/ ReconnectsDirectly \/ ReceivesCredentials
    \/ RadioAssociates \/ RadioLinkEnds \/ ManagerRetries \/ ProvisioningEnds
    \/ FlagsWifiEvent \/ IgnoresWifiEvent
    \/ /\ TimeSynchronized \/ SessionDrops \/ NetworkHeals
       /\ UNCHANGED <<bleVars, imageVars>>

----------------------------------------------------------------------------
(* The onboarding window, at the head of a pass of ble_mqtt_main.cpp.      *)
WindowSeen ==
    /\ image = "ble" /\ phase = "sample" /\ ~windowSeen
    /\ windowSeen' = TRUE
    /\ UNCHANGED <<connectivityVars, image>>

(* Mutant of PassesWindowOver: the handover waits for PROV_END.            *)
WaitsForProvEnd ==
    /\ WindowSeen
    /\ StartNotConfirmed /\ UNCHANGED <<manager, bleOwnsWifi>>

(* StartNotConfirmed: the Wi-Fi is handed over, advertising is not stopped.*)
PassesWindowOver ==
    /\ WindowSeen
    /\ \/ StartNotConfirmed /\ UNCHANGED manager
       \/ /\ StartConfirmedTooLate /\ ~stored
          /\ manager' = "waiting"
    /\ bleOwnsWifi' = FALSE

StopsWindow ==
    /\ WindowSeen
    /\ WindowTimedOut /\ StopAdvertising
    /\ bleOwnsWifi' = FALSE

UpdateWindow ==
    \/ WindowSeen /\ NothingDue /\ UNCHANGED bleOwnsWifi
    \/ PassesWindowOver
    \/ StopsWindow

(* case ConnectWifi of ble_mqtt_main.cpp: deferred while BLE owns the      *)
(* Wi-Fi, and else begin() with what the driver has stored.                *)
DefersConnectWifi ==
    /\ image = "ble" /\ bleOwnsWifi
    /\ Performs("ConnectWifi")
    /\ UNCHANGED <<sm, envVars, sawWifi, gotIp, lost, session, subscribed,
                   forced, scanned, historyVars>>

BeginsStored ==
    /\ image = "ble" /\ ~bleOwnsWifi
    /\ Performs("ConnectWifi")
    /\ sm' = AssociationStarted(sm)
    /\ radio' = "joining" /\ joinAge' = 0
    /\ undelivered' = IF radio = "up" THEN Append(undelivered, "lost") ELSE undelivered
    /\ UNCHANGED <<stored, clock, healthy, sawWifi, gotIp, lost, session,
                   subscribed, forced, scanned, stale, announced>>

(* Time passes for the window too.                                         *)
TimeLeftOf(x, d) == IF x > d THEN x - d ELSE IF x = Unarmed THEN Unarmed ELSE 0

ReportPass ==
    \E d \in 1..LongestPass :
        /\ Report(d)
        /\ awaitingIn' = TimeLeftOf(awaitingIn, d)
        /\ windowIn' = TimeLeftOf(windowIn, d)
        /\ UNCHANGED <<manager, tooLate, imageVars>>

(* The steps of a pass that the images share.                              *)
SharedSteps ==
    \/ DrainGotIp \/ DrainLostAndUpdate
    \/ ResolveDns \/ ConfigureTime
    \/ PreflightFails \/ ConnectMqttFails \/ ConnectMqttSucceeds

(* loop() of mqtt_smoke_main.cpp                                           *)
MqttSmokeLoop ==
    /\ image = "mqtt"
    /\ Sample \/ SharedSteps \/ ConnectWifi \/ RecoverWifi
    /\ UNCHANGED <<bleVars, imageVars>>

(* loop() of dev_ring_simulator_main.cpp, as far as its connectivity goes: *)
(* a recovery leaves "subscribed" to the head of the next pass.            *)
RingSimulatorLoop ==
    /\ image = "ring"
    /\ Sample \/ SharedSteps \/ ConnectWifi \/ RecoverWifiOnly
    /\ UNCHANGED <<bleVars, imageVars>>

(* loop() of ble_mqtt_main.cpp                                             *)
BleMqttLoop ==
    /\ image = "ble"
    /\ \/ UpdateWindow
       \/ /\ windowSeen
          /\ Sample /\ windowSeen' = FALSE
          /\ UNCHANGED <<bleVars, image, bleOwnsWifi>>
       \/ /\ SharedSteps \/ DefersConnectWifi \/ BeginsStored
          /\ UNCHANGED <<bleVars, imageVars>>
       \/ /\ RecoverWifi
          /\ IF radio = "joining" /\ manager = "joining" THEN CredFail ELSE UNCHANGED bleVars
          /\ UNCHANGED imageVars

(* loop() of ble_provisioning_main.cpp: whatever update() reports stops    *)
(* the manager, a start confirmed too late with it.                        *)
IsolatedLoop ==
    /\ image = "isolated"
    /\ phase = "sample" /\ phase' = "report"
    /\ \/ NothingDue
       \/ /\ StartNotConfirmed \/ StartConfirmedTooLate \/ WindowTimedOut
          /\ StopAdvertising
    /\ UNCHANGED <<smokeVars, envVars, sawWifi, gotIp, lost, session, subscribed, forced,
                   scanned, historyVars, imageVars>>

Loop == MqttSmokeLoop \/ RingSimulatorLoop \/ BleMqttLoop \/ IsolatedLoop \/ ReportPass

Next == Environment \/ Loop

(* The loop runs for ever, the driver finishes what it was asked to do and *)
(* its task delivers what happened.  Nothing is owed by an ill network, by *)
(* the manager or by who onboards the device.                              *)
Fairness ==
    /\ WF_vars(Loop)
    /\ WF_vars(RadioAssociates) /\ WF_vars(RadioLinkEnds)
    /\ WF_vars(FlagsWifiEvent) /\ WF_vars(IgnoresWifiEvent)

Spec == Init /\ [][Next]_vars /\ Fairness

----------------------------------------------------------------------------
Online == sm.state = "online" /\ session /\ subscribed

(* Whatever happened while the network was ill, once it works and the      *)
(* driver has its credentials the device gets online, again and again: no  *)
(* timer, pending confirmation, recovery, handover or late event leaves    *)
(* the cascade of update() stuck.                                          *)
ReachesOnline ==
    (<>[](healthy /\ (stored \/ image # "ble") /\ image # "isolated")) => []<>Online

(* Onboarding ends whatever the provisioning manager reports or fails to   *)
(* report: the combined image hands the Wi-Fi over to connectivity, the    *)
(* isolated one, which has nothing else to do, goes off the air for good.  *)
OnboardingEnds == <>(~bleOwnsWifi /\ (image = "isolated" => manager = "off"))

OnAir == manager \in {"waiting", "joining", "joined"}

(* The onboarding window is open only while the manager is on the air: no  *)
(* end of onboarding leaves a window behind whose timeout would stop a     *)
(* manager that is no longer there.  The one exception is a start that was *)
(* confirmed in the middle of update() (StartConfirmedTooLate): the        *)
(* isolated image stops its manager all the same and keeps its window.     *)
WindowOnAir == windowIn # Unarmed => OnAir \/ (image = "isolated" /\ tooLate)

(* DNS, time and MQTT are never tried over the association that a recovery *)
(* asked the radio to leave.                                               *)
RecoveryReassociates ==
    stale => todo \notin {"ResolveDns", "ConfigureTime", "ConnectMqtt"}

(* WiFi.begin() is never repeated while an earlier one may still succeed:  *)
(* its time is over, or its outcome or a later event was seen.             *)
NoHastyBegin ==
    [][todo = "ConnectWifi" /\ todo' = "None" => joinAge \in {Idle, AssociationTimeout}]_vars

(* A new session reports health at once: the forced report is kept until   *)
(* it could be sent.                                                       *)
AnnouncedOnReconnect == session => announced \/ forced

(* A recovery of the Wi-Fi happens only after BLE onboarding has concluded *)
(* (the comment of case RecoverWifi in ble_mqtt_main.cpp).                 *)
RecoversAfterOnboarding == todo = "RecoverWifi" => ~bleOwnsWifi
=============================================================================
