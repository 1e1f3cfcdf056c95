------------------------------ MODULE Firmware ------------------------------
(***************************************************************************)
(* The production firmware's setup() and loop() (src/src/main.cpp), with   *)
(* the identity of the device (device_identity.cpp), the line detector     *)
(* and the intercom state machine, and the updates of OtaJobs.  pc is the  *)
(* place in the loop; a step ends where a write to the persistent store    *)
(* or a call of a service ends, and power may be lost after any of them.   *)
(*                                                                         *)
(* What other modules detail is one choice here: when onboarding completes *)
(* (Provisioning), which of its events the outbox keeps (EventDelivery),   *)
(* when a session and the health report come (ReconnectBackoff).           *)
(***************************************************************************)
EXTENDS OtaJobs, FiniteSets

CONSTANTS
    Ids, Codes,       \* what the random source may give: device ids, setup codes
    OutboxCapacity    \* kDefaultEventOutboxCapacity

ASSUME FirmwareAssumption ==
    /\ None \notin Ids \cup Codes
    /\ OutboxCapacity \in Nat \ {0}

VARIABLES
    storedId, storedCode,    \* device_id and setup_code in the persistent store
    flag,                    \* provisioned: "0", "1" or None
    backlog,                 \* number of events in the outbox
    pc,
    identity,                \* deviceIdentity
    wifi,                    \* WifiManager::begin() was called since boot
    lastLine,                \* lastLineState_, None before the first sample
    intercomState,           \* the StateMachine's state_
    line,                    \* the level of the line, TRUE when off hook
    shadow,                  \* "provisioned" in the reported state of the shadow
    used                     \* the identities the device ever ran under

storeVars == <<storedId, storedCode, flag, backlog>>
ramVars == <<pc, identity, wifi, lastLine, intercomState>>
cloudVars == <<shadow, used>>
vars == <<otaVars, storeVars, ramVars, line, cloudVars>>

TypeOK ==
    /\ OtaTypeOK
    /\ storedId \in Ids \cup {None} /\ storedCode \in Codes \cup {None}
    /\ flag \in {"0", "1", None}
    /\ backlog \in 0..OutboxCapacity
    /\ pc \in {"off", "code", "flag", "button", "reset", "provisioning", "onboarded",
               "network", "jobs", "ota", "intercom"}
    /\ identity \in [deviceId : Ids \cup {None}, setupCode : Codes \cup {None},
                     provisioned : BOOLEAN]
    /\ {wifi, line} \subseteq BOOLEAN
    /\ lastLine \in BOOLEAN \cup {None}
    /\ intercomState \in {"BOOT", "IDLE", "RINGING", "IN_CALL", "ERROR"}
    /\ shadow \in BOOLEAN \cup {None}
    /\ used \subseteq Ids \X Codes

NoIdentity == [deviceId |-> None, setupCode |-> None, provisioned |-> FALSE]

Init ==
    /\ OtaInit
    /\ storedId = None /\ storedCode = None /\ flag = None /\ backlog = 0
    /\ pc = "off" /\ identity = NoIdentity /\ wifi = FALSE
    /\ lastLine = None /\ intercomState = "BOOT"
    /\ line \in BOOLEAN
    /\ shadow = None /\ used = {}

(* publishProtocolEvent(): the outbox drops its oldest event when full.    *)
EventQueued == backlog' = IF backlog < OutboxCapacity THEN backlog + 1 ELSE backlog

(* What a restart leaves: the store, the images and the services.          *)
StartsOver ==
    /\ pc' = "off" /\ identity' = NoIdentity /\ wifi' = FALSE
    /\ lastLine' = None /\ intercomState' = "BOOT"
    /\ otaStep' = "idle" /\ result' = None /\ staged' = None

----------------------------------------------------------------------------
(* setup(): DeviceIdentityProvider::load(), a value of the store kept or   *)
(* one generated and stored.                                               *)

(* Mutant of Loaded: what is stored is not read back.                      *)
LoadedAnew(stored, Choices) == Choices
Loaded(stored, Choices) == IF stored = None THEN Choices ELSE {stored}

(* The bootloader starts the image marked to boot; one that awaits its     *)
(* confirmation may be rolled back instead.                                *)
BootImage ==
    \/ running' = boot /\ UNCHANGED <<boot, trial>>
    \/ trial /\ running' = fallback /\ boot' = fallback /\ trial' = FALSE

LoadId ==
    /\ pc = "off" /\ pc' = "code"
    /\ BootImage
    /\ \E id \in Loaded(storedId, Ids) :
        storedId' = id /\ identity' = [identity EXCEPT !.deviceId = id]
    /\ UNCHANGED <<job, fallback, staged, otaStep, result, storedCode, flag, backlog, wifi,
                   lastLine, intercomState, line, cloudVars>>

LoadCode ==
    /\ pc = "code" /\ pc' = "flag"
    /\ \E code \in Loaded(storedCode, Codes) :
        storedCode' = code /\ identity' = [identity EXCEPT !.setupCode = code]
    /\ UNCHANGED <<otaVars, storedId, flag, backlog, wifi, lastLine, intercomState, line,
                   cloudVars>>

(* The provisioned flag is read once; setup() ends with finishBoot().      *)
LoadFlag ==
    /\ pc = "flag" /\ pc' = "button"
    /\ identity' = [identity EXCEPT !.provisioned = (flag = "1")]
    /\ used' = used \cup {<<identity.deviceId, identity.setupCode>>}
    /\ intercomState' = "IDLE"
    /\ UNCHANGED <<otaVars, storeVars, wifi, lastLine, line, shadow>>

----------------------------------------------------------------------------
(* loop().                                                                 *)

(* updateButton(): a factory reset writes the flag, queues its event and   *)
(* restarts.                                                               *)
NoReset ==
    /\ pc = "button" /\ pc' = "provisioning"
    /\ UNCHANGED <<otaVars, storeVars, identity, wifi, lastLine, intercomState, line,
                   cloudVars>>

FactoryReset ==
    /\ pc = "button" /\ pc' = "reset"
    /\ flag' = "0"
    /\ UNCHANGED <<otaVars, storedId, storedCode, backlog, identity, wifi, lastLine,
                   intercomState, line, cloudVars>>

(* Mutant of Restart: the device runs on.                                  *)
RunsOn ==
    /\ pc' = "provisioning"
    /\ UNCHANGED <<identity, wifi, lastLine, intercomState, otaStep, result, staged>>
Restart == StartsOver

ResetAnnounced ==
    /\ pc = "reset"
    /\ EventQueued    \* FACTORY_RESET_REQUESTED
    /\ Restart
    /\ UNCHANGED <<job, imageVars, storedId, storedCode, flag, line, cloudVars>>

(* updateProvisioning(): what the manager does of it here: it may announce *)
(* its start or failure, join Wi-Fi with new credentials, and then         *)
(* complete, which writes the flag before the event is polled and queued.  *)
ManagerQuiet ==
    /\ pc = "provisioning" /\ pc' = "network"
    /\ wifi' \in {wifi, TRUE}
    /\ UNCHANGED <<otaVars, storeVars, identity, lastLine, intercomState, line, cloudVars>>

ManagerReports ==
    /\ pc = "provisioning" /\ pc' = "network"
    /\ EventQueued    \* PROVISIONING_STARTED or PROVISIONING_FAILED
    /\ UNCHANGED <<otaVars, storedId, storedCode, flag, identity, wifi, lastLine, intercomState,
                   line, cloudVars>>

ManagerCompletes ==
    /\ pc = "provisioning" /\ wifi /\ pc' = "onboarded"
    /\ flag' = "1"
    /\ UNCHANGED <<otaVars, storedId, storedCode, backlog, identity, wifi, lastLine,
                   intercomState, line, cloudVars>>

CompletionReported ==
    /\ pc = "onboarded" /\ pc' = "network"
    /\ EventQueued
    /\ UNCHANGED <<otaVars, storedId, storedCode, flag, identity, wifi, lastLine, intercomState,
                   line, cloudVars>>

(* updateNetwork() without a session: no network, or none to be had now.   *)
PassOffline ==
    /\ pc = "network" /\ pc' = "intercom"
    /\ UNCHANGED <<otaVars, storeVars, identity, wifi, lastLine, intercomState, line,
                   cloudVars>>

(* The walk over pending(): any publish may fail.                          *)
Flushed == backlog' \in 0..backlog

(* updateNetwork() with a session, up to the jobs: the outbox, and when    *)
(* health is due the shadow document with the flag read at boot.           *)
PassOnline ==
    /\ pc = "network" /\ wifi /\ pc' = "jobs"
    /\ Flushed
    /\ shadow' \in {shadow, identity.provisioned}
    /\ UNCHANGED <<otaVars, storedId, storedCode, flag, identity, wifi, lastLine, intercomState,
                   line, used>>

NoJob ==
    /\ pc = "jobs" /\ ~JobPending /\ pc' = "intercom"
    /\ UNCHANGED <<otaVars, storeVars, identity, wifi, lastLine, intercomState, line,
                   cloudVars>>

StartJob ==
    /\ pc = "jobs" /\ ProcessJob /\ pc' = "ota"
    /\ UNCHANGED <<storeVars, identity, wifi, lastLine, intercomState, line, cloudVars>>

JobStep ==
    /\ pc = "ota" /\ OtaSteps
    /\ UNCHANGED <<storeVars, ramVars, line, cloudVars>>

(* installAndReboot() of a real platform.                                  *)
InstallReboots ==
    /\ pc = "ota" /\ otaStep = "install"
    /\ MarkedToBoot /\ StartsOver
    /\ UNCHANGED <<job, storeVars, line, cloudVars>>

OtaEvent ==
    /\ pc = "ota" /\ otaStep = "done" /\ pc' = "intercom"
    /\ EventQueued    \* OTA_COMPLETED or OTA_FAILED
    /\ otaStep' = "idle" /\ result' = None
    /\ UNCHANGED <<job, imageVars, staged, storedId, storedCode, flag, identity, wifi, lastLine,
                   intercomState, line, cloudVars>>

(* StateMachine::handleEvent()                                             *)
HandleEvent(state, event) ==
    CASE state = "IDLE" /\ event = "RING_DETECTED" -> "RINGING"
      [] state = "RINGING" /\ event = "OFF_HOOK"   -> "IN_CALL"
      [] state \in {"RINGING", "IN_CALL"} /\ event = "ON_HOOK" -> "IDLE"
      [] OTHER -> state

(* LineDetector::update(): the first sample only sets the baseline.        *)
Baseline == IF lastLine = None THEN line ELSE lastLine

UpdateIntercom ==
    /\ pc = "intercom" /\ pc' = "button"
    /\ lastLine' = line
    /\ IF line = Baseline
       THEN UNCHANGED <<backlog, intercomState>>
       ELSE /\ EventQueued
            /\ intercomState' = HandleEvent(intercomState, IF line THEN "OFF_HOOK" ELSE "ON_HOOK")
    /\ UNCHANGED <<otaVars, storedId, storedCode, flag, identity, wifi, line, cloudVars>>

Setup == LoadId \/ LoadCode \/ LoadFlag
UpdateButton == NoReset \/ FactoryReset \/ ResetAnnounced
UpdateProvisioning ==
    ManagerQuiet \/ ManagerReports \/ ManagerCompletes \/ CompletionReported
UpdateNetwork ==
    \/ PassOffline \/ PassOnline \/ NoJob \/ StartJob \/ JobStep \/ InstallReboots
    \/ OtaEvent
Program == Setup \/ UpdateButton \/ UpdateProvisioning \/ UpdateNetwork \/ UpdateIntercom

----------------------------------------------------------------------------
(* The environment.                                                        *)

LineMoves ==
    /\ line' = ~line
    /\ UNCHANGED <<otaVars, storeVars, ramVars, cloudVars>>

PowerLoss ==
    /\ StartsOver
    /\ UNCHANGED <<job, imageVars, storeVars, line, cloudVars>>

NewJob ==
    /\ JobIssued
    /\ UNCHANGED <<storeVars, ramVars, line, cloudVars>>

Next == Program \/ LineMoves \/ PowerLoss \/ NewJob

Spec == Init /\ [][Next]_vars

----------------------------------------------------------------------------
(* Properties.                                                             *)

(* The device has one id and one setup code for life, wherever power is    *)
(* lost and whatever is reset (DeviceIdentityProvider::load(),             *)
(* FactoryResetCoordinator::execute()).                                    *)
OneIdentity == Cardinality(used) <= 1

(* The shadow never starts to say that a device is provisioned which has   *)
(* been reset since, though the flag is read once, at boot (main.cpp:368   *)
(* and the restart in updateButton()).                                     *)
ShadowTruthful == [][shadow' # shadow /\ shadow' = TRUE => flag = "1"]_vars

=============================================================================
