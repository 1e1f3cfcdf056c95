---------------------------- MODULE BleOnboarding ----------------------------
(***************************************************************************)
(* BLE onboarding of the DEV images: BleOnboardingWindow                   *)
(* (src/src/provisioning/ble_provisioning.cpp) and the provisioning        *)
(* manager of the SDK that reports to it.  The manager reports on the      *)
(* event task, while the loop updates the window.  The flags that          *)
(* Esp32BleProvisioning keeps of those reports are only ever logged.  The  *)
(* handlers are those of ble_provisioning_main.cpp; ble_mqtt_main.cpp has  *)
(* them with what DevImages adds.                                          *)
(*                                                                         *)
(* Deadlines are kept as in SmokeState: the time left, Unarmed if none.    *)
(***************************************************************************)
EXTENDS Integers

CONSTANTS
    ConfirmTimeout,   \* confirmationTimeoutMs_
    WindowLength      \* windowMs_

ASSUME WindowAssumption == {ConfirmTimeout, WindowLength} \subseteq Nat \ {0}

VARIABLES
    manager,      \* the SDK's manager: off, starting, waiting for credentials,
                  \* joining with them, joined
    awaitingIn,   \* awaitingConfirmation_ and confirmationDeadlineMs_
    windowIn,     \* open_ and windowDeadlineMs_
    tooLate       \* the window is one that update() reported as not confirmed

bleVars == <<manager, awaitingIn, windowIn, tooLate>>

Unarmed == -1

BleTypeOK ==
    /\ manager \in {"off", "starting", "waiting", "joining", "joined"}
    /\ awaitingIn \in Unarmed..ConfirmTimeout
    /\ windowIn \in Unarmed..WindowLength
    /\ tooLate \in BOOLEAN

(* setup(): the confirmation is awaited before the start is requested, and *)
(* the window is closed again when the request is refused.                 *)
BleInit ==
    /\ \/ manager = "starting" /\ awaitingIn = ConfirmTimeout
       \/ manager = "off" /\ awaitingIn = Unarmed
    /\ windowIn = Unarmed /\ tooLate = FALSE

(* An image without BLE.                                                   *)
NoBleInit ==
    /\ manager = "off" /\ awaitingIn = Unarmed /\ windowIn = Unarmed /\ tooLate = FALSE

----------------------------------------------------------------------------
(* confirmStart(): only an attempt that is still awaited opens the window. *)
ConfirmStart ==
    /\ awaitingIn' = Unarmed
    /\ windowIn' = IF awaitingIn = Unarmed THEN windowIn ELSE WindowLength

(* Mutant of Close: open_ is not cleared.                                  *)
CloseKeepsOpen == awaitingIn' = Unarmed /\ UNCHANGED <<windowIn, tooLate>>

(* close()                                                                 *)
Close == awaitingIn' = Unarmed /\ windowIn' = Unarmed /\ tooLate' = FALSE

(* stopAdvertising() deinitialises the manager.                            *)
StopAdvertising == manager' = "off"

----------------------------------------------------------------------------
(* The manager's events.                                                   *)

(* PROV_START: advertising is confirmed, in time or not.                   *)
ProvStart ==
    /\ manager = "starting"
    /\ manager' = "waiting"
    /\ ConfirmStart
    /\ UNCHANGED tooLate

(* PROV_CRED_RECV: the manager applies the credentials itself.             *)
CredRecv ==
    /\ manager = "waiting"
    /\ manager' = "joining"
    /\ UNCHANGED <<awaitingIn, windowIn, tooLate>>

(* PROV_CRED_FAIL: the manager is reset and waits for others.              *)
CredFail ==
    /\ manager = "joining"
    /\ manager' = "waiting"
    /\ UNCHANGED <<awaitingIn, windowIn, tooLate>>

(* PROV_CRED_SUCCESS: the network was joined; the service ends later.      *)
CredSuccess ==
    /\ manager = "joining"
    /\ manager' = "joined"
    /\ UNCHANGED <<awaitingIn, windowIn, tooLate>>

(* PROV_END: the manager is done with the radio.                           *)
ProvEnd ==
    /\ manager \in {"starting", "joined"}
    /\ manager' = "off"
    /\ Close

----------------------------------------------------------------------------
(* update(), by the event it returns.                                      *)
NothingDue ==
    /\ awaitingIn # 0 /\ windowIn # 0
    /\ UNCHANGED bleVars

StartNotConfirmed ==
    /\ awaitingIn = 0
    /\ awaitingIn' = Unarmed
    /\ UNCHANGED <<windowIn, tooLate>>

(* The same, when PROV_START is handled between the test of the deadline   *)
(* and the clearing of the flag: the window it opened stays open.          *)
StartConfirmedTooLate ==
    /\ awaitingIn = 0 /\ manager = "starting"
    /\ awaitingIn' = Unarmed /\ windowIn' = WindowLength /\ tooLate' = TRUE

WindowTimedOut ==
    /\ awaitingIn # 0 /\ windowIn = 0
    /\ windowIn' = Unarmed /\ tooLate' = FALSE
    /\ UNCHANGED awaitingIn
=============================================================================
