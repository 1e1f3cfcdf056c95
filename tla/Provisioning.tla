---------------------------- MODULE Provisioning ----------------------------
(***************************************************************************)
(* Onboarding: ProvisioningManager                                         *)
(* (src/src/provisioning/provisioning_manager.cpp), the fleet provisioning *)
(* it runs (fleet_provisioning.cpp, src/src/storage/credential_store.cpp), *)
(* FactoryResetCoordinator (factory_reset_coordinator.cpp) and the parts of*)
(* src/src/main.cpp that drive them: setup(), updateButton() and           *)
(* updateProvisioning().                                                   *)
(*                                                                         *)
(* Every write to the persistent store is a step of its own, since the     *)
(* device may lose power between any two.  step names what runs next.  The *)
(* app, the radio, the fleet service and the BLE stack are the             *)
(* environment.                                                            *)
(***************************************************************************)
EXTENDS Naturals

CONSTANTS
    Network,       \* Wi-Fi networks an app may send the credentials of
    KeyPair,       \* key pairs the device may generate
    None,          \* an absent value of the persistent store
    Window,        \* kProvisioningWindowMs, in passes of the loop
    MaxCrashes     \* bound on losses of power

ASSUME ProvisioningAssumption ==
    /\ None \notin Network \cup KeyPair
    /\ Window \in Nat \ {0}
    /\ MaxCrashes \in Nat

VARIABLES
    ssid, password,     \* wifi_ssid and wifi_password; a password is named by
                        \* the network it opens
    provisioned,        \* provisioned = "1"
    key, cert,          \* aws_private_key_pem and aws_certificate_pem, named by
                        \* the key pair they belong to
    state,              \* state_
    wasProvisioned,     \* wasAlreadyProvisionedWhenEntered_
    age,                \* time since provisioningStartedAtMs_, up to Window
    pendingEvent,       \* pendingEvent_
    wifiStarted, link,  \* started_ and lastConnected_ of the WifiManager
    advertising,        \* the BLE service advertises
    session,            \* the app has a BLE session
    offered,            \* credentials received over BLE and not polled yet
    fresh,              \* the key pair a fleet provisioning holds in RAM
    step,               \* what the device does next
    crashes             \* losses of power so far

nvsVars == <<ssid, password, provisioned, key, cert>>
managerVars == <<state, wasProvisioned, age, pendingEvent>>
wifiVars == <<wifiStarted, link>>
bleVars == <<advertising, session, offered>>
vars == <<nvsVars, managerVars, wifiVars, bleVars, fresh, step, crashes>>

Active == {"PROVISIONING_AVAILABLE", "BLE_SESSION_ACTIVE", "CONNECTING_WIFI",
           "FLEET_PROVISIONING"}
State == Active \cup {"IDLE", "PROVISIONED", "PROVISIONING_FAILED", "NOT_PROVISIONED"}
Lifecycle == {"PROVISIONING_STARTED", "PROVISIONING_COMPLETED", "PROVISIONING_FAILED"}

TypeOK ==
    /\ {ssid, password, offered} \subseteq Network \cup {None}
    /\ {key, cert, fresh} \subseteq KeyPair \cup {None}
    /\ {provisioned, wasProvisioned, wifiStarted, link, advertising, session} \subseteq BOOLEAN
    /\ state \in State
    /\ age \in 0..Window
    /\ pendingEvent \in Lifecycle \cup {None}
    /\ step \in {"boot", "button", "update", "poll", "save_password", "save_key",
                 "save_cert", "finish", "reset_password", "reset_flag"}
    /\ crashes \in Nat

(* The RAM of a device that starts.                                        *)
Init ==
    /\ ssid = None /\ password = None /\ provisioned = FALSE
    /\ key = None /\ cert = None
    /\ state = "IDLE" /\ wasProvisioned = FALSE /\ age = 0 /\ pendingEvent = None
    /\ wifiStarted = FALSE /\ link = FALSE
    /\ advertising = FALSE /\ session = FALSE /\ offered = None
    /\ fresh = None /\ step = "boot" /\ crashes = 0

StartsOver ==
    /\ state' = "IDLE" /\ wasProvisioned' = FALSE /\ age' = 0 /\ pendingEvent' = None
    /\ wifiStarted' = FALSE /\ link' = FALSE
    /\ advertising' = FALSE /\ session' = FALSE /\ offered' = None
    /\ fresh' = None /\ step' = "boot"

----------------------------------------------------------------------------
(* ProvisioningManager.                                                    *)

(* enterProvisioning(); startAdvertising() may refuse.                     *)
EnterProvisioning ==
    /\ wasProvisioned' = (ssid # None)
    /\ age' = 0
    /\ \/ /\ advertising' = TRUE
          /\ state' = "PROVISIONING_AVAILABLE"
          /\ pendingEvent' = "PROVISIONING_STARTED"
       \/ /\ advertising' = FALSE
          /\ state' = "PROVISIONING_FAILED"
          /\ pendingEvent' = "PROVISIONING_FAILED"
    /\ UNCHANGED <<nvsVars, wifiVars, session, offered, fresh, crashes>>

(* setup(): checkAtBoot().  No hold of the button is long enough to be seen*)
(* in the first pass.                                                      *)
CheckAtBoot ==
    /\ step = "boot"
    /\ step' = "update"
    /\ \/ ssid = None /\ EnterProvisioning
       \/ /\ ssid # None
          /\ UNCHANGED <<nvsVars, managerVars, wifiVars, bleVars, fresh, crashes>>

(* updateButton() without an action, or with a provisioning request while  *)
(* one is going on.  Time passes.                                          *)
NoRequest ==
    /\ step = "button"
    /\ step' = "update"
    /\ age' \in IF age < Window THEN (age + 1)..Window ELSE {age}
    /\ UNCHANGED <<nvsVars, state, wasProvisioned, pendingEvent, wifiVars, bleVars,
                   fresh, crashes>>

RequestProvisioning ==
    /\ step = "button"
    /\ state \notin Active
    /\ step' = "update"
    /\ EnterProvisioning

(* update() with nothing to do.                                            *)
UpdateIdles ==
    /\ step = "update"
    /\ step' = "poll"
    /\ \/ state \notin Active
       \/ /\ age < Window
          /\ \/ state = "PROVISIONING_AVAILABLE" /\ ~session /\ offered = None
             \/ state = "BLE_SESSION_ACTIVE" /\ session /\ offered = None
             \/ state = "CONNECTING_WIFI" /\ ~link
    /\ UNCHANGED <<nvsVars, managerVars, wifiVars, bleVars, fresh, crashes>>

HandleTimeout ==
    /\ step = "update"
    /\ state \in Active /\ age >= Window
    /\ advertising' = FALSE
    /\ pendingEvent' = "PROVISIONING_FAILED"
    /\ state' = IF wasProvisioned THEN "IDLE" ELSE "NOT_PROVISIONED"
    /\ step' = "poll"
    /\ UNCHANGED <<nvsVars, wasProvisioned, age, wifiVars, session, offered, fresh, crashes>>

SessionOpened ==
    /\ step = "update" /\ age < Window
    /\ state = "PROVISIONING_AVAILABLE" /\ session
    /\ state' = "BLE_SESSION_ACTIVE"
    /\ advertising' = FALSE
    /\ step' = "poll"
    /\ UNCHANGED <<nvsVars, wasProvisioned, age, pendingEvent, wifiVars, session, offered,
                   fresh, crashes>>

(* The result of startAdvertising() is ignored here.                       *)
SessionDropped ==
    /\ step = "update" /\ age < Window
    /\ state = "BLE_SESSION_ACTIVE" /\ ~session /\ offered = None
    /\ state' = "PROVISIONING_AVAILABLE"
    /\ advertising' \in BOOLEAN
    /\ step' = "poll"
    /\ UNCHANGED <<nvsVars, wasProvisioned, age, pendingEvent, wifiVars, session, offered,
                   fresh, crashes>>

(* checkForCredentials(): the two halves are stored one after the other.   *)
CredentialsArrive ==
    /\ step = "update" /\ age < Window
    /\ \/ state = "PROVISIONING_AVAILABLE" /\ ~session
       \/ state = "BLE_SESSION_ACTIVE"
    /\ offered # None
    /\ ssid' = offered
    /\ step' = "save_password"
    /\ UNCHANGED <<password, provisioned, key, cert, managerVars, wifiVars, bleVars, fresh,
                   crashes>>

SavePassword ==
    /\ step = "save_password"
    /\ password' = offered
    /\ offered' = None
    /\ advertising' = FALSE
    /\ wifiStarted' = TRUE /\ link' = FALSE
    /\ state' = "CONNECTING_WIFI"
    /\ step' = "poll"
    /\ UNCHANGED <<ssid, provisioned, key, cert, wasProvisioned, age, pendingEvent, session,
                   fresh, crashes>>

(* advanceAfterWifiConnected() with a certificate in store.                *)
AlreadyCertified ==
    /\ step = "update" /\ age < Window
    /\ state = "CONNECTING_WIFI" /\ link
    /\ cert # None
    /\ state' = "PROVISIONED"
    /\ step' = "finish"
    /\ UNCHANGED <<nvsVars, wasProvisioned, age, pendingEvent, wifiVars, bleVars, fresh,
                   crashes>>

(* provision() runs within the pass: a key pair, a certificate for it and  *)
(* the registration.                                                       *)
FleetRegisters ==
    /\ step = "update" /\ age < Window
    /\ state = "CONNECTING_WIFI" /\ link
    /\ cert = None
    /\ fresh' \in KeyPair \ {key}
    /\ state' = "FLEET_PROVISIONING"
    /\ step' = "save_key"
    /\ UNCHANGED <<nvsVars, wasProvisioned, age, pendingEvent, wifiVars, bleVars, crashes>>

(* Mutant of FleetFails: the window begins again with each failure.        *)
FleetFailsAnew ==
    /\ step = "update" /\ age < Window
    /\ state = "CONNECTING_WIFI" /\ link
    /\ cert = None
    /\ state' = "PROVISIONING_AVAILABLE"
    /\ pendingEvent' = "PROVISIONING_FAILED"
    /\ advertising' \in BOOLEAN
    /\ age' = 0
    /\ step' = "poll"
    /\ UNCHANGED <<nvsVars, wasProvisioned, wifiVars, session, offered, fresh, crashes>>

(* Any of the three calls of provision() fails.  finishProvisioning(false) *)
(* compares the time at which the pass began, so the window is still open  *)
(* and advertising is resumed; its result is ignored.                      *)
FleetFails ==
    /\ step = "update" /\ age < Window
    /\ state = "CONNECTING_WIFI" /\ link
    /\ cert = None
    /\ state' = "PROVISIONING_AVAILABLE"
    /\ pendingEvent' = "PROVISIONING_FAILED"
    /\ advertising' \in BOOLEAN
    /\ step' = "poll"
    /\ UNCHANGED <<nvsVars, wasProvisioned, age, wifiVars, session, offered, fresh, crashes>>

(* Mutant of SaveKey: the certificate is stored first, then the key.       *)
SaveKeyLast ==
    /\ \/ /\ step = "save_key"
          /\ cert' = fresh
          /\ step' = "save_key_late"
          /\ UNCHANGED key
       \/ /\ step = "save_key_late"
          /\ key' = fresh
          /\ step' = "save_cert"
          /\ UNCHANGED cert
    /\ UNCHANGED <<ssid, password, provisioned, managerVars, wifiVars, bleVars, fresh,
                   crashes>>

(* The key is stored before the certificate: hasCertificate(), which ends  *)
(* fleet provisioning for good, is the last thing to become true.          *)
SaveKey ==
    /\ step = "save_key"
    /\ key' = fresh
    /\ step' = "save_cert"
    /\ UNCHANGED <<ssid, password, provisioned, cert, managerVars, wifiVars, bleVars, fresh,
                   crashes>>

(* Mutant of SaveCert: nothing is stored.                                  *)
SaveCertForgotten ==
    /\ step = "save_cert"
    /\ fresh' = None
    /\ state' = "PROVISIONED"
    /\ step' = "finish"
    /\ UNCHANGED <<nvsVars, wasProvisioned, age, pendingEvent, wifiVars, bleVars, crashes>>

SaveCert ==
    /\ step = "save_cert"
    /\ cert' = fresh
    /\ fresh' = None
    /\ state' = "PROVISIONED"
    /\ step' = "finish"
    /\ UNCHANGED <<ssid, password, provisioned, key, wasProvisioned, age, pendingEvent,
                   wifiVars, bleVars, crashes>>

(* finishProvisioning(true)                                                *)
Finish ==
    /\ step = "finish"
    /\ provisioned' = TRUE
    /\ pendingEvent' = "PROVISIONING_COMPLETED"
    /\ step' = "poll"
    /\ UNCHANGED <<ssid, password, key, cert, state, wasProvisioned, age, wifiVars, bleVars,
                   fresh, crashes>>

(* Mutant of PollEvent: the event is not cleared.                          *)
PollEventKeeps ==
    /\ step = "poll"
    /\ step' = "button"
    /\ UNCHANGED <<nvsVars, managerVars, wifiVars, bleVars, fresh, crashes>>

(* updateProvisioning(): pollEvent(), and the event goes to the outbox.    *)
PollEvent ==
    /\ step = "poll"
    /\ pendingEvent' = None
    /\ step' = "button"
    /\ UNCHANGED <<nvsVars, state, wasProvisioned, age, wifiVars, bleVars, fresh, crashes>>

----------------------------------------------------------------------------
(* FactoryResetCoordinator::execute() and the restart after it.            *)
ResetSsid ==
    /\ step = "button"
    /\ ssid' = None
    /\ step' = "reset_password"
    /\ UNCHANGED <<password, provisioned, key, cert, managerVars, wifiVars, bleVars, fresh,
                   crashes>>

ResetPassword ==
    /\ step = "reset_password"
    /\ password' = None
    /\ step' = "reset_flag"
    /\ UNCHANGED <<ssid, provisioned, key, cert, managerVars, wifiVars, bleVars, fresh, crashes>>

ResetFlag ==
    /\ step = "reset_flag"
    /\ provisioned' = FALSE
    /\ StartsOver
    /\ UNCHANGED <<ssid, password, key, cert, crashes>>

----------------------------------------------------------------------------
(* The environment.                                                        *)

Crash ==
    /\ crashes < MaxCrashes
    /\ crashes' = crashes + 1
    /\ StartsOver
    /\ UNCHANGED nvsVars

AppConnects ==
    /\ advertising /\ ~session
    /\ session' = TRUE
    /\ UNCHANGED <<nvsVars, managerVars, wifiVars, advertising, offered, fresh, step, crashes>>

AppDisconnects ==
    /\ session
    /\ session' = FALSE
    /\ UNCHANGED <<nvsVars, managerVars, wifiVars, advertising, offered, fresh, step, crashes>>

AppSendsCredentials(n) ==
    /\ session /\ offered = None
    /\ offered' = n
    /\ UNCHANGED <<nvsVars, managerVars, wifiVars, advertising, session, fresh, step, crashes>>

(* The radio joins or loses the network it was last told of.               *)
LinkChanges ==
    /\ wifiStarted
    /\ link' = ~link
    /\ UNCHANGED <<nvsVars, managerVars, wifiStarted, bleVars, fresh, step, crashes>>

DeviceStep ==
    \/ CheckAtBoot \/ NoRequest
    \/ UpdateIdles \/ HandleTimeout \/ SessionOpened \/ SessionDropped
    \/ CredentialsArrive \/ SavePassword
    \/ AlreadyCertified \/ FleetRegisters \/ FleetFails \/ SaveKey \/ SaveCert \/ Finish
    \/ PollEvent \/ ResetPassword \/ ResetFlag

Environment ==
    \/ RequestProvisioning \/ ResetSsid
    \/ Crash \/ AppConnects \/ AppDisconnects \/ LinkChanges
    \/ \E n \in Network : AppSendsCredentials(n)

Next == DeviceStep \/ Environment

Spec == Init /\ [][Next]_vars

(* loop() runs for ever, and each pass takes time.                         *)
FairSpec == Spec /\ WF_vars(DeviceStep)

----------------------------------------------------------------------------
(* Properties.                                                             *)

(* A stored certificate is always the one of the stored key, wherever the  *)
(* power is lost: hasCertificate() alone decides that the device needs no  *)
(* fleet provisioning any more (provisioning_manager.cpp:150).             *)
CertHasItsKey == cert # None => key = cert

(* The provisioned flag, reported in the Shadow, is set on no device       *)
(* without a certificate, and a device that finished onboarding holds      *)
(* everything a reconnect needs.                                           *)
ProvisionedIsComplete ==
    /\ provisioned => cert # None
    /\ state = "PROVISIONED" /\ step \in {"button", "update", "poll"}
          => provisioned /\ cert # None /\ ssid # None /\ password = ssid

(* No lifecycle event replaces another that was not published yet, though  *)
(* pendingEvent_ holds only one and three callers set it.                  *)
EventsNotOverwritten ==
    [][pendingEvent # None => pendingEvent' \in {pendingEvent, None}]_vars

(* An attempt ends: whatever the app, the radio and the fleet service do,  *)
(* the device leaves the onboarding states.                                *)
AttemptEnds == state \in Active ~> state \notin Active

(* "Idle // provisioned and operating normally" (src/src/provisioning/     *)
(* provisioning_manager.h:24): an idle device has been provisioned, and    *)
(* operates its Wi-Fi.                                                     *)
IdleOperatesNormally ==
    state = "IDLE" /\ step # "boot" => provisioned /\ wifiStarted
=============================================================================
