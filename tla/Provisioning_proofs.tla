------------------------ MODULE Provisioning_proofs ------------------------
(***************************************************************************)
(* Proofs about Provisioning, for every set of networks and key pairs,     *)
(* every window and any number of losses of power.                         *)
(***************************************************************************)
EXTENDS Provisioning, TLAPS

(* The RAM of a device that starts over, and the effect of                 *)
(* enterProvisioning(), are well typed.                                    *)
LEMMA StartsOverType == TypeOK /\ StartsOver /\ UNCHANGED <<ssid, password, key, cert>>
                        /\ provisioned' \in BOOLEAN /\ crashes' \in Nat => TypeOK'
<1> SUFFICES ASSUME TypeOK, StartsOver, UNCHANGED <<ssid, password, key, cert>>,
                    provisioned' \in BOOLEAN, crashes' \in Nat
             PROVE  TypeOK'
  OBVIOUS
<1>1. {ssid, password, offered}' \subseteq Network \cup {None}
  BY DEF StartsOver, TypeOK
<1>2. {key, cert, fresh}' \subseteq KeyPair \cup {None}
  BY DEF StartsOver, TypeOK
<1>3. {provisioned, wasProvisioned, wifiStarted, link, advertising, session}' \subseteq BOOLEAN
  BY DEF StartsOver
<1>4. state' \in State /\ pendingEvent' \in Lifecycle \cup {None}
  BY DEF StartsOver, State
<1>5. age' \in 0..Window
  BY ProvisioningAssumption DEF StartsOver, ProvisioningAssumption
<1> QED
  BY <1>1, <1>2, <1>3, <1>4, <1>5 DEF StartsOver, TypeOK

LEMMA EnterType ==
    ASSUME TypeOK, EnterProvisioning, step' = "update" PROVE TypeOK'
<1>1. {ssid, password, offered}' \subseteq Network \cup {None}
  BY DEF EnterProvisioning, TypeOK, nvsVars
<1>2. {key, cert, fresh}' \subseteq KeyPair \cup {None}
  BY DEF EnterProvisioning, TypeOK, nvsVars
<1>3. {provisioned, wasProvisioned, wifiStarted, link, advertising, session}' \subseteq BOOLEAN
  BY DEF EnterProvisioning, TypeOK, nvsVars, wifiVars
<1>4. state' \in State /\ pendingEvent' \in Lifecycle \cup {None}
  BY DEF EnterProvisioning, State, Active, Lifecycle
<1>5. age' \in 0..Window
  BY ProvisioningAssumption DEF EnterProvisioning, ProvisioningAssumption
<1> QED
  BY <1>1, <1>2, <1>3, <1>4, <1>5 DEF EnterProvisioning, TypeOK

(* Every step keeps the variables of Provisioning in their types.          *)
LEMMA TypeStep == TypeOK /\ [Next]_vars => TypeOK'
<1> SUFFICES ASSUME TypeOK, [Next]_vars PROVE TypeOK'
  OBVIOUS
<1>1. CASE CheckAtBoot
  <2>1. CASE EnterProvisioning
    BY <1>1, <2>1, EnterType DEF CheckAtBoot
  <2>2. CASE UNCHANGED <<nvsVars, managerVars, wifiVars, bleVars, fresh, crashes>>
    BY <1>1, <2>2 DEF CheckAtBoot, TypeOK, nvsVars, managerVars, wifiVars, bleVars
  <2> QED
    BY <1>1, <2>1, <2>2 DEF CheckAtBoot
<1>2. CASE NoRequest
  BY <1>2, ProvisioningAssumption DEF ProvisioningAssumption, NoRequest, TypeOK, Active,
     State, Lifecycle, nvsVars, managerVars, wifiVars, bleVars
<1>3. CASE RequestProvisioning
  BY <1>3, EnterType DEF RequestProvisioning
<1>4. CASE UpdateIdles
  BY <1>4, ProvisioningAssumption DEF ProvisioningAssumption, UpdateIdles, TypeOK, Active,
     State, Lifecycle, nvsVars, managerVars, wifiVars, bleVars
<1>5. CASE HandleTimeout
  BY <1>5, ProvisioningAssumption DEF ProvisioningAssumption, HandleTimeout, TypeOK, Active,
     State, Lifecycle, nvsVars, managerVars, wifiVars, bleVars
<1>6. CASE SessionOpened
  BY <1>6, ProvisioningAssumption DEF ProvisioningAssumption, SessionOpened, TypeOK, Active,
     State, Lifecycle, nvsVars, managerVars, wifiVars, bleVars
<1>7. CASE SessionDropped
  BY <1>7, ProvisioningAssumption DEF ProvisioningAssumption, SessionDropped, TypeOK,
     Active, State, Lifecycle, nvsVars, managerVars, wifiVars, bleVars
<1>8. CASE CredentialsArrive
  BY <1>8, ProvisioningAssumption DEF ProvisioningAssumption, CredentialsArrive, TypeOK,
     Active, State, Lifecycle, nvsVars, managerVars, wifiVars, bleVars
<1>9. CASE SavePassword
  BY <1>9, ProvisioningAssumption DEF ProvisioningAssumption, SavePassword, TypeOK, Active,
     State, Lifecycle, nvsVars, managerVars, wifiVars, bleVars
<1>10. CASE AlreadyCertified
  BY <1>10, ProvisioningAssumption DEF ProvisioningAssumption, AlreadyCertified, TypeOK,
     Active, State, Lifecycle, nvsVars, managerVars, wifiVars, bleVars
<1>11. CASE FleetRegisters
  BY <1>11, ProvisioningAssumption DEF ProvisioningAssumption, FleetRegisters, TypeOK,
     Active, State, Lifecycle, nvsVars, managerVars, wifiVars, bleVars
<1>12. CASE FleetFails
  BY <1>12, ProvisioningAssumption DEF ProvisioningAssumption, FleetFails, TypeOK, Active,
     State, Lifecycle, nvsVars, managerVars, wifiVars, bleVars
<1>13. CASE SaveKey
  BY <1>13, ProvisioningAssumption DEF ProvisioningAssumption, SaveKey, TypeOK, Active,
     State, Lifecycle, nvsVars, managerVars, wifiVars, bleVars
<1>14. CASE SaveCert
  BY <1>14, ProvisioningAssumption DEF ProvisioningAssumption, SaveCert, TypeOK, Active,
     State, Lifecycle, nvsVars, managerVars, wifiVars, bleVars
<1>15. CASE Finish
  BY <1>15, ProvisioningAssumption DEF ProvisioningAssumption, Finish, TypeOK, Active,
     State, Lifecycle, nvsVars, managerVars, wifiVars, bleVars
<1>16. CASE PollEvent
  BY <1>16, ProvisioningAssumption DEF ProvisioningAssumption, PollEvent, TypeOK, Active,
     State, Lifecycle, nvsVars, managerVars, wifiVars, bleVars
<1>17. CASE ResetSsid
  BY <1>17, ProvisioningAssumption DEF ProvisioningAssumption, ResetSsid, TypeOK, Active,
     State, Lifecycle, nvsVars, managerVars, wifiVars, bleVars
<1>18. CASE ResetPassword
  BY <1>18, ProvisioningAssumption DEF ProvisioningAssumption, ResetPassword, TypeOK,
     Active, State, Lifecycle, nvsVars, managerVars, wifiVars, bleVars
<1>19. CASE ResetFlag
  BY <1>19, StartsOverType DEF ResetFlag, TypeOK
<1>20. CASE Crash
  BY <1>20, StartsOverType DEF Crash, TypeOK, nvsVars
<1>21. CASE AppConnects
  BY <1>21, ProvisioningAssumption DEF ProvisioningAssumption, AppConnects, TypeOK, Active,
     State, Lifecycle, nvsVars, managerVars, wifiVars, bleVars
<1>22. CASE AppDisconnects
  BY <1>22, ProvisioningAssumption DEF ProvisioningAssumption, AppDisconnects, TypeOK,
     Active, State, Lifecycle, nvsVars, managerVars, wifiVars, bleVars
<1>23. CASE LinkChanges
  BY <1>23, ProvisioningAssumption DEF ProvisioningAssumption, LinkChanges, TypeOK, Active,
     State, Lifecycle, nvsVars, managerVars, wifiVars, bleVars
<1>24. CASE \E n \in Network : AppSendsCredentials(n)
  BY <1>24, ProvisioningAssumption DEF ProvisioningAssumption, AppSendsCredentials, TypeOK,
     Active, State, Lifecycle, nvsVars, managerVars, wifiVars, bleVars
<1>25. CASE UNCHANGED vars
  BY <1>25 DEF vars, TypeOK, Active, State, Lifecycle, nvsVars, managerVars, wifiVars, bleVars
<1>q. QED
  BY <1>1, <1>2, <1>3, <1>4, <1>5, <1>6, <1>7, <1>8, <1>9, <1>10, <1>11, <1>12, <1>13,
     <1>14, <1>15, <1>16, <1>17, <1>18, <1>19, <1>20, <1>21, <1>22, <1>23, <1>24, <1>25 DEF
     Next, DeviceStep, Environment

(* The state of the manager, the radio and the store stay within their     *)
(* types.                                                                  *)
THEOREM TypeCorrect == Spec => []TypeOK
<1>1. Init => TypeOK
  <2> SUFFICES ASSUME Init PROVE TypeOK
    OBVIOUS
  <2>1. {provisioned, wasProvisioned, wifiStarted, link, advertising, session} \subseteq BOOLEAN
    BY DEF Init
  <2>2. age \in 0..Window
    BY ProvisioningAssumption DEF Init, ProvisioningAssumption
  <2>3. state \in State /\ pendingEvent \in Lifecycle \cup {None}
    BY DEF Init, State
  <2> QED
    BY <2>1, <2>2, <2>3 DEF Init, TypeOK
<1> QED
  BY <1>1, TypeStep, PTL DEF Spec

----------------------------------------------------------------------------
(* Where the multi-step operations have got to, which is what makes        *)
(* CertHasItsKey and ProvisionedIsComplete inductive: during a fleet       *)
(* provisioning there is no certificate yet, and the key it stored is the  *)
(* one it holds; from CONNECTING_WIFI on both halves of the credentials are*)
(* in store until a factory reset begins.                                  *)
Progress ==
    /\ step = "boot" => state = "IDLE"
    /\ step = "save_password" =>
          /\ offered # None /\ ssid = offered
          /\ state \in {"PROVISIONING_AVAILABLE", "BLE_SESSION_ACTIVE"}
    /\ step \in {"save_key", "save_cert"} =>
          state = "FLEET_PROVISIONING" /\ cert = None /\ fresh # None
    /\ step = "save_cert" => key = fresh
    /\ step = "finish" => state = "PROVISIONED" /\ cert # None
    /\ provisioned => cert # None

Stored ==
    /\ state \in {"CONNECTING_WIFI", "FLEET_PROVISIONING", "PROVISIONED"}
       /\ step \notin {"reset_password", "reset_flag"} => ssid # None /\ password = ssid
    /\ state = "PROVISIONED" /\ step # "finish" /\ step \notin {"reset_flag", "reset_password"}
          => provisioned

Complete == CertHasItsKey /\ Progress /\ Stored

(* Every step preserves the strengthened invariant.                        *)
LEMMA CompleteStep == TypeOK /\ Complete /\ [Next]_vars => Complete'
<1> SUFFICES ASSUME TypeOK, Complete, [Next]_vars PROVE Complete'
  OBVIOUS
<1> USE DEF CertHasItsKey, Progress, Stored
<1>1. CASE CheckAtBoot
  BY <1>1, ProvisioningAssumption DEF ProvisioningAssumption, CheckAtBoot,
     EnterProvisioning, TypeOK, Complete, Active, nvsVars, managerVars, wifiVars, bleVars
<1>2. CASE NoRequest
  BY <1>2, ProvisioningAssumption DEF ProvisioningAssumption, NoRequest, TypeOK, Complete,
     Active, nvsVars, managerVars, wifiVars, bleVars
<1>3. CASE RequestProvisioning
  BY <1>3, ProvisioningAssumption DEF ProvisioningAssumption, RequestProvisioning,
     EnterProvisioning, TypeOK, Complete, Active, nvsVars, managerVars, wifiVars, bleVars
<1>4. CASE UpdateIdles
  BY <1>4, ProvisioningAssumption DEF ProvisioningAssumption, UpdateIdles, TypeOK, Complete,
     Active, nvsVars, managerVars, wifiVars, bleVars
<1>5. CASE HandleTimeout
  BY <1>5, ProvisioningAssumption DEF ProvisioningAssumption, HandleTimeout, TypeOK,
     Complete, Active, nvsVars, managerVars, wifiVars, bleVars
<1>6. CASE SessionOpened
  BY <1>6, ProvisioningAssumption DEF ProvisioningAssumption, SessionOpened, TypeOK,
     Complete, Active, nvsVars, managerVars, wifiVars, bleVars
<1>7. CASE SessionDropped
  BY <1>7, ProvisioningAssumption DEF ProvisioningAssumption, SessionDropped, TypeOK,
     Complete, Active, nvsVars, managerVars, wifiVars, bleVars
<1>8. CASE CredentialsArrive
  BY <1>8, ProvisioningAssumption DEF ProvisioningAssumption, CredentialsArrive, TypeOK,
     Complete, Active, nvsVars, managerVars, wifiVars, bleVars
<1>9. CASE SavePassword
  BY <1>9, ProvisioningAssumption DEF ProvisioningAssumption, SavePassword, TypeOK,
     Complete, Active, nvsVars, managerVars, wifiVars, bleVars
<1>10. CASE AlreadyCertified
  BY <1>10, ProvisioningAssumption DEF ProvisioningAssumption, AlreadyCertified, TypeOK,
     Complete, Active, nvsVars, managerVars, wifiVars, bleVars
<1>11. CASE FleetRegisters
  BY <1>11, ProvisioningAssumption DEF ProvisioningAssumption, FleetRegisters, TypeOK,
     Complete, Active, nvsVars, managerVars, wifiVars, bleVars
<1>12. CASE FleetFails
  BY <1>12, ProvisioningAssumption DEF ProvisioningAssumption, FleetFails, TypeOK, Complete,
     Active, nvsVars, managerVars, wifiVars, bleVars
<1>13. CASE SaveKey
  BY <1>13, ProvisioningAssumption DEF ProvisioningAssumption, SaveKey, TypeOK, Complete,
     Active, nvsVars, managerVars, wifiVars, bleVars
<1>14. CASE SaveCert
  BY <1>14, ProvisioningAssumption DEF ProvisioningAssumption, SaveCert, TypeOK, Complete,
     Active, nvsVars, managerVars, wifiVars, bleVars
<1>15. CASE Finish
  BY <1>15, ProvisioningAssumption DEF ProvisioningAssumption, Finish, TypeOK, Complete,
     Active, nvsVars, managerVars, wifiVars, bleVars
<1>16. CASE PollEvent
  BY <1>16, ProvisioningAssumption DEF ProvisioningAssumption, PollEvent, TypeOK, Complete,
     Active, nvsVars, managerVars, wifiVars, bleVars
<1>17. CASE ResetSsid
  BY <1>17, ProvisioningAssumption DEF ProvisioningAssumption, ResetSsid, TypeOK, Complete,
     Active, nvsVars, managerVars, wifiVars, bleVars
<1>18. CASE ResetPassword
  BY <1>18, ProvisioningAssumption DEF ProvisioningAssumption, ResetPassword, TypeOK,
     Complete, Active, nvsVars, managerVars, wifiVars, bleVars
<1>19. CASE ResetFlag
  BY <1>19, ProvisioningAssumption DEF ProvisioningAssumption, ResetFlag, StartsOver,
     TypeOK, Complete, Active, nvsVars, managerVars, wifiVars, bleVars
<1>20. CASE Crash
  BY <1>20, ProvisioningAssumption DEF ProvisioningAssumption, Crash, StartsOver, TypeOK,
     Complete, Active, nvsVars, managerVars, wifiVars, bleVars
<1>21. CASE AppConnects
  BY <1>21, ProvisioningAssumption DEF ProvisioningAssumption, AppConnects, TypeOK,
     Complete, Active, nvsVars, managerVars, wifiVars, bleVars
<1>22. CASE AppDisconnects
  BY <1>22, ProvisioningAssumption DEF ProvisioningAssumption, AppDisconnects, TypeOK,
     Complete, Active, nvsVars, managerVars, wifiVars, bleVars
<1>23. CASE LinkChanges
  BY <1>23, ProvisioningAssumption DEF ProvisioningAssumption, LinkChanges, TypeOK,
     Complete, Active, nvsVars, managerVars, wifiVars, bleVars
<1>24. CASE \E n \in Network : AppSendsCredentials(n)
  BY <1>24, ProvisioningAssumption DEF ProvisioningAssumption, AppSendsCredentials, TypeOK,
     Complete, Active, nvsVars, managerVars, wifiVars, bleVars
<1>25. CASE UNCHANGED vars
  BY <1>25 DEF vars, TypeOK, Complete, Active, nvsVars, managerVars, wifiVars, bleVars
<1>q. QED
  BY <1>1, <1>2, <1>3, <1>4, <1>5, <1>6, <1>7, <1>8, <1>9, <1>10, <1>11, <1>12, <1>13,
     <1>14, <1>15, <1>16, <1>17, <1>18, <1>19, <1>20, <1>21, <1>22, <1>23, <1>24, <1>25 DEF
     Next, DeviceStep, Environment

(* The strengthening holds in every reachable state.                       *)
LEMMA CompleteAlways == Spec => []Complete
<1>1. Init => Complete
  BY DEF Init, Complete, CertHasItsKey, Progress, Stored
<1> QED
  BY <1>1, TypeCorrect, CompleteStep, PTL DEF Spec

(* At no loss of power is a certificate in store without the key it        *)
(* belongs to: saving the key first is enough.                             *)
THEOREM CertAlwaysHasItsKey == Spec => []CertHasItsKey
<1>1. Complete => CertHasItsKey
  BY DEF Complete
<1> QED
  BY <1>1, CompleteAlways, PTL

(* A device that reports itself provisioned has a certificate, and one that*)
(* has just finished onboarding has both halves of its Wi-Fi credentials.  *)
THEOREM ProvisionedAlwaysComplete == Spec => []ProvisionedIsComplete
<1>1. Complete => ProvisionedIsComplete
  BY DEF Complete, Progress, Stored, ProvisionedIsComplete
<1> QED
  BY <1>1, CompleteAlways, PTL
----------------------------------------------------------------------------
(* The event that waits to be polled.                                      *)

(* An event waits within a pass only, and what set it before update() left *)
(* update() nothing to report in this pass: the window has just begun, and *)
(* no network is being joined.                                             *)
EventWaits ==
    /\ step \in {"boot", "button", "save_key", "save_cert", "finish"} => pendingEvent = None
    /\ step = "update" /\ pendingEvent # None =>
           age = 0 /\ state \in {"PROVISIONING_AVAILABLE", "PROVISIONING_FAILED"}

(* What may become of an event that waits: it is kept or polled.           *)
EventOf(waiting, set) == waiting # None => set \in {waiting, None}

LEMMA EventStep ==
    ASSUME TypeOK, EventWaits, [Next]_vars
    PROVE  EventWaits' /\ EventOf(pendingEvent, pendingEvent')
<1> USE DEF EventWaits, EventOf
<1>1. CASE EnterProvisioning /\ step' = "update" /\ pendingEvent = None
  BY <1>1 DEF EnterProvisioning
<1>2. CASE CheckAtBoot
  BY <1>1, <1>2 DEF CheckAtBoot, managerVars
<1>3. CASE RequestProvisioning
  BY <1>1, <1>3 DEF RequestProvisioning
<1>4. CASE NoRequest
  BY <1>4 DEF NoRequest
<1>5. CASE HandleTimeout
  <2>1. age # 0
    BY <1>5, ProvisioningAssumption DEF HandleTimeout, ProvisioningAssumption
  <2> QED
    BY <1>5, <2>1 DEF HandleTimeout
<1>6. CASE AlreadyCertified \/ FleetRegisters \/ FleetFails
  BY <1>6 DEF AlreadyCertified, FleetRegisters, FleetFails
<1>7. CASE Finish \/ PollEvent
  BY <1>7 DEF Finish, PollEvent
<1>8. CASE Crash \/ ResetFlag
  BY <1>8 DEF Crash, ResetFlag, StartsOver
<1>9. CASE UpdateIdles \/ SessionOpened \/ SessionDropped \/ CredentialsArrive \/ SavePassword
  BY <1>9 DEF UpdateIdles, SessionOpened, SessionDropped, CredentialsArrive, SavePassword,
     managerVars
<1>10. CASE SaveKey \/ SaveCert \/ ResetSsid \/ ResetPassword
  BY <1>10 DEF SaveKey, SaveCert, ResetSsid, ResetPassword, managerVars
<1>11. CASE UNCHANGED <<managerVars, step>>
  BY <1>11 DEF managerVars
<1>12. CASE AppConnects \/ AppDisconnects \/ LinkChanges
            \/ (\E n \in Network : AppSendsCredentials(n)) \/ UNCHANGED vars
  BY <1>11, <1>12 DEF AppConnects, AppDisconnects, LinkChanges, AppSendsCredentials, vars
<1> QED
  BY <1>2, <1>3, <1>4, <1>5, <1>6, <1>7, <1>8, <1>9, <1>10, <1>12
  DEF Next, DeviceStep, Environment

(* No lifecycle event replaces one that was not polled yet, although       *)
(* pendingEvent_ holds one and enterProvisioning(), the timeout and the    *)
(* end of an attempt all set it.                                           *)
THEOREM EventsKept == Spec => EventsNotOverwritten
<1>1. Init => EventWaits
  BY DEF Init, EventWaits
<1>2. TypeOK /\ EventWaits /\ [Next]_vars =>
          [pendingEvent # None => pendingEvent' \in {pendingEvent, None}]_vars
  BY EventStep DEF EventOf
<1>3. TypeOK /\ EventWaits /\ [Next]_vars => EventWaits'
  BY EventStep
<1> QED
  BY <1>1, <1>2, <1>3, TypeCorrect, PTL DEF Spec, EventsNotOverwritten
=============================================================================
