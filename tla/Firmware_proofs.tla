--------------------------- MODULE Firmware_proofs ---------------------------
(***************************************************************************)
(* Proofs about Firmware, for every set of versions and identities, every  *)
(* capacity of the outbox and any number of losses of power.               *)
(***************************************************************************)
EXTENDS Firmware, FiniteSetTheorems, TLAPS

(* What each point of an update holds.  Jobs are taken up one at a time,   *)
(* and the service keeps a job until it is told how it ended.              *)
UpdateOK ==
    /\ otaStep # "idle" => pc = "ota"
    /\ otaStep \in {"download", "verify", "install", "confirm", "report"} =>
           job \in Job /\ job.status = "IN_PROGRESS"
    /\ otaStep \in {"verify", "install", "confirm"} =>
           staged \in Image /\ staged.version = job.version

(* The identity in RAM is the stored one as far as it is loaded.           *)
IdentityLoaded ==
    /\ pc # "off" => storedId # None /\ identity.deviceId = storedId
    /\ pc \notin {"off", "code"} => storedCode # None /\ identity.setupCode = storedCode

(* The three support each other: boot takes the value of staged, and used  *)
(* that of identity.                                                       *)
TypeInv == TypeOK /\ UpdateOK /\ IdentityLoaded

LEMMA InitTypeInv == Init => TypeInv
<1> SUFFICES ASSUME Init PROVE TypeInv
  OBVIOUS
<1>1. OtaTypeOK
  BY DEF Init, OtaInit, OtaTypeOK, Image
<1>2. identity \in [deviceId : Ids \cup {None}, setupCode : Codes \cup {None},
                    provisioned : BOOLEAN]
  BY DEF Init, NoIdentity
<1>3. /\ {wifi, line} \subseteq BOOLEAN
      /\ lastLine \in BOOLEAN \cup {None} /\ shadow \in BOOLEAN \cup {None}
      /\ used \subseteq Ids \X Codes
  BY DEF Init
<1>4. backlog \in 0..OutboxCapacity
  BY FirmwareAssumption DEF FirmwareAssumption, Init
<1>5. UpdateOK /\ IdentityLoaded
  BY DEF Init, OtaInit, UpdateOK, IdentityLoaded
<1> QED
  BY <1>1, <1>2, <1>3, <1>4, <1>5 DEF Init, TypeInv, TypeOK

(* The steps of OtaCoordinator::apply() and of the report of its job.      *)
LEMMA OtaStepsType ==
    ASSUME TypeInv, pc = "ota", OtaSteps, UNCHANGED <<storeVars, ramVars, line, cloudVars>>
    PROVE  TypeInv'
<1> USE DEF TypeInv, TypeOK, OtaTypeOK, UpdateOK, IdentityLoaded, imageVars, OtaResults
<1>1. UNCHANGED <<storedId, storedCode, flag, backlog, pc, identity, wifi, lastLine,
                  intercomState, line, shadow, used>>
  BY DEF storeVars, ramVars, cloudVars
<1>2. CASE Report
  BY <1>1, <1>2 DEF Report, Job, Terminal
<1>3. CASE Download
  <2>1. job \in Job /\ job.status = "IN_PROGRESS" /\ UNCHANGED <<job, imageVars>>
    BY <1>3 DEF Download
  <2>2. CASE Returns("DOWNLOAD_FAILED") /\ UNCHANGED staged
    BY <1>1, <2>1, <2>2 DEF Returns
  <2>3. CASE /\ \E intact \in BOOLEAN : staged' = [version |-> job.version, intact |-> intact]
             /\ otaStep' = "verify" /\ UNCHANGED result
    BY <1>1, <2>1, <2>3 DEF Image, Job
  <2> QED
    BY <1>3, <2>2, <2>3 DEF Download
<1>4. CASE Verify
  BY <1>1, <1>4 DEF Verify, Returns
<1>5. CASE InstallFails
  BY <1>1, <1>5 DEF InstallFails, Returns
<1>6. CASE InstallReturns
  BY <1>1, <1>6 DEF InstallReturns, MarkedToBoot
<1>7. CASE Confirm
  <2>1. PICK confirmed \in BOOLEAN : /\ Returns(AfterConfirm(confirmed))
                                     /\ boot' = IF confirmed THEN boot ELSE fallback
    BY <1>7 DEF Confirm
  <2>2. result' \in OtaResults /\ otaStep' = "report"
    BY <2>1 DEF AfterConfirm, Returns
  <2>3. {running, boot, fallback}' \subseteq Image
    BY <1>7, <2>1 DEF Confirm
  <2>4. trial' \in BOOLEAN /\ UNCHANGED <<job, staged>>
    BY <1>7 DEF Confirm
  <2> QED
    BY <1>1, <1>7, <2>2, <2>3, <2>4 DEF Confirm
<1> QED
  BY <1>2, <1>3, <1>4, <1>5, <1>6, <1>7 DEF OtaSteps

(* Every step keeps the variables of Firmware in their types.              *)
LEMMA TypeStep == TypeInv /\ [Next]_vars => TypeInv'
<1> SUFFICES ASSUME TypeInv, [Next]_vars PROVE TypeInv'
  OBVIOUS
<1> USE FirmwareAssumption
    DEF FirmwareAssumption, TypeInv, TypeOK, OtaTypeOK, UpdateOK, IdentityLoaded, otaVars,
        imageVars, storeVars, ramVars, cloudVars
<1>1. CASE LoadId
  <2>1. {running, boot, fallback}' \subseteq Image /\ trial' \in BOOLEAN
    <3>1. BootImage /\ UNCHANGED fallback
      BY <1>1 DEF LoadId
    <3>2. CASE running' = boot /\ UNCHANGED <<boot, trial>>
      BY <3>1, <3>2
    <3>3. CASE running' = fallback /\ boot' = fallback /\ trial' = FALSE
      BY <3>1, <3>3
    <3> QED
      BY <3>1, <3>2, <3>3 DEF BootImage
  <2>2. storedId' \in Ids /\ identity' = [identity EXCEPT !.deviceId = storedId']
    BY <1>1 DEF LoadId, Loaded
  <2>3. /\ identity' \in [deviceId : Ids \cup {None}, setupCode : Codes \cup {None},
                          provisioned : BOOLEAN]
        /\ identity'.deviceId = storedId'
    BY <2>2
  <2> QED
    BY <1>1, <2>1, <2>2, <2>3 DEF LoadId
<1>2. CASE LoadCode
  <2>1. storedCode' \in Codes /\ identity' = [identity EXCEPT !.setupCode = storedCode']
    BY <1>2 DEF LoadCode, Loaded
  <2>2. /\ identity' \in [deviceId : Ids \cup {None}, setupCode : Codes \cup {None},
                          provisioned : BOOLEAN]
        /\ identity'.deviceId = storedId /\ identity'.setupCode = storedCode'
    BY <1>2, <2>1 DEF LoadCode
  <2> QED
    BY <1>2, <2>1, <2>2 DEF LoadCode
<1>3. CASE LoadFlag
  <2>1. /\ identity' \in [deviceId : Ids \cup {None}, setupCode : Codes \cup {None},
                          provisioned : BOOLEAN]
        /\ identity'.deviceId = storedId /\ identity'.setupCode = storedCode
    BY <1>3 DEF LoadFlag
  <2>2. used' \subseteq Ids \X Codes
    BY <1>3 DEF LoadFlag
  <2> QED
    BY <1>3, <2>1, <2>2 DEF LoadFlag
<1>4. CASE UpdateButton
  <2>1. CASE NoReset \/ FactoryReset
    BY <2>1 DEF NoReset, FactoryReset
  <2>2. CASE ResetAnnounced
    <3>1. identity' \in [deviceId : Ids \cup {None}, setupCode : Codes \cup {None},
                         provisioned : BOOLEAN]
      BY <2>2 DEF ResetAnnounced, Restart, StartsOver, NoIdentity
    <3>2. backlog' \in 0..OutboxCapacity
      BY <2>2 DEF ResetAnnounced, EventQueued
    <3>3. wifi' = FALSE /\ line' = line
      BY <2>2, Zenon DEF ResetAnnounced, Restart, StartsOver
    <3>4. {wifi, line}' \subseteq BOOLEAN
      BY <3>3
    <3> QED
      BY <2>2, <3>1, <3>2, <3>4 DEF ResetAnnounced, Restart, StartsOver
  <2> QED
    BY <1>4, <2>1, <2>2 DEF UpdateButton
<1>5. CASE UpdateProvisioning
  <2>1. CASE ManagerQuiet
    <3>1. wifi' = wifi \/ wifi' = TRUE
      BY <2>1, Zenon DEF ManagerQuiet
    <3>2. {wifi, line}' \subseteq BOOLEAN
      BY <2>1, <3>1, Zenon DEF ManagerQuiet
    <3> QED
      BY <2>1, <3>2 DEF ManagerQuiet
  <2>2. CASE ManagerReports
    BY <2>2 DEF ManagerReports, EventQueued
  <2>3. CASE ManagerCompletes
    BY <2>3 DEF ManagerCompletes
  <2>4. CASE CompletionReported
    BY <2>4 DEF CompletionReported, EventQueued
  <2> QED
    BY <1>5, <2>1, <2>2, <2>3, <2>4 DEF UpdateProvisioning
<1>6. CASE UpdateNetwork
  <2>1. CASE PassOffline
    BY <2>1 DEF PassOffline
  <2>2. CASE PassOnline
    BY <2>2 DEF PassOnline, Flushed
  <2>3. CASE NoJob
    BY <2>3 DEF NoJob
  <2>4. CASE StartJob
    <3>1. job \in Job
      BY <2>4 DEF StartJob, ProcessJob, JobPending, Job
    <3>2. job' \in Job /\ job'.status = "IN_PROGRESS"
      BY <2>4, <3>1 DEF StartJob, ProcessJob, Job
    <3>3. otaStep' \in {"download", "report"} /\ result' \in OtaResults \cup {None}
      BY <2>4 DEF StartJob, ProcessJob, Returns, OtaResults
    <3> QED
      BY <2>4, <3>2, <3>3 DEF StartJob, ProcessJob, Job
  <2>5. CASE JobStep
    BY <2>5, OtaStepsType DEF JobStep
  <2>6. CASE InstallReboots
    BY <2>6 DEF InstallReboots, MarkedToBoot, StartsOver, NoIdentity
  <2>7. CASE OtaEvent
    BY <2>7 DEF OtaEvent, EventQueued
  <2> QED
    BY <1>6, <2>1, <2>2, <2>3, <2>4, <2>5, <2>6, <2>7 DEF UpdateNetwork
<1>7. CASE UpdateIntercom
  <2>1. backlog' \in 0..OutboxCapacity
    BY <1>7 DEF UpdateIntercom, EventQueued
  <2>2. intercomState' \in {"BOOT", "IDLE", "RINGING", "IN_CALL", "ERROR"}
    BY <1>7 DEF UpdateIntercom, HandleEvent
  <2> QED
    BY <1>7, <2>1, <2>2 DEF UpdateIntercom
<1>8. CASE LineMoves
  BY <1>8 DEF LineMoves
<1>9. CASE PowerLoss
  BY <1>9 DEF PowerLoss, StartsOver, NoIdentity
<1>10. CASE NewJob
  <2>1. job' \in Job /\ UNCHANGED <<imageVars, staged, otaStep, result>>
    BY <1>10 DEF NewJob, JobIssued, Job
  <2>2. otaStep \notin {"download", "verify", "install", "confirm", "report"}
    BY <1>10, OtaAssumption DEF OtaAssumption, NewJob, JobIssued, JobPending, Terminal
  <2> QED
    BY <1>10, <2>1, <2>2 DEF NewJob, Job
<1>11. CASE UNCHANGED vars
  BY <1>11 DEF vars
<1> QED
  BY <1>1, <1>2, <1>3, <1>4, <1>5, <1>6, <1>7, <1>8, <1>9, <1>10, <1>11 DEF Next, Program, Setup

(* Every variable of the firmware stays in its type.                       *)
THEOREM TypeCorrect == Spec => []TypeOK
<1>1. TypeInv => TypeOK
  BY DEF TypeInv
<1> QED
  BY <1>1, InitTypeInv, TypeStep, PTL DEF Spec

----------------------------------------------------------------------------
(* One identity for life.                                                  *)

(* The device never ran under an identity that the store does not hold     *)
(* now: what is stored once is never replaced.                             *)
IdentityKept ==
    /\ used \subseteq {<<storedId, storedCode>>}
    /\ used # {} => storedId # None /\ storedCode # None

LEMMA IdentityKeptStep == TypeInv /\ IdentityKept /\ [Next]_vars => IdentityKept'
<1> SUFFICES ASSUME TypeInv, IdentityKept, [Next]_vars PROVE IdentityKept'
  OBVIOUS
<1> USE DEF IdentityKept
<1>1. CASE LoadId
  BY <1>1 DEF LoadId, Loaded, cloudVars
<1>2. CASE LoadCode
  BY <1>2 DEF LoadCode, Loaded, cloudVars
<1>3. CASE LoadFlag
  <2>1. /\ storedId # None /\ identity.deviceId = storedId
        /\ storedCode # None /\ identity.setupCode = storedCode
    BY <1>3 DEF LoadFlag, TypeInv, IdentityLoaded
  <2> QED
    BY <1>3, <2>1 DEF LoadFlag, storeVars
<1>4. CASE UNCHANGED <<storedId, storedCode, used>>
  BY <1>4
<1>5. UpdateButton => UNCHANGED <<storedId, storedCode, used>>
  BY DEF UpdateButton, NoReset, FactoryReset, ResetAnnounced, storeVars, cloudVars
<1>6. UpdateProvisioning => UNCHANGED <<storedId, storedCode, used>>
  BY DEF UpdateProvisioning, ManagerQuiet, ManagerReports, ManagerCompletes,
     CompletionReported, storeVars, cloudVars
<1>7. UpdateNetwork => UNCHANGED <<storedId, storedCode, used>>
  BY DEF UpdateNetwork, PassOffline, PassOnline, NoJob, StartJob, JobStep, InstallReboots,
     OtaEvent, storeVars, cloudVars
<1>8. UpdateIntercom \/ LineMoves \/ PowerLoss \/ NewJob \/ UNCHANGED vars
          => UNCHANGED <<storedId, storedCode, used>>
  BY DEF UpdateIntercom, LineMoves, PowerLoss, NewJob, vars, storeVars, cloudVars
<1> QED
  BY <1>1, <1>2, <1>3, <1>4, <1>5, <1>6, <1>7, <1>8 DEF Next, Program, Setup

(* The device keeps one id and one setup code for life, wherever power is  *)
(* lost on the first boot and however often it is reset                    *)
(* (DeviceIdentityProvider::load()).                                       *)
THEOREM IdentityCorrect == Spec => []OneIdentity
<1>1. Init => IdentityKept
  BY DEF Init, IdentityKept
<1>2. IdentityKept => OneIdentity
  <2> SUFFICES ASSUME IdentityKept PROVE Cardinality(used) <= 1
    BY DEF OneIdentity
  <2>1. IsFiniteSet({<<storedId, storedCode>>}) /\ Cardinality({<<storedId, storedCode>>}) = 1
    BY FS_Singleton
  <2> QED
    BY <2>1, FS_Subset DEF IdentityKept
<1> QED
  BY <1>1, <1>2, InitTypeInv, TypeStep, IdentityKeptStep, PTL DEF Spec

----------------------------------------------------------------------------
(* The images.                                                             *)

(* What makes BootsIntact and SuccessBoots inductive: an image is installed*)
(* only after its digest was compared, and an update that succeeded is     *)
(* confirmed, so that no boot rolls it back.                               *)
ImagesOK ==
    /\ BootsIntact
    /\ SuccessBoots
    /\ otaStep \in {"install", "confirm"} => staged.intact
    /\ otaStep = "confirm" => boot = staged
    /\ otaStep = "report" /\ result = "SUCCESS" => ~trial /\ boot.version = job.version
    /\ trial /\ job # None => job.status # "SUCCEEDED"

LEMMA OtaStepsImages ==
    ASSUME TypeInv, ImagesOK, OtaSteps PROVE ImagesOK'
<1> USE DEF ImagesOK, BootsIntact, SuccessBoots
<1>1. CASE Report
  <2>1. job \in Job /\ UNCHANGED <<imageVars>> /\ otaStep' = "done"
    BY <1>1 DEF Report, TypeInv, UpdateOK
  <2>2. /\ job'.version = job.version
        /\ job'.status = "SUCCEEDED" => result = "SUCCESS"
    BY <1>1, <2>1 DEF Report, Job
  <2> QED
    BY <1>1, <2>1, <2>2 DEF Report, imageVars
<1>2. CASE Download
  BY <1>2 DEF Download, Returns, imageVars
<1>3. CASE Verify
  BY <1>3 DEF Verify, DigestMatches, Returns, imageVars
<1>4. CASE InstallFails
  BY <1>4 DEF InstallFails, Returns, imageVars
<1>5. CASE InstallReturns
  BY <1>5 DEF InstallReturns, MarkedToBoot, TypeInv, UpdateOK
<1>6. CASE Confirm
  BY <1>6 DEF Confirm, AfterConfirm, Returns, TypeInv, UpdateOK
<1> QED
  BY <1>1, <1>2, <1>3, <1>4, <1>5, <1>6 DEF OtaSteps

LEMMA ImagesStep == TypeInv /\ ImagesOK /\ [Next]_vars => ImagesOK'
<1> SUFFICES ASSUME TypeInv, ImagesOK, [Next]_vars PROVE ImagesOK'
  OBVIOUS
<1>1. CASE LoadId
  BY <1>1 DEF LoadId, BootImage, ImagesOK, BootsIntact, SuccessBoots, TypeInv, UpdateOK
<1>2. CASE UNCHANGED otaVars
  BY <1>2 DEF otaVars, imageVars, ImagesOK, BootsIntact, SuccessBoots
<1>3. LoadCode \/ LoadFlag \/ NoReset \/ FactoryReset \/ UpdateProvisioning => UNCHANGED otaVars
  BY DEF LoadCode, LoadFlag, NoReset, FactoryReset, UpdateProvisioning, ManagerQuiet,
     ManagerReports, ManagerCompletes, CompletionReported
<1>4. PassOffline \/ PassOnline \/ NoJob \/ UpdateIntercom \/ LineMoves \/ UNCHANGED vars
          => UNCHANGED otaVars
  BY DEF PassOffline, PassOnline, NoJob, UpdateIntercom, LineMoves, vars
<1>5. CASE ResetAnnounced \/ PowerLoss
  BY <1>5 DEF ResetAnnounced, PowerLoss, Restart, StartsOver, imageVars, ImagesOK,
     BootsIntact, SuccessBoots
<1>6. CASE StartJob
  <2>1. job \in Job
    BY <1>6 DEF StartJob, ProcessJob, JobPending, TypeInv, TypeOK, OtaTypeOK
  <2>2. job'.status = "IN_PROGRESS"
    BY <1>6, <2>1 DEF StartJob, ProcessJob, Job
  <2> QED
    BY <1>6, <2>2 DEF StartJob, ProcessJob, Returns, imageVars, ImagesOK, BootsIntact,
       SuccessBoots
<1>7. CASE JobStep
  BY <1>7, OtaStepsImages DEF JobStep
<1>8. CASE InstallReboots
  BY <1>8 DEF InstallReboots, MarkedToBoot, StartsOver, TypeInv, UpdateOK, ImagesOK,
     BootsIntact, SuccessBoots
<1>9. CASE OtaEvent
  BY <1>9 DEF OtaEvent, imageVars, ImagesOK, BootsIntact, SuccessBoots
<1>10. CASE NewJob
  <2>1. otaStep \notin {"install", "confirm", "report"}
    BY <1>10, OtaAssumption DEF OtaAssumption, NewJob, JobIssued, JobPending, Terminal,
       TypeInv, UpdateOK
  <2>2. job'.status = "QUEUED"
    BY <1>10 DEF NewJob, JobIssued
  <2> QED
    BY <1>10, <2>1, <2>2 DEF NewJob, JobIssued, imageVars, ImagesOK, BootsIntact, SuccessBoots
<1> QED
  BY <1>1, <1>2, <1>3, <1>4, <1>5, <1>6, <1>7, <1>8, <1>9, <1>10
  DEF Next, Program, Setup, UpdateButton, UpdateNetwork

LEMMA InitImages == Init => ImagesOK
  BY DEF Init, OtaInit, ImagesOK, BootsIntact, SuccessBoots

(* No image that was damaged on its way is ever marked to boot, run or     *)
(* kept to fall back to (the order of the checks in                        *)
(* OtaCoordinator::apply()).                                               *)
THEOREM ImagesIntact == Spec => []BootsIntact
<1>1. ImagesOK => BootsIntact
  BY DEF ImagesOK
<1> QED
  BY <1>1, InitTypeInv, TypeStep, InitImages, ImagesStep, PTL DEF Spec

(* The image of a job that was reported SUCCEEDED is the one that boots,   *)
(* wherever power is lost between installing, confirming and reporting.    *)
THEOREM SuccessIsBooted == Spec => []SuccessBoots
<1>1. ImagesOK => SuccessBoots
  BY DEF ImagesOK
<1> QED
  BY <1>1, InitTypeInv, TypeStep, InitImages, ImagesStep, PTL DEF Spec

----------------------------------------------------------------------------
(* The order of versions, and what may be marked to boot.                  *)

LEMMA ComponentNat ==
    ASSUME NEW v \in Seq(Nat), NEW i \in Nat
    PROVE  Component(v, i) \in Nat
  BY DEF Component

(* isNewerVersion() is a strict order of versions of any length, so that   *)
(* no chain of accepted updates leads back to where it began.              *)
THEOREM NewerIsStrictOrder ==
    ASSUME NEW a \in Seq(Nat), NEW b \in Seq(Nat), NEW c \in Seq(Nat)
    PROVE  /\ ~IsNewerVersion(a, a)
           /\ IsNewerVersion(a, b) => ~IsNewerVersion(b, a)
           /\ IsNewerVersion(a, b) /\ IsNewerVersion(b, c) => IsNewerVersion(a, c)
<1>1. ASSUME NEW v \in Seq(Nat), IsNewerVersion(v, v)
      PROVE  FALSE
  <2>1. PICK i \in DOMAIN v : Component(v, i) > Component(v, i)
    BY <1>1 DEF IsNewerVersion
  <2>2. i \in Nat
    BY <2>1
  <2>3. PICK n \in Nat : n = Component(v, i)
    BY <2>2, ComponentNat
  <2> QED
    BY <2>1, <2>3
<1>2. ASSUME NEW u \in Seq(Nat), NEW v \in Seq(Nat), NEW w \in Seq(Nat),
             IsNewerVersion(u, v), IsNewerVersion(v, w)
      PROVE  IsNewerVersion(u, w)
  <2>1. PICK i \in DOMAIN u : /\ Component(u, i) > Component(v, i)
                              /\ \A j \in 1..(i - 1) : Component(u, j) = Component(v, j)
    BY <1>2 DEF IsNewerVersion
  <2>2. PICK k \in DOMAIN v : /\ Component(v, k) > Component(w, k)
                              /\ \A j \in 1..(k - 1) : Component(v, j) = Component(w, j)
    BY <1>2 DEF IsNewerVersion
  <2>3. i \in Nat /\ k \in Nat /\ i \in 1..Len(u) /\ k \in 1..Len(v)
    BY <2>1, <2>2
  <2>4. PICK ui \in Nat, vi \in Nat, wi \in Nat :
            ui = Component(u, i) /\ vi = Component(v, i) /\ wi = Component(w, i)
    BY <2>3, ComponentNat
  <2>5. PICK uk \in Nat, vk \in Nat, wk \in Nat :
            uk = Component(u, k) /\ vk = Component(v, k) /\ wk = Component(w, k)
    BY <2>3, ComponentNat
  <2>6. ui > vi /\ vk > wk
    BY <2>1, <2>2, <2>4, <2>5
  <2>7. CASE i <= k
    <3>1. vi >= wi
      <4>1. CASE i = k
        BY <2>4, <2>5, <2>6, <4>1
      <4>2. CASE i < k
        <5>1. i \in 1..(k - 1)
          BY <2>3, <4>2
        <5> QED
          BY <2>2, <2>4, <5>1
      <4> QED
        BY <2>3, <2>7, <4>1, <4>2
    <3>2. Component(u, i) > Component(w, i)
      BY <2>4, <2>6, <3>1
    <3>3. \A j \in 1..(i - 1) : Component(u, j) = Component(w, j)
      BY <2>1, <2>2, <2>3, <2>7
    <3> QED
      BY <3>2, <3>3 DEF IsNewerVersion
  <2>8. CASE k < i
    <3>1. k \in DOMAIN u /\ k \in 1..(i - 1)
      BY <2>3, <2>8
    <3>2. uk = vk
      BY <2>1, <2>5, <3>1
    <3>3. Component(u, k) > Component(w, k)
      BY <2>5, <2>6, <3>2
    <3>4. \A j \in 1..(k - 1) : Component(u, j) = Component(w, j)
      BY <2>1, <2>2, <2>3, <2>8
    <3> QED
      BY <3>1, <3>3, <3>4 DEF IsNewerVersion
  <2> QED
    BY <2>3, <2>7, <2>8
<1> QED
  BY <1>1, <1>2

(* An update goes on only while its job is newer than what runs, and asks  *)
(* for confirmation only of an image on trial.                             *)
UpgradeOK ==
    /\ otaStep \in {"download", "verify", "install"} =>
           IsNewerVersion(job.version, running.version)
    /\ otaStep = "confirm" => trial

LEMMA UpgradeStep == TypeInv /\ UpgradeOK /\ [Next]_vars => UpgradeOK'
<1> SUFFICES ASSUME TypeInv, UpgradeOK, [Next]_vars PROVE UpgradeOK'
  OBVIOUS
<1> USE DEF UpgradeOK
<1>1. CASE UNCHANGED otaVars
  BY <1>1 DEF otaVars, imageVars
<1>2. LoadCode \/ LoadFlag \/ NoReset \/ FactoryReset \/ UpdateProvisioning => UNCHANGED otaVars
  BY DEF LoadCode, LoadFlag, NoReset, FactoryReset, UpdateProvisioning, ManagerQuiet,
     ManagerReports, ManagerCompletes, CompletionReported
<1>3. PassOffline \/ PassOnline \/ NoJob \/ UpdateIntercom \/ LineMoves \/ UNCHANGED vars
          => UNCHANGED otaVars
  BY DEF PassOffline, PassOnline, NoJob, UpdateIntercom, LineMoves, vars
<1>4. CASE LoadId
  BY <1>4 DEF LoadId, TypeInv, UpdateOK
<1>5. CASE ResetAnnounced \/ InstallReboots \/ OtaEvent \/ PowerLoss
  BY <1>5 DEF ResetAnnounced, InstallReboots, OtaEvent, PowerLoss, Restart, StartsOver
<1>6. CASE StartJob
  <2>1. job \in Job
    BY <1>6 DEF StartJob, ProcessJob, JobPending, TypeInv, TypeOK, OtaTypeOK
  <2>2. job'.version = job.version /\ running' = running
    BY <1>6, <2>1 DEF StartJob, ProcessJob, Job, imageVars
  <2> QED
    BY <1>6, <2>2 DEF StartJob, ProcessJob, Returns
<1>7. CASE JobStep
  <2>1. CASE Report \/ Confirm
    BY <2>1 DEF Report, Confirm, Returns
  <2>2. CASE Download \/ Verify \/ InstallFails
    BY <2>2 DEF Download, Verify, InstallFails, Returns, imageVars
  <2>3. CASE InstallReturns
    BY <2>3 DEF InstallReturns, MarkedToBoot
  <2> QED
    BY <1>7, <2>1, <2>2, <2>3 DEF JobStep, OtaSteps
<1>8. CASE NewJob
  <2>1. otaStep \notin {"download", "verify", "install", "confirm"}
    BY <1>8, OtaAssumption DEF OtaAssumption, NewJob, JobIssued, JobPending, Terminal, TypeInv,
       UpdateOK
  <2> QED
    BY <1>8, <2>1 DEF NewJob, JobIssued
<1> QED
  BY <1>1, <1>2, <1>3, <1>4, <1>5, <1>6, <1>7, <1>8
  DEF Next, Program, Setup, UpdateButton, UpdateNetwork

(* What a step marks to boot, by the order that the code compares by.      *)
NewerOrFallback ==
    [][boot' # boot => IF otaStep = "install"
                       THEN IsNewerVersion(boot'.version, running.version)
                       ELSE RollsBack]_otaVars

LEMMA NewerOrFallbackStep ==
    ASSUME TypeInv, UpgradeOK, [Next]_vars, boot' # boot
    PROVE  /\ otaStep = "install" => IsNewerVersion(boot'.version, running.version)
           /\ otaStep # "install" => RollsBack
<1>1. LoadId \/ JobStep \/ InstallReboots
  BY DEF Next, Program, Setup, LoadCode, LoadFlag, UpdateButton, NoReset, FactoryReset,
     ResetAnnounced, UpdateProvisioning, ManagerQuiet, ManagerReports, ManagerCompletes,
     CompletionReported, UpdateNetwork, PassOffline, PassOnline, NoJob, StartJob, ProcessJob,
     OtaEvent, UpdateIntercom, LineMoves, PowerLoss, NewJob, JobIssued, vars, otaVars, imageVars
<1>2. CASE LoadId
  <2>1. otaStep # "install"
    BY <1>2 DEF LoadId, TypeInv, UpdateOK
  <2> QED
    BY <1>2, <2>1 DEF LoadId, BootImage, RollsBack
<1>3. CASE otaStep = "install" /\ MarkedToBoot
  BY <1>3 DEF MarkedToBoot, UpgradeOK, TypeInv, UpdateOK
<1>4. CASE JobStep
  <2>1. InstallReturns \/ Confirm
    BY <1>4 DEF JobStep, OtaSteps, Report, Download, Verify, InstallFails, imageVars
  <2>2. CASE Confirm
    BY <2>2 DEF Confirm, RollsBack, UpgradeOK
  <2> QED
    BY <1>3, <2>1, <2>2 DEF InstallReturns
<1> QED
  BY <1>1, <1>2, <1>3, <1>4 DEF InstallReboots

LEMMA InitUpgrade == Init => UpgradeOK
  BY DEF Init, OtaInit, UpgradeOK

(* Only an image that is newer than the one that runs is installed, and    *)
(* only an image on trial is rolled back, for versions of any length       *)
(* (OtaCoordinator::apply()).                                              *)
THEOREM UpgradesOnlyNewer == Spec => NewerOrFallback
<1>1. TypeInv /\ UpgradeOK /\ [Next]_vars =>
          [boot' # boot => IF otaStep = "install"
                           THEN IsNewerVersion(boot'.version, running.version)
                           ELSE RollsBack]_otaVars
  BY NewerOrFallbackStep
<1> QED
  BY <1>1, InitTypeInv, TypeStep, InitUpgrade, UpgradeStep, PTL DEF Spec, NewerOrFallback

(* Versions that the rank of OnlyUpgrades tells apart.                     *)
RankedVersions ==
    \A v \in Versions : Len(v) <= 3 /\ \A i \in DOMAIN v : v[i] < 100

LEMMA NewerRanksHigher ==
    ASSUME RankedVersions, NEW a \in Versions, NEW b \in Versions, IsNewerVersion(a, b)
    PROVE  Rank(a) > Rank(b)
<1>1. a \in Seq(Nat) /\ b \in Seq(Nat) /\ Len(a) <= 3
  BY OtaAssumption DEF OtaAssumption, RankedVersions
<1>2. ASSUME NEW v \in Versions, NEW i \in {1, 2, 3}
      PROVE  Component(v, i) \in 0..99
  <2>1. v \in Seq(Nat) /\ \A k \in DOMAIN v : v[k] < 100
    BY OtaAssumption DEF OtaAssumption, RankedVersions
  <2>2. CASE i \in DOMAIN v
    <3>1. v[i] \in Nat
      BY <2>1, <2>2
    <3>2. v[i] < 100
      BY <2>1, <2>2
    <3>3. v[i] \in 0..99
      BY <3>1, <3>2
    <3> QED
      BY <2>2, <3>3 DEF Component
  <2>3. CASE i \notin DOMAIN v
    BY <2>3 DEF Component
  <2> QED
    BY <2>2, <2>3
<1>3. PICK i \in DOMAIN a : /\ Component(a, i) > Component(b, i)
                            /\ \A j \in 1..(i - 1) : Component(a, j) = Component(b, j)
  BY DEF IsNewerVersion
<1>4. i \in {1, 2, 3}
  BY <1>1, <1>3
<1>5. PICK a1 \in 0..99, a2 \in 0..99, a3 \in 0..99 :
          a1 = Component(a, 1) /\ a2 = Component(a, 2) /\ a3 = Component(a, 3)
  BY <1>2
<1>6. PICK b1 \in 0..99, b2 \in 0..99, b3 \in 0..99 :
          b1 = Component(b, 1) /\ b2 = Component(b, 2) /\ b3 = Component(b, 3)
  BY <1>2
<1>7. \/ a1 > b1
      \/ a1 = b1 /\ a2 > b2
      \/ a1 = b1 /\ a2 = b2 /\ a3 > b3
  <2>1. CASE i = 1
    BY <1>3, <1>5, <1>6, <2>1
  <2>2. CASE i = 2
    <3>1. 1 \in 1..(i - 1)
      BY <2>2
    <3> QED
      BY <1>3, <1>5, <1>6, <2>2, <3>1
  <2>3. CASE i = 3
    <3>1. 1 \in 1..(i - 1) /\ 2 \in 1..(i - 1)
      BY <2>3
    <3> QED
      BY <1>3, <1>5, <1>6, <2>3, <3>1
  <2> QED
    BY <1>4, <2>1, <2>2, <2>3
<1>8. 10000 * a1 + 100 * a2 + a3 > 10000 * b1 + 100 * b2 + b3
  BY <1>7
<1> QED
  BY <1>5, <1>6, <1>8 DEF Rank

(* The same by the value of the versions, where they have one.             *)
THEOREM UpgradesAlways ==
    ASSUME RankedVersions
    PROVE  Spec => OnlyUpgrades
<1>1. TypeInv /\ TypeInv' /\ UpgradeOK /\ [Next]_vars =>
          [boot' # boot => IF otaStep = "install"
                           THEN Rank(boot'.version) > Rank(running.version)
                           ELSE RollsBack]_otaVars
  <2> SUFFICES ASSUME TypeInv, TypeInv', UpgradeOK, [Next]_vars, boot' # boot
               PROVE  IF otaStep = "install" THEN Rank(boot'.version) > Rank(running.version)
                      ELSE RollsBack
    OBVIOUS
  <2>1. boot'.version \in Versions /\ running.version \in Versions
    BY DEF TypeInv, TypeOK, OtaTypeOK, Image
  <2> QED
    BY <2>1, NewerOrFallbackStep, NewerRanksHigher
<1> QED
  BY <1>1, InitTypeInv, TypeStep, InitUpgrade, UpgradeStep, PTL DEF Spec, OnlyUpgrades

----------------------------------------------------------------------------
(* The shadow.                                                             *)

(* The flag as it was read at boot may be out of date in one direction     *)
(* only, but for the moment between a factory reset and its restart.       *)
FlagKept == pc # "reset" /\ identity.provisioned = TRUE => flag = "1"

LEMMA FlagKeptStep == TypeInv /\ FlagKept /\ [Next]_vars => FlagKept'
<1> SUFFICES ASSUME TypeInv, FlagKept, [Next]_vars PROVE FlagKept'
  OBVIOUS
<1>1. CASE Setup
  <2>1. identity'.provisioned = IF LoadFlag THEN flag = "1" ELSE identity.provisioned
    BY <1>1 DEF Setup, LoadId, LoadCode, LoadFlag, TypeInv, TypeOK
  <2>2. UNCHANGED flag /\ pc # "reset"
    BY <1>1 DEF Setup, LoadId, LoadCode, LoadFlag, storeVars
  <2> QED
    BY <2>1, <2>2 DEF FlagKept
<1>2. CASE FactoryReset \/ ManagerCompletes
  BY <1>2 DEF FactoryReset, ManagerCompletes, FlagKept
<1>3. CASE ResetAnnounced \/ InstallReboots \/ PowerLoss
  BY <1>3 DEF ResetAnnounced, InstallReboots, PowerLoss, Restart, StartsOver, NoIdentity,
     FlagKept
<1>4. CASE UNCHANGED <<flag, identity>> /\ pc # "reset"
  BY <1>4 DEF FlagKept
<1>5. NoReset \/ ManagerQuiet \/ ManagerReports \/ CompletionReported
          => UNCHANGED <<flag, identity>> /\ pc # "reset"
  BY DEF NoReset, ManagerQuiet, ManagerReports, CompletionReported, storeVars
<1>6. PassOffline \/ PassOnline \/ NoJob \/ StartJob \/ JobStep \/ OtaEvent \/ UpdateIntercom
          => UNCHANGED <<flag, identity>> /\ pc # "reset"
  BY DEF PassOffline, PassOnline, NoJob, StartJob, JobStep, OtaEvent, UpdateIntercom,
     storeVars, ramVars
<1>7. CASE LineMoves \/ NewJob \/ UNCHANGED vars
  BY <1>7 DEF LineMoves, NewJob, vars, storeVars, ramVars, FlagKept
<1> QED
  BY <1>1, <1>2, <1>3, <1>4, <1>5, <1>6, <1>7
  DEF Next, Program, UpdateButton, UpdateProvisioning, UpdateNetwork

(* The shadow never starts to call a device provisioned that was reset     *)
(* since (main.cpp:368 reads the flag as of boot; updateButton() restarts).*)
THEOREM ShadowCorrect == Spec => ShadowTruthful
<1>1. Init => FlagKept
  BY DEF Init, NoIdentity, FlagKept
<1>2. FlagKept /\ [Next]_vars => [shadow' # shadow /\ shadow' = TRUE => flag = "1"]_vars
  <2> SUFFICES ASSUME FlagKept, Next, shadow' # shadow, shadow' = TRUE PROVE flag = "1"
    BY DEF vars, cloudVars
  <2>1. PassOnline
    BY DEF Next, Program, Setup, LoadId, LoadCode, LoadFlag, UpdateButton, NoReset,
       FactoryReset, ResetAnnounced, UpdateProvisioning, ManagerQuiet, ManagerReports,
       ManagerCompletes, CompletionReported, UpdateNetwork, PassOffline, NoJob, StartJob,
       JobStep, InstallReboots, OtaEvent, UpdateIntercom, LineMoves, PowerLoss, NewJob,
       cloudVars
  <2> QED
    BY <2>1 DEF PassOnline, FlagKept
<1> QED
  BY <1>1, <1>2, InitTypeInv, TypeStep, FlagKeptStep, PTL DEF Spec, ShadowTruthful

=============================================================================
