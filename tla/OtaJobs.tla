------------------------------- MODULE OtaJobs -------------------------------
(***************************************************************************)
(* An update by an AWS IoT job: JobsCoordinator::pollAndProcess()          *)
(* (src/src/aws/jobs.cpp) and OtaCoordinator::apply()                      *)
(* (src/src/ota/ota_manager.cpp), one step per call of the OTA platform,   *)
(* since power may be lost between any two.  The platform, the verifier of *)
(* signatures and the jobs client are stubs in the source; here they do    *)
(* what their interfaces promise, and SignatureResults says whether a      *)
(* verifier that accepts is among them.                                    *)
(***************************************************************************)
EXTENDS Integers, Sequences

CONSTANTS
    Versions,            \* firmware versions: sequences of numbers
    SignatureResults,    \* what verifySignature() may answer
    None                 \* no value

Image == [version : Versions, intact : BOOLEAN]
Terminal == {"SUCCEEDED", "FAILED"}
Job == [version : Versions, status : {"QUEUED", "IN_PROGRESS"} \cup Terminal]

ASSUME OtaAssumption ==
    /\ Versions \subseteq Seq(Nat)
    /\ SignatureResults \subseteq BOOLEAN
    /\ None \notin Job

VARIABLES
    job,                 \* the job of this device and its status; None if there is none
    running,             \* the image that runs, as its version and whether it is
                         \* what the job's digest stands for
    boot,                \* the image that the next boot starts
    fallback,            \* the image a rollback returns to
    trial,               \* the image to boot awaits its confirmation
    staged,              \* the image downloaded and not given up or installed
    otaStep,             \* what apply() does next
    result               \* what apply() returned, until it is made an event

imageVars == <<running, boot, fallback, trial>>
otaVars == <<job, imageVars, staged, otaStep, result>>

OtaResults == {"SUCCESS", "VERSION_REJECTED", "DOWNLOAD_FAILED", "HASH_MISMATCH",
               "SIGNATURE_INVALID", "INSTALL_FAILED", "BOOT_VALIDATION_FAILED"}

OtaTypeOK ==
    /\ job \in Job \cup {None}
    /\ {running, boot, fallback} \subseteq Image
    /\ staged \in Image \cup {None}
    /\ trial \in BOOLEAN
    /\ otaStep \in {"idle", "download", "verify", "install", "confirm", "report", "done"}
    /\ result \in OtaResults \cup {None}

OtaInit ==
    /\ job = None
    /\ running \in [version : Versions, intact : {TRUE}]
    /\ boot = running /\ fallback = running /\ staged = None
    /\ trial = FALSE /\ otaStep = "idle" /\ result = None

----------------------------------------------------------------------------
(* isNewerVersion(): the first component that differs decides, a missing   *)
(* one counts as 0.                                                        *)

Component(v, i) == IF i \in DOMAIN v THEN v[i] ELSE 0

(* Mutant of IsNewerVersion: any greater component will do.                *)
SomeComponentNewer(a, b) == \E i \in DOMAIN a : Component(a, i) > Component(b, i)

IsNewerVersion(a, b) ==
    \E i \in DOMAIN a :
        /\ Component(a, i) > Component(b, i)
        /\ \A j \in 1..(i - 1) : Component(a, j) = Component(b, j)

----------------------------------------------------------------------------
(* The job: pollAndProcess() reports IN_PROGRESS, calls apply(), and       *)
(* reports what it returned.                                               *)

(* checkPendingJob() offers a job until it is told how it ended.           *)
JobPending == IF job = None THEN FALSE ELSE job.status \notin Terminal

Returns(r) == otaStep' = "report" /\ result' = r

ProcessJob ==
    /\ otaStep = "idle" /\ JobPending
    /\ job' = [job EXCEPT !.status = "IN_PROGRESS"]
    /\ IF IsNewerVersion(job.version, running.version)
       THEN otaStep' = "download" /\ UNCHANGED result
       ELSE Returns("VERSION_REJECTED")
    /\ UNCHANGED <<imageVars, staged>>

Report ==
    /\ otaStep = "report"
    /\ job' = [job EXCEPT !.status = IF result = "SUCCESS" THEN "SUCCEEDED" ELSE "FAILED"]
    /\ otaStep' = "done" /\ staged' = None
    /\ UNCHANGED <<imageVars, result>>

Download ==
    /\ otaStep = "download"
    /\ \/ Returns("DOWNLOAD_FAILED") /\ UNCHANGED staged
       \/ /\ \E intact \in BOOLEAN : staged' = [version |-> job.version, intact |-> intact]
          /\ otaStep' = "verify" /\ UNCHANGED result
    /\ UNCHANGED <<job, imageVars>>

(* Mutant of DigestMatches: the digest is not compared.                    *)
DigestIgnored == TRUE
DigestMatches == staged.intact

(* verifySha256() and verifySignature().                                   *)
Verify ==
    /\ otaStep = "verify"
    /\ IF ~DigestMatches THEN Returns("HASH_MISMATCH")
       ELSE \E accepted \in SignatureResults :
               IF accepted THEN otaStep' = "install" /\ UNCHANGED result
               ELSE Returns("SIGNATURE_INVALID")
    /\ UNCHANGED <<job, imageVars, staged>>

InstallFails ==
    /\ otaStep = "install" /\ Returns("INSTALL_FAILED")
    /\ UNCHANGED <<job, imageVars, staged>>

(* The image is marked to boot next.  A real platform does not return from *)
(* installAndReboot(): the device restarts (see Firmware); one that        *)
(* returns is asked to confirm at once, in the old image.                  *)
MarkedToBoot == boot' = staged /\ fallback' = running /\ trial' = TRUE /\ UNCHANGED running

InstallReturns ==
    /\ otaStep = "install" /\ MarkedToBoot
    /\ otaStep' = "confirm"
    /\ UNCHANGED <<job, staged, result>>

(* Mutant of AfterConfirm: a rollback counts as a success.                 *)
SuccessAnyway(confirmed) == "SUCCESS"
AfterConfirm(confirmed) == IF confirmed THEN "SUCCESS" ELSE "BOOT_VALIDATION_FAILED"

(* confirmBootOrRollback()                                                 *)
Confirm ==
    /\ otaStep = "confirm"
    /\ \E confirmed \in BOOLEAN :
        /\ Returns(AfterConfirm(confirmed))
        /\ boot' = IF confirmed THEN boot ELSE fallback
    /\ trial' = FALSE /\ fallback' = boot'
    /\ UNCHANGED <<job, running, staged>>

OtaSteps == Report \/ Download \/ Verify \/ InstallFails \/ InstallReturns \/ Confirm

(* The jobs service: one job at a time.                                    *)
JobIssued ==
    /\ ~JobPending
    /\ \E v \in Versions : job' = [version |-> v, status |-> "QUEUED"]
    /\ UNCHANGED <<imageVars, staged, otaStep, result>>

----------------------------------------------------------------------------
(* Properties.                                                             *)

(* Versions by value, for components below 100.                            *)
Rank(v) == 10000 * Component(v, 1) + 100 * Component(v, 2) + Component(v, 3)

RollsBack == trial /\ boot' = fallback /\ trial' = FALSE

(* An image that apply() installs is newer than the one that runs; any     *)
(* other change of what boots next is the one rollback of an image on      *)
(* trial to the image that installed it.                                   *)
OnlyUpgrades ==
    [][boot' # boot => IF otaStep = "install"
                       THEN Rank(boot'.version) > Rank(running.version)
                       ELSE RollsBack]_otaVars

(* No download that was damaged is ever marked to boot, wherever power is  *)
(* lost (OtaCoordinator::apply(), the order of its checks).                *)
BootsIntact == boot.intact /\ running.intact /\ fallback.intact

(* A job reported SUCCEEDED is the image that boots from then on.          *)
SuccessBoots == job # None /\ job.status = "SUCCEEDED" => boot.version = job.version

=============================================================================
