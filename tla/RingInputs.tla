------------------------------ MODULE RingInputs ------------------------------
(***************************************************************************)
(* The two other debounced inputs: the DEV ring buttons                    *)
(* (DevRingButtonController, src/src/dev/dev_ring_button.cpp) and the ring *)
(* line of the Si3050 (RingDetector,                                       *)
(* src/src/intercom/si3050/ring_detector.cpp).  Both repeat the debouncing *)
(* of ConfigButton; a level TRUE is a pressed button, or /RGDT pulled low. *)
(***************************************************************************)
EXTENDS ConfigButton

CONSTANT Lockout    \* kDevRingButtonLockoutMs

ASSUME LockoutAssumption ==
    /\ Lockout \in Nat \ {0}
    /\ Modulus % 2 = 0 /\ 2 * Lockout < Modulus

VARIABLES
    lockoutActive,   \* lockoutActive_
    lockoutUntil,    \* lockoutUntilMs_
    lastRing         \* the time of the last ring, for RingObeyed

lockoutVars == <<lockoutActive, lockoutUntil, lastRing>>
inputVars == <<buttonVars, lockoutVars>>

InputsTypeOK ==
    /\ ButtonTypeOK
    /\ lockoutActive \in BOOLEAN
    /\ lockoutUntil \in 0..(Modulus - 1)
    /\ lastRing \in -Lockout..Horizon

InputsInit ==
    /\ ButtonInit
    /\ lockoutActive = FALSE /\ lockoutUntil = 0
    /\ lastRing = -Lockout

(* static_cast<int32_t>(now - deadline) >= 0; the mutant compares values.  *)
DeadlineReachedByValue(deadline) == Clock >= deadline
DeadlineReached(deadline) == 2 * Since(deadline) < Modulus

LockedOut == lockoutActive /\ ~DeadlineReached(lockoutUntil)

(* Mutant of Rings: no edge is asked for.                                  *)
RingsWhileHeld == Settled /\ ~LockedOut
Rings == NewPress /\ ~LockedOut

(* The lockout is lifted by the first update past its deadline; the mutant *)
(* leaves it standing.                                                     *)
LockoutStands == lockoutActive \/ Rings
LockoutAfter == LockedOut \/ Rings

(* DevRingButtonController::update()                                       *)
RingUpdate ==
    /\ kind = "ring"
    /\ Debounces
    /\ action' = IF Rings THEN "RING" ELSE "NONE"
    /\ acted' = IF Rings THEN acted \cup {"RING"} ELSE acted
    /\ lockoutActive' = LockoutAfter
    /\ lockoutUntil' = IF Rings THEN (Clock + Lockout) % Modulus ELSE lockoutUntil
    /\ lastRing' = IF Rings THEN time ELSE lastRing
    /\ UNCHANGED <<kind, holdVars>>

(* RingDetector::update()                                                  *)
DetectorUpdate ==
    /\ kind = "detector"
    /\ Debounces
    /\ action' = CASE Settled = debounced -> "NONE"
                   [] Settled /\ ~debounced -> "ASSERTED"
                   [] OTHER -> "CLEARED"
    /\ UNCHANGED <<kind, holdVars, acted, lockoutVars>>

InputsNext ==
    \/ Elapse /\ UNCHANGED lockoutVars
    \/ ButtonUpdate /\ UNCHANGED lockoutVars
    \/ RingUpdate
    \/ DetectorUpdate

----------------------------------------------------------------------------
(* Properties.                                                             *)

Watched == idle = 0 /\ ~late /\ steady >= Debounce + LongestPass[kind]

(* A press that began when the lockout of the last ring was over rings,    *)
(* wherever the clock wraps: a lockout left standing by an old ring would  *)
(* look unexpired again for half an epoch of the counter                   *)
(* (DevRingButtonController::update()).                                    *)
RingObeyed ==
    kind = "ring" /\ level /\ Watched /\ time - (held - 1) >= lastRing + Lockout
        => "RING" \in acted

(* A long press of the configuration button is obeyed, and so is a ring.   *)
PressObeyed == HoldObeyed /\ RingObeyed

(* Two rings are at least a lockout apart, whatever the contact does       *)
(* (dev_ring_button.h:13-16).                                              *)
RingsApart == [][action' = "RING" => time >= lastRing + Lockout]_inputVars

(* One press causes each of its actions once: a hold starts onboarding and *)
(* then resets, but neither twice (provisioningFired_, factoryResetFired_);*)
(* a button held rings once (dev_ring_button.h:30-32).  A pass that misses *)
(* a bounce may take one press for two.                                    *)
OncePerPress ==
    [][~late /\ action' \in {"PROVISIONING", "FACTORY_RESET", "RING"}
          => action' \notin acted]_inputVars

(* A press shorter than its threshold does nothing to the configuration    *)
(* button, nor a pulse shorter than the debounce time to the detector:     *)
(* "ignoring short glitches" (ring_detector.h:50).                         *)
ShortPulsesIgnored ==
    [][/\ NoShortPress'
       /\ kind = "detector" /\ ~late /\ debounced' # debounced => steady >= Debounce]_inputVars
=============================================================================
