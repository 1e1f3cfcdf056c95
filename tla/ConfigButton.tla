---------------------------- MODULE ConfigButton ----------------------------
(***************************************************************************)
(* The configuration button: ButtonController::update()                    *)
(* (src/src/hardware/button.cpp), called once per pass of loop()           *)
(* (src/src/main.cpp).  The contact bounces at any time; the controller    *)
(* sees its level only when the loop comes round, and a pass that connects *)
(* over TLS comes round late.  RingInputs has the contact and debouncing   *)
(* in common: its two controllers repeat them in the source.               *)
(***************************************************************************)
EXTENDS Integers

CONSTANTS
    Modulus,           \* 2^32, the range of monotonicMs()
    Debounce,          \* kButtonDebounceMs
    ProvisioningHold,  \* kButtonProvisioningHoldMs
    FactoryResetHold,  \* kButtonFactoryResetHoldMs
    LongestPass,       \* the longest time between two passes of the loop, by kind
    Horizon            \* bound on the time since boot

ASSUME ButtonAssumption ==
    /\ {Modulus, Debounce, ProvisioningHold, FactoryResetHold} \subseteq Nat \ {0}
    /\ LongestPass \in [{"config", "ring", "detector"} -> Nat \ {0}]
    /\ Horizon \in Nat
    /\ Debounce < ProvisioningHold /\ ProvisioningHold < FactoryResetHold
    /\ FactoryResetHold < Modulus

(* No pass takes as long as the counter needs to come round: 24 days.      *)
ASSUME PassAssumption ==
    \A k \in {"config", "ring", "detector"} :
        2 * LongestPass[k] < Modulus /\ FactoryResetHold + LongestPass[k] <= Modulus

VARIABLES
    kind,         \* the controller that polls the contact: "config" is this one
    time,         \* time since boot; monotonicMs() is its remainder
    level,        \* the contact: TRUE while pressed
    steady,       \* time since the contact last opened or closed
    held,         \* 0 when nobody presses, else 1 + the age of the press: it begins
                  \* when the contact closes, ends when it stayed open for Debounce
    idle,         \* time since the last pass
    late,         \* a pass of this press, or of one the controller takes for
                  \* it, came so late that it may have missed a bounce
    rawLast,      \* rawPressedLast_
    lastChange,   \* lastRawChangeMs_
    sampled,      \* hasLastRawChange_
    debounced,    \* debouncedPressed_
    pressStart,   \* pressStartMs_
    provFired,    \* provisioningFired_
    resetFired,   \* factoryResetFired_
    action,       \* what the last pass returned
    acted         \* the actions of the current press

contactVars == <<time, level, steady, held, idle, late>>
debounceVars == <<rawLast, lastChange, sampled, debounced>>
holdVars == <<pressStart, provFired, resetFired>>
controllerVars == <<debounceVars, holdVars>>
buttonVars == <<kind, contactVars, controllerVars, action, acted>>

Clock == time % Modulus

Since(t) == (Clock - t) % Modulus    \* an unsigned difference

ButtonTypeOK ==
    /\ {time, steady, held, idle} \subseteq Nat
    /\ {level, late, rawLast, sampled, debounced, provFired, resetFired} \subseteq BOOLEAN
    /\ {lastChange, pressStart} \subseteq 0..(Modulus - 1)
    /\ action \in {"NONE", "PROVISIONING", "FACTORY_RESET", "RING", "ASSERTED", "CLEARED"}
    /\ kind \in {"config", "ring", "detector"}
    /\ acted \subseteq {"PROVISIONING", "FACTORY_RESET", "RING"}

ButtonInit ==
    /\ time = 0 /\ steady = 0 /\ idle = 0 /\ late = FALSE
    /\ level \in BOOLEAN /\ held = (IF level THEN 1 ELSE 0)
    /\ rawLast = FALSE /\ lastChange = 0 /\ sampled = FALSE
    /\ debounced = FALSE /\ pressStart = 0
    /\ provFired = FALSE /\ resetFired = FALSE
    /\ action = "NONE" /\ acted = {}

----------------------------------------------------------------------------
(* Time passes; the contact opens or closes in between, or bounces.        *)
Elapse ==
    /\ idle < LongestPass[kind]
    /\ time < Horizon
    /\ time' = time + 1
    /\ idle' = idle + 1
    /\ level' \in BOOLEAN
    /\ steady' = IF level' = level THEN steady + 1 ELSE 0
    /\ held' = IF ~level' /\ (held = 0 \/ steady' >= Debounce) THEN 0 ELSE held + 1
    /\ acted' = IF held' = 0 THEN {} ELSE acted
    /\ action' = "NONE"
    /\ late' = (late \/ idle' > 1)
    /\ UNCHANGED <<kind, controllerVars>>

----------------------------------------------------------------------------
(* ButtonController::update()                                              *)

ChangeSeen == IF ~sampled \/ level # rawLast THEN Clock ELSE lastChange

(* The debounced level: the contact's, once it was stable long enough.     *)
Settled ==
    IF Since(ChangeSeen) >= Debounce THEN level ELSE debounced

NewPress == Settled /\ ~debounced

(* Mutant of Start: a press keeps the start of the last one.               *)
StartKept == pressStart
Start == IF NewPress THEN Clock ELSE pressStart
Fired(flag) == flag /\ ~NewPress
HeldFor == Since(Start)

(* Factory reset is looked at first: a hold that jumps past both thresholds*)
(* between two passes causes the stronger action only.                     *)
Decided ==
    IF ~Settled THEN "NONE"
    ELSE IF ~Fired(resetFired) /\ HeldFor >= FactoryResetHold THEN "FACTORY_RESET"
    ELSE IF ~Fired(provFired) /\ HeldFor >= ProvisioningHold THEN "PROVISIONING"
    ELSE "NONE"

(* What every update() does with its sample.                               *)
Debounces ==
    /\ idle > 0
    /\ rawLast' = level
    /\ lastChange' = ChangeSeen
    /\ sampled' = TRUE
    /\ debounced' = Settled
    /\ idle' = 0
    /\ late' = (late /\ (held # 0 \/ Settled))
    /\ UNCHANGED <<time, level, steady, held>>

ButtonUpdate ==
    /\ kind = "config"
    /\ Debounces
    /\ pressStart' = Start
    /\ action' = Decided
    /\ resetFired' = (Fired(resetFired) \/ Decided = "FACTORY_RESET")
    /\ provFired' = (Fired(provFired) \/ Decided # "NONE")
    /\ acted' = IF Decided = "NONE" THEN acted ELSE acted \cup {Decided}
    /\ UNCHANGED kind

----------------------------------------------------------------------------
(* Properties.                                                             *)

(* An action follows a press at least as long as its threshold: "a short   *)
(* press (released before the provisioning threshold) never produces an    *)
(* action" (src/src/hardware/button.h:40).  Only a pass that a blocking    *)
(* call delayed can miss that the contact changed and changed back: then   *)
(* two presses count as one, or the bounces of one press as its end.       *)
NoShortPress ==
    ~late => /\ action = "PROVISIONING" => held > ProvisioningHold
             /\ action = "FACTORY_RESET" => held > FactoryResetHold

(* A contact that stays closed long enough is obeyed, whatever it did      *)
(* before and wherever the clock wraps: the controller has caused the      *)
(* reset, and in this press unless it missed the end of an earlier one     *)
(* that had caused it.                                                     *)
HoldObeyed ==
    kind = "config" /\ level /\ idle = 0
      /\ steady >= FactoryResetHold + Debounce + 2 * LongestPass[kind]
        => resetFired /\ (~late => "FACTORY_RESET" \in acted)
=============================================================================
