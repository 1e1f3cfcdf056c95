---------------------------- MODULE Si3050BringUp ----------------------------
(***************************************************************************)
(* The electrical bring-up of the Si3050: Si3050Controller::initialize()   *)
(* and transferRaw() (si3050_controller.cpp) over Esp32PcmClock and its    *)
(* Si3050PcmClockBringup bookkeeping (si3050_pcm_clock.cpp), all under     *)
(* src/src/intercom/si3050.  Each call of the I2S driver may fail; a       *)
(* failed uninstall may have released the driver or not.  initializeSi3050 *)
(* of src/src/main.cpp calls initialize() once per boot; the caller here   *)
(* may do so again, and stop() the clock after a failed uninstall, as the  *)
(* headers of the two classes allow.                                       *)
(***************************************************************************)
EXTENDS Integers

CONSTANTS
    Configs,            \* Si3050Config: records [pclkHz, fsyncHz]
    MicrosPerSecond,    \* 1000000
    CyclesPerFrame,     \* 16 timeslots of 8 bits
    ResetCycles,        \* kSi3050MinPclkCyclesBeforeResetRelease, tmr
    SettleCycles        \* 64, the numerator of Tsettle

ASSUME BringUpAssumption ==
    /\ {MicrosPerSecond, CyclesPerFrame, ResetCycles, SettleCycles} \subseteq Nat \ {0}
    /\ \A c \in Configs : {c.pclkHz, c.fsyncHz} \subseteq Nat

VARIABLES
    config,          \* config_
    pc,              \* where initialize() is; "idle" outside it
    ready,           \* ready_
    pins,            \* what the chip sees: [deselected, sclkHigh, reset]
    driverInstalled, running, teardownFailed, hasFailed,   \* Si3050PcmClockBringup
    drivers,         \* I2S drivers that really run, 2 for more than one
    clocked          \* PCLK cycles the chip got in /RESET, then since its release

trackerVars == <<driverInstalled, running, teardownFailed, hasFailed>>
clockVars == <<trackerVars, drivers>>
bringUpVars == <<config, pc, ready, pins, clockVars, clocked>>

BringUpTypeOK ==
    /\ config \in Configs
    /\ pc \in {"idle", "start", "pins", "zero", "rollback", "started", "settle"}
    /\ {ready, driverInstalled, running, teardownFailed, hasFailed} \subseteq BOOLEAN
    /\ pins \in [deselected: BOOLEAN, sclkHigh: BOOLEAN, reset: BOOLEAN]
    /\ drivers \in 0..2
    /\ clocked \in Nat

(* At power-up every pin floats but /RESET, which is pulled down.          *)
BringUpInit ==
    /\ config \in Configs
    /\ pc = "idle" /\ ready = FALSE
    /\ pins = [deselected |-> FALSE, sclkHigh |-> FALSE, reset |-> TRUE]
    /\ driverInstalled = FALSE /\ running = FALSE
    /\ teardownFailed = FALSE /\ hasFailed = FALSE
    /\ drivers = 0 /\ clocked = 0

----------------------------------------------------------------------------
(* si3050_timing.h                                                         *)

(* Mutant of CyclesToMicroseconds: rounded down.                           *)
CyclesRoundedDown(cycles) == (cycles * MicrosPerSecond) \div config.pclkHz
CyclesToMicroseconds(cycles) ==
    (cycles * MicrosPerSecond + config.pclkHz - 1) \div config.pclkHz

(* The PCLK cycles in a wait.                                              *)
CyclesIn(micros) == (micros * config.pclkHz) \div MicrosPerSecond

Supported == config.fsyncHz # 0 /\ config.pclkHz = config.fsyncHz * CyclesPerFrame

----------------------------------------------------------------------------
(* Si3050PcmClockBringup                                                   *)

(* Mutant of ShouldStart: a driver that could not be released is forgotten.*)
ShouldStartAnyway == ~running
ShouldStart == ~running /\ ~teardownFailed

(* recordUninstall(): a failure leaves the driver owed and bars a new one. *)
RecordUninstall(succeeded) ==
    /\ running' = FALSE
    /\ driverInstalled' = ~succeeded
    /\ teardownFailed' = ~succeeded
    /\ hasFailed' = ~succeeded

(* i2s_driver_uninstall()                                                  *)
Uninstall ==
    \E succeeded \in BOOLEAN :
        /\ RecordUninstall(succeeded)
        /\ drivers' \in IF succeeded THEN {0} ELSE 0..drivers

(* resetAfterInstallFailure(), and its mutant that keeps the failure.      *)
FailureKept == TRUE
AfterInstallFailure == FALSE

----------------------------------------------------------------------------
(* Si3050Controller::initialize(), up to the clock's start().              *)

Initialize ==
    /\ pc = "idle" /\ ~ready
    /\ IF config.pclkHz = 0 \/ config.fsyncHz = 0
       THEN /\ pins' = [pins EXCEPT !.reset = TRUE]
            /\ UNCHANGED <<pc, clocked>>
       ELSE /\ pins' = [deselected |-> TRUE, sclkHigh |-> TRUE, reset |-> TRUE]
            /\ pc' = "start" /\ clocked' = 0
    /\ UNCHANGED <<config, ready, clockVars>>

(* Esp32PcmClock::start(): nothing to do, or not to be done.               *)
StartSkipped ==
    /\ pc = "start" /\ (~ShouldStart \/ ~Supported)
    /\ pc' = "started"
    /\ UNCHANGED <<config, ready, pins, clockVars, clocked>>

(* i2s_driver_install(), recordDriverInstall(): an install that succeeds   *)
(* after a recorded failure would not be recorded.                         *)
InstallDriver ==
    /\ pc = "start" /\ ShouldStart /\ Supported
    /\ \E succeeded \in BOOLEAN :
        /\ drivers' = IF succeeded /\ drivers < 2 THEN drivers + 1 ELSE drivers
        /\ driverInstalled' = (driverInstalled \/ (succeeded /\ ~hasFailed))
        /\ IF succeeded /\ ~hasFailed
           THEN pc' = "pins" /\ UNCHANGED hasFailed
           ELSE pc' = "started" /\ hasFailed' = AfterInstallFailure
    /\ UNCHANGED <<config, ready, pins, running, teardownFailed, clocked>>

(* i2s_set_pin() and i2s_zero_dma_buffer(): the first failure is kept.     *)
Step(at, next) ==
    /\ pc = at
    /\ \/ pc' = next /\ running' = (next = "started") /\ UNCHANGED hasFailed
       \/ pc' = "rollback" /\ hasFailed' = TRUE /\ UNCHANGED running
    /\ UNCHANGED <<config, ready, pins, driverInstalled, teardownFailed, drivers, clocked>>

SetPins == Step("pins", "zero")
ZeroBuffer == Step("zero", "started")

(* rollbackAfterBringupFailure(): one attempt.                             *)
RollBack ==
    /\ pc = "rollback" /\ pc' = "started"
    /\ Uninstall
    /\ UNCHANGED <<config, ready, pins, clocked>>

(* Back in initialize(): the clock runs or it does not.                    *)
ClockRunning == running

GiveUp ==
    /\ pc = "started" /\ ~ClockRunning
    /\ pc' = "idle"
    /\ UNCHANGED <<config, ready, pins, clockVars, clocked>>

(* The wait for PCLK cycles under /RESET, and its release.                 *)
ReleaseReset ==
    /\ pc = "started" /\ ClockRunning
    /\ clocked' = IF running THEN CyclesIn(CyclesToMicroseconds(ResetCycles)) ELSE 0
    /\ pins' = [pins EXCEPT !.reset = FALSE]
    /\ pc' = "settle"
    /\ UNCHANGED <<config, ready, clockVars>>

(* The wait for the PLL; from here on transferRaw() reaches the bus.       *)
Settle ==
    /\ pc = "settle"
    /\ clocked' = IF running THEN CyclesIn(CyclesToMicroseconds(SettleCycles)) ELSE 0
    /\ ready' = TRUE
    /\ pc' = "idle"
    /\ UNCHANGED <<config, pins, clockVars>>

(* Esp32PcmClock::stop() with a driver to release; nothing else calls it   *)
(* (a controller that is ready would not notice).                          *)
Stop ==
    /\ pc = "idle" /\ ~ready /\ driverInstalled
    /\ Uninstall
    /\ UNCHANGED <<config, pc, ready, pins, clocked>>

----------------------------------------------------------------------------
(* The board restarts.                                                     *)
PowerCycle ==
    /\ pc' = "idle" /\ ready' = FALSE
    /\ pins' = [deselected |-> FALSE, sclkHigh |-> FALSE, reset |-> TRUE]
    /\ driverInstalled' = FALSE /\ running' = FALSE
    /\ teardownFailed' = FALSE /\ hasFailed' = FALSE
    /\ drivers' = 0 /\ clocked' = 0
    /\ UNCHANGED config

InitializeSteps ==
    \/ Initialize \/ StartSkipped \/ InstallDriver \/ SetPins \/ ZeroBuffer
    \/ RollBack \/ GiveUp \/ ReleaseReset \/ Settle

BringUpNext == InitializeSteps \/ Stop \/ PowerCycle

----------------------------------------------------------------------------
(* Properties.                                                             *)

(* The driver is never installed on top of one that may still be active    *)
(* (si3050_pcm_clock.cpp:86-91), whatever fails in whatever order.         *)
OneDriver == drivers <= 1

(* A driver that may still be active is one that the tracker knows, so     *)
(* that stop() will release it: none is left behind by a failure of this   *)
(* or an earlier bring-up (si3050_pcm_clock.cpp:63-97).                    *)
DriverAccounted == drivers # 0 => driverInstalled

(* The chip is out of /RESET only under a driver, after the PCLK cycles    *)
(* that /RESET asks for, and SPI is permitted only to a clocked chip that  *)
(* had its settling time out of /RESET.                                    *)
SpiAfterSettle ==
    /\ ~pins.reset => drivers = 1 /\ (pc = "settle" \/ ready)
    /\ pc = "settle" => ~pins.reset /\ clocked >= ResetCycles
    /\ ready => ~pins.reset /\ clocked >= SettleCycles
=============================================================================
