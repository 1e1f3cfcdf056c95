-------------------------- MODULE ReconnectBackoff --------------------------
(***************************************************************************)
(* When updateNetwork() of src/src/main.cpp tries to connect and when it   *)
(* reports health: ReconnectManager                                        *)
(* (src/src/network/reconnect_manager.cpp), nextConnectAttemptAtMs, and    *)
(* HealthReporter::isDue() (src/src/network/health_reporter.cpp), over the *)
(* millisecond counter of src/src/hardware/clock.h, which wraps.           *)
(*                                                                         *)
(* One step is one pass of the loop, and a pass takes one unit of time.    *)
(***************************************************************************)
EXTENDS Integers

CONSTANTS
    Epoch,            \* 2^32, the range of monotonicMs()
    InitialDelay,     \* kReconnectInitialDelayMs
    MaxDelay,         \* kReconnectMaxDelayMs
    HealthInterval,   \* the interval of the HealthReporter
    MaxPasses,        \* bound on the passes since boot
    MaxLosses         \* bound on the sessions lost

ASSUME BackoffAssumption ==
    /\ {Epoch, InitialDelay, MaxDelay, HealthInterval} \subseteq Nat \ {0}
    /\ InitialDelay <= MaxDelay /\ MaxDelay < InitialDelay * 2^30
    /\ MaxDelay < Epoch /\ HealthInterval < Epoch
    /\ {MaxPasses, MaxLosses} \subseteq Nat

VARIABLES
    passes,         \* passes since boot; monotonicMs() is its remainder
    connected,      \* transport.isConnected()
    nextAttempt,    \* nextConnectAttemptAtMs
    attempt,        \* attempt_
    lastPublish,    \* lastPublishMs_
    failures,       \* failed attempts of the current outage
    waiting,        \* passes of the current outage since the last attempt that
                    \* found Wi-Fi up and made no attempt
    silence,        \* passes without a health report in the current session
    losses          \* sessions lost so far

backoffVars == <<nextAttempt, attempt, failures, waiting>>
healthVars == <<lastPublish, silence>>
reconnectVars == <<passes, connected, backoffVars, healthVars, losses>>

MonotonicMs == passes % Epoch

ReconnectTypeOK ==
    /\ {passes, attempt, failures, waiting, silence, losses} \subseteq Nat
    /\ {nextAttempt, lastPublish} \subseteq 0..(Epoch - 1)
    /\ connected \in BOOLEAN

ReconnectInit ==
    /\ passes = 0 /\ connected = FALSE
    /\ nextAttempt = 0 /\ attempt = 0 /\ failures = 0 /\ waiting = 0
    /\ lastPublish = 0 /\ silence = 0
    /\ losses = 0

----------------------------------------------------------------------------
(* Mutant of DelayCap: the exponential is not capped.                      *)
UncappedDelay(n) == InitialDelay * 2^n

(* The largest delay nextDelayMs() may draw at attempt n.  The exponent is *)
(* clamped at 31, where the exponential is above MaxDelay.                 *)
DelayCap(n) ==
    IF n < 31 /\ InitialDelay * 2^n < MaxDelay THEN InitialDelay * 2^n ELSE MaxDelay

(* Mutant of HealthDue: a deadline is compared instead of a difference.    *)
HealthDueByDeadline == MonotonicMs >= lastPublish + HealthInterval

(* isDue() of a pass that did not reconnect: the difference of two clock   *)
(* readings wraps with them.  A pass that reconnects sets forced_ and uses *)
(* it up, and no pass is online before one has.                            *)
HealthDue == (MonotonicMs - lastPublish) % Epoch >= HealthInterval

ReportHealth ==
    /\ lastPublish' = MonotonicMs
    /\ silence' = 0

NextPass == passes < MaxPasses /\ passes' = passes + 1

----------------------------------------------------------------------------
(* No Wi-Fi: a session is torn down, nothing else happens.                 *)
PassWithoutWifi ==
    /\ NextPass
    /\ connected => losses < MaxLosses
    /\ losses' = IF connected THEN losses + 1 ELSE losses
    /\ connected' = FALSE
    /\ UNCHANGED <<backoffVars, healthVars>>

BackingOff == MonotonicMs < nextAttempt

PassBackingOff ==
    /\ NextPass
    /\ ~connected
    /\ BackingOff
    /\ waiting' = waiting + 1
    /\ UNCHANGED <<connected, nextAttempt, attempt, failures, healthVars, losses>>

(* Mutant of PassConnects: reset() is forgotten.                           *)
PassConnectsNoReset ==
    /\ NextPass
    /\ ~connected /\ ~BackingOff
    /\ connected' = TRUE
    /\ failures' = 0 /\ waiting' = 0
    /\ ReportHealth
    /\ UNCHANGED <<nextAttempt, attempt, losses>>

(* reset() and forceNextPublish(); the deadline of the last failure stays. *)
PassConnects ==
    /\ NextPass
    /\ ~connected /\ ~BackingOff
    /\ connected' = TRUE
    /\ attempt' = 0
    /\ failures' = 0 /\ waiting' = 0
    /\ ReportHealth
    /\ UNCHANGED <<nextAttempt, losses>>

PassFailsToConnect ==
    /\ NextPass
    /\ ~connected /\ ~BackingOff
    /\ \E delay \in 0..DelayCap(attempt) : nextAttempt' = (MonotonicMs + delay) % Epoch
    /\ attempt' = attempt + 1
    /\ failures' = failures + 1 /\ waiting' = 0
    /\ UNCHANGED <<connected, healthVars, losses>>

PassOnline ==
    /\ NextPass
    /\ connected
    /\ \/ HealthDue /\ ReportHealth
       \/ ~HealthDue /\ UNCHANGED lastPublish /\ silence' = silence + 1
    /\ UNCHANGED <<connected, backoffVars, losses>>

(* The session is lost, during a pass or between two.                      *)
SessionDrops ==
    /\ connected
    /\ losses < MaxLosses
    /\ losses' = losses + 1
    /\ connected' = FALSE
    /\ UNCHANGED <<passes, backoffVars, healthVars>>

ReconnectNext ==
    \/ PassWithoutWifi \/ PassBackingOff \/ PassConnects
    \/ PassFailsToConnect \/ PassOnline \/ SessionDrops

----------------------------------------------------------------------------
(* Properties.                                                             *)

(* Until the counter wraps, an outage waits no longer before its next      *)
(* attempt than the backoff of its own failures: the deadline that an      *)
(* earlier outage left behind never delays a new one.                      *)
WaitsForOwnFailures ==
    passes < Epoch =>
        /\ failures = 0 => waiting = 0
        /\ failures \in 1..31 => waiting <= InitialDelay * 2^(failures - 1)
        /\ waiting <= MaxDelay

(* The reconnect delay never exceeds its maximum, "maximum reconnect delay *)
(* 300 seconds" (src/docs/communication-protocol.md section 10).           *)
WaitsAtMostMaxDelay == waiting <= MaxDelay

(* A session that lasts reports health once per interval, whether or not   *)
(* the clock wraps meanwhile, and at once after a reconnect.               *)
HealthPunctual == connected => silence < HealthInterval
=============================================================================
