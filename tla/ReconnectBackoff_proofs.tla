----------------------- MODULE ReconnectBackoff_proofs -----------------------
(***************************************************************************)
(* Theorems about ReconnectBackoff for every range of the clock, every     *)
(* delay, every interval and any number of losses.                         *)
(***************************************************************************)
EXTENDS Benches, TLAPS

ReconnectSpec == ReconnectInit /\ [][ReconnectNext]_reconnectVars

LEMMA ReconnectAlone == Spec => ReconnectSpec
<1>1. Init => ReconnectInit
  BY DEF Init
<1>2. [Next]_vars => [ReconnectNext]_reconnectVars
  BY DEF Next, vars
<1> QED
  BY <1>1, <1>2, PTL DEF Spec, ReconnectSpec

----------------------------------------------------------------------------
(* The remainder, as the clock uses it.                                    *)

LEMMA DivMod ==
    ASSUME NEW m \in Nat \ {0}, NEW x \in Int
    PROVE  x = m * (x \div m) + (x % m) /\ x \div m \in Int /\ x % m \in 0..(m - 1)
OBVIOUS

LEMMA ModBelow ==
    ASSUME NEW m \in Nat \ {0}, NEW x \in 0..(m - 1)
    PROVE  x % m = x
OBVIOUS

LEMMA ModAbove ==
    ASSUME NEW m \in Nat \ {0}, NEW x \in m..(2 * m - 1)
    PROVE  x % m = x - m
OBVIOUS

LEMMA ModNegative ==
    ASSUME NEW m \in Nat \ {0}, NEW x \in (1 - m)..(0 - 1)
    PROVE  x % m = x + m
OBVIOUS

LEMMA UniqueRemainder ==
    ASSUME NEW m \in Nat \ {0}, NEW q \in Int, NEW p \in Int,
           NEW r \in 0..(m - 1), NEW s \in 0..(m - 1), m * q + r = m * p + s
    PROVE  r = s
<1>1. m * (q - p) = s - r
  OBVIOUS
<1>2. s - r < m /\ s - r > -m
  OBVIOUS
<1>3. q - p >= 1 => m * (q - p) >= m
  OBVIOUS
<1>4. q - p <= -1 => m * (q - p) <= -m
  OBVIOUS
<1> QED
  BY <1>1, <1>2, <1>3, <1>4

(* A counter that is read modulo m goes up by one or wraps to 0.           *)
LEMMA ModNext ==
    ASSUME NEW m \in Nat \ {0}, NEW x \in Nat
    PROVE  (x + 1) % m = IF x % m = m - 1 THEN 0 ELSE (x % m) + 1
<1> DEFINE q == x \div m
<1>1. x = m * q + (x % m) /\ q \in Int /\ x % m \in 0..(m - 1)
  BY DivMod
<1>2. /\ x + 1 = m * ((x + 1) \div m) + ((x + 1) % m)
      /\ (x + 1) \div m \in Int /\ (x + 1) % m \in 0..(m - 1)
  BY DivMod
<1>3. CASE x % m = m - 1
  <2>1. x + 1 = m * (q + 1) + 0
    BY <1>1, <1>3
  <2>2. /\ m * (q + 1) + 0 = m * ((x + 1) \div m) + ((x + 1) % m)
        /\ q + 1 \in Int /\ 0 \in 0..(m - 1)
    BY <1>1, <1>2, <2>1
  <2>3. 0 = (x + 1) % m
    BY <1>1, <1>2, <2>2, UniqueRemainder
  <2> QED
    BY <1>3, <2>3
<1>4. CASE x % m # m - 1
  <2>1. x + 1 = m * q + ((x % m) + 1) /\ (x % m) + 1 \in 0..(m - 1)
    BY <1>1, <1>4
  <2>2. m * q + ((x % m) + 1) = m * ((x + 1) \div m) + ((x + 1) % m)
    BY <1>2, <2>1
  <2>3. (x % m) + 1 = (x + 1) % m
    BY <1>1, <1>2, <2>1, <2>2, UniqueRemainder
  <2> QED
    BY <1>4, <2>3
<1> QED
  BY <1>3, <1>4

----------------------------------------------------------------------------
(* The inductive invariants.                                               *)

(* The longest backoff that the failures of this outage can have drawn.    *)
Allowed == IF failures = 0 THEN 0 ELSE DelayCap(failures - 1)

(* Until the clock wraps, what an outage has waited and what it has still  *)
(* to wait are within one such backoff.                                    *)
BackoffInv ==
    /\ attempt = failures
    /\ passes < Epoch =>
          /\ waiting <= Allowed
          /\ nextAttempt > passes => waiting + (nextAttempt - passes) <= Allowed

(* The time since the last report, on a clock that wraps at most once      *)
(* meanwhile.                                                              *)
Age == IF MonotonicMs >= lastPublish THEN MonotonicMs - lastPublish ELSE MonotonicMs - lastPublish + Epoch

HealthInv == connected => silence < HealthInterval /\ Age = silence + 1

(* The numbers of ReconnectTypeOK.                                                  *)
NumbersOK ==
    /\ passes \in Nat /\ attempt \in Nat /\ failures \in Nat
    /\ waiting \in Nat /\ silence \in Nat /\ losses \in Nat
    /\ nextAttempt \in 0..(Epoch - 1) /\ lastPublish \in 0..(Epoch - 1)

----------------------------------------------------------------------------
LEMMA ConstantsOK ==
    /\ Epoch \in Nat \ {0} /\ InitialDelay \in Nat \ {0} /\ MaxDelay \in Nat \ {0}
    /\ HealthInterval \in Nat \ {0} /\ MaxDelay < Epoch /\ HealthInterval < Epoch
BY BackoffAssumption DEF BackoffAssumption

LEMMA ClockRange == ASSUME passes \in Nat PROVE MonotonicMs \in 0..(Epoch - 1)
BY ConstantsOK, DivMod DEF MonotonicMs

(* A delay is capped by the maximum and by its own exponential.            *)
LEMMA DelayCapBounds ==
    ASSUME NEW n \in Nat
    PROVE  /\ DelayCap(n) \in Int /\ DelayCap(n) <= MaxDelay
           /\ n < 31 => DelayCap(n) <= InitialDelay * 2^n
<1>1. 2^n \in Int
  OBVIOUS
<1>2. PICK e \in Int : e = InitialDelay * 2^n
  BY <1>1, ConstantsOK
<1>3. DelayCap(n) = IF n < 31 /\ e < MaxDelay THEN e ELSE MaxDelay
  BY <1>2 DEF DelayCap
<1> QED
  BY <1>2, <1>3, ConstantsOK

----------------------------------------------------------------------------
(* Types.                                                                  *)

LEMMA NumbersKept ==
    ASSUME NumbersOK, [ReconnectNext]_reconnectVars
    PROVE  NumbersOK'
<1> USE DEF NumbersOK
<1>1. MonotonicMs \in 0..(Epoch - 1) /\ Epoch \in Nat \ {0}
  BY ClockRange, ConstantsOK
<1>2. CASE UNCHANGED reconnectVars
  BY <1>2 DEF reconnectVars, backoffVars, healthVars
<1>3. CASE PassWithoutWifi
  <2>1. losses' \in Nat
    BY <1>3 DEF PassWithoutWifi
  <2> QED
    BY <1>3, <2>1 DEF PassWithoutWifi, NextPass, backoffVars, healthVars
<1>4. CASE PassBackingOff
  BY <1>4 DEF PassBackingOff, NextPass, healthVars
<1>5. CASE PassConnects
  BY <1>1, <1>5 DEF PassConnects, NextPass, ReportHealth
<1>6. CASE PassFailsToConnect
  <2>1. PICK delay \in 0..DelayCap(attempt) : nextAttempt' = (MonotonicMs + delay) % Epoch
    BY <1>6 DEF PassFailsToConnect
  <2>2. MonotonicMs + delay \in Int
    BY <1>1, <2>1
  <2>3. nextAttempt' \in 0..(Epoch - 1)
    BY <1>1, <2>1, <2>2, DivMod
  <2> QED
    BY <1>6, <2>3 DEF PassFailsToConnect, NextPass, healthVars
<1>7. CASE PassOnline
  BY <1>1, <1>7 DEF PassOnline, NextPass, ReportHealth, backoffVars
<1>8. CASE SessionDrops
  BY <1>8 DEF SessionDrops, backoffVars, healthVars
<1> QED
  BY <1>2, <1>3, <1>4, <1>5, <1>6, <1>7, <1>8 DEF ReconnectNext

----------------------------------------------------------------------------
(* The backoff.                                                            *)

(* A failed attempt draws a delay below its own cap; where the deadline    *)
(* wraps with the clock, it is already past.                               *)
LEMMA FailureKeepsBackoff ==
    ASSUME NumbersOK, BackoffInv, PassFailsToConnect
    PROVE  BackoffInv'
<1> USE DEF NumbersOK
<1>1. /\ attempt' = attempt + 1 /\ failures' = failures + 1 /\ waiting' = 0
      /\ passes' = passes + 1
  BY DEF PassFailsToConnect, NextPass
<1>2. PICK delay \in 0..DelayCap(attempt) : nextAttempt' = (MonotonicMs + delay) % Epoch
  BY DEF PassFailsToConnect
<1>3. attempt = failures
  BY DEF BackoffInv
<1>4. Allowed' = DelayCap(attempt)
  BY <1>1, <1>3 DEF Allowed
<1>5. DelayCap(attempt) \in Int /\ DelayCap(attempt) <= MaxDelay /\ Epoch \in Nat \ {0}
      /\ MaxDelay \in Nat /\ MaxDelay < Epoch
  BY DelayCapBounds, ConstantsOK
<1>6. delay \in Nat /\ delay <= DelayCap(attempt)
  BY <1>2, <1>5
<1>7. ASSUME passes' < Epoch, nextAttempt' > passes'
      PROVE  nextAttempt' - passes' <= DelayCap(attempt)
  <2>1. MonotonicMs = passes
    BY <1>1, <1>5, <1>7, ModBelow DEF MonotonicMs
  <2>2. CASE passes + delay < Epoch
    <3>1. nextAttempt' = passes + delay
      BY <1>2, <1>5, <1>6, <2>1, <2>2, ModBelow
    <3> QED
      BY <1>1, <1>5, <1>6, <3>1
  <2>3. CASE ~(passes + delay < Epoch)
    <3>1. passes + delay \in Epoch..(2 * Epoch - 1)
      BY <1>1, <1>5, <1>6, <1>7, <2>3
    <3>2. (passes + delay) % Epoch = (passes + delay) - Epoch
      BY <1>5, <3>1, ModAbove
    <3>3. nextAttempt' = (passes + delay) - Epoch
      BY <1>2, <2>1, <3>2
    <3> QED
      BY <1>1, <1>5, <1>6, <1>7, <3>3
  <2> QED
    BY <2>2, <2>3
<1>8. nextAttempt' \in Nat
  <2>1. MonotonicMs + delay \in Int
    BY <1>5, <1>6, ClockRange
  <2> QED
    BY <1>2, <1>5, <2>1, DivMod
<1>9. passes' < Epoch =>
          /\ waiting' <= Allowed'
          /\ nextAttempt' > passes' => waiting' + (nextAttempt' - passes') <= Allowed'
  BY <1>1, <1>4, <1>5, <1>6, <1>7, <1>8
<1> QED
  BY <1>1, <1>3, <1>9 DEF BackoffInv

LEMMA BackoffKept ==
    ASSUME NumbersOK, BackoffInv, [ReconnectNext]_reconnectVars
    PROVE  BackoffInv'
<1> USE DEF NumbersOK
<1>1. /\ Epoch \in Nat \ {0} /\ \A n \in Nat : DelayCap(n) \in Int
      /\ passes < Epoch => MonotonicMs = passes
  <2>1. Epoch \in Nat \ {0}
    BY ConstantsOK
  <2>2. \A n \in Nat : DelayCap(n) \in Int
    BY DelayCapBounds
  <2>3. passes < Epoch => MonotonicMs = passes
    BY <2>1, ModBelow DEF MonotonicMs
  <2> QED
    BY <2>1, <2>2, <2>3
<1>2. Allowed \in Int
  BY <1>1 DEF Allowed
<1>3. ASSUME UNCHANGED backoffVars, passes' \in {passes, passes + 1}
      PROVE  BackoffInv'
  <2>1. UNCHANGED <<nextAttempt, attempt, failures, waiting>>
    BY <1>3 DEF backoffVars
  <2>2. Allowed' = Allowed
    BY <2>1 DEF Allowed
  <2>3. CASE passes' = passes
    BY <2>1, <2>2, <2>3 DEF BackoffInv
  <2>4. CASE passes' = passes + 1
    BY <1>1, <1>2, <2>1, <2>2, <2>4 DEF BackoffInv
  <2> QED
    BY <1>3, <2>3, <2>4
<1>4. PassWithoutWifi \/ PassOnline => UNCHANGED backoffVars /\ passes' = passes + 1
  BY DEF PassWithoutWifi, PassOnline, NextPass
<1>5. SessionDrops \/ UNCHANGED reconnectVars => UNCHANGED backoffVars /\ passes' = passes
  BY DEF SessionDrops, reconnectVars
<1>6. CASE PassBackingOff
  <2>1. /\ passes' = passes + 1 /\ waiting' = waiting + 1 /\ MonotonicMs < nextAttempt
        /\ UNCHANGED <<nextAttempt, attempt, failures>>
    BY <1>6 DEF PassBackingOff, NextPass, BackingOff
  <2>2. Allowed' = Allowed
    BY <2>1 DEF Allowed
  <2> QED
    BY <1>1, <1>2, <2>1, <2>2 DEF BackoffInv
<1>7. CASE PassConnects
  <2>1. /\ passes' = passes + 1 /\ waiting' = 0 /\ attempt' = 0 /\ failures' = 0
        /\ ~(MonotonicMs < nextAttempt) /\ nextAttempt' = nextAttempt
    BY <1>7 DEF PassConnects, NextPass, BackingOff
  <2>2. Allowed' = 0
    BY <2>1 DEF Allowed
  <2> QED
    BY <1>1, <2>1, <2>2 DEF BackoffInv
<1>8. CASE PassFailsToConnect
  BY <1>8, FailureKeepsBackoff
<1> QED
  BY <1>3, <1>4, <1>5, <1>6, <1>7, <1>8 DEF ReconnectNext

----------------------------------------------------------------------------
(* The health reports.                                                     *)

(* isDue() sees the age of the last report, wrapped or not.                *)
LEMMA DueByAge ==
    ASSUME NumbersOK
    PROVE  HealthDue <=> Age >= HealthInterval
<1>1. /\ MonotonicMs \in 0..(Epoch - 1) /\ lastPublish \in 0..(Epoch - 1)
      /\ Epoch \in Nat \ {0}
  BY ClockRange, ConstantsOK DEF NumbersOK
<1>2. CASE MonotonicMs >= lastPublish
  <2>1. (MonotonicMs - lastPublish) % Epoch = MonotonicMs - lastPublish
    BY <1>1, <1>2, ModBelow
  <2> QED
    BY <1>2, <2>1 DEF HealthDue, Age
<1>3. CASE ~(MonotonicMs >= lastPublish)
  <2>1. (MonotonicMs - lastPublish) % Epoch = MonotonicMs - lastPublish + Epoch
    BY <1>1, <1>3, ModNegative
  <2> QED
    BY <1>3, <2>1 DEF HealthDue, Age
<1> QED
  BY <1>2, <1>3

LEMMA HealthKept ==
    ASSUME NumbersOK, HealthInv, [ReconnectNext]_reconnectVars
    PROVE  HealthInv'
<1> USE DEF NumbersOK
<1>1. /\ MonotonicMs \in 0..(Epoch - 1) /\ Epoch \in Nat \ {0}
      /\ HealthInterval \in Nat \ {0} /\ HealthInterval < Epoch
  BY ClockRange, ConstantsOK
<1>2. passes' = passes + 1 => MonotonicMs' = IF MonotonicMs = Epoch - 1 THEN 0 ELSE MonotonicMs + 1
  BY <1>1, ModNext DEF MonotonicMs
<1>3. ASSUME passes' = passes + 1, ReportHealth
      PROVE  HealthInv'
  <2>1. lastPublish' = MonotonicMs /\ silence' = 0
    BY <1>3 DEF ReportHealth
  <2>2. Age' = 1
    BY <1>1, <1>2, <1>3, <2>1 DEF Age
  <2> QED
    BY <1>1, <2>1, <2>2 DEF HealthInv
<1>4. CASE PassConnects
  BY <1>3, <1>4 DEF PassConnects, NextPass
<1>5. CASE PassOnline /\ HealthDue /\ ReportHealth
  BY <1>3, <1>5 DEF PassOnline, NextPass
<1>6. CASE PassOnline /\ ~HealthDue /\ UNCHANGED lastPublish /\ silence' = silence + 1
  <2>1. connected /\ passes' = passes + 1
    BY <1>6 DEF PassOnline, NextPass
  <2>2. Age = silence + 1 /\ Age < HealthInterval
    <3>1. Age = silence + 1
      BY <2>1 DEF HealthInv
    <3>2. ~(Age >= HealthInterval)
      BY <1>6, DueByAge
    <3> QED
      BY <1>1, <3>1, <3>2
  <2>3. Age' = Age + 1
    BY <1>1, <1>2, <1>6, <2>1, <2>2 DEF Age
  <2> QED
    BY <1>6, <2>2, <2>3 DEF HealthInv
<1>7. PassWithoutWifi \/ SessionDrops => ~connected'
  BY DEF PassWithoutWifi, SessionDrops
<1>8. PassBackingOff \/ PassFailsToConnect => ~connected /\ connected' = connected
  BY DEF PassBackingOff, PassFailsToConnect
<1>9. ~connected' => HealthInv'
  BY DEF HealthInv
<1>10. CASE UNCHANGED reconnectVars
  BY <1>10 DEF reconnectVars, healthVars, HealthInv, Age, MonotonicMs
<1>11. PassOnline => \/ PassOnline /\ HealthDue /\ ReportHealth
                     \/ PassOnline /\ ~HealthDue /\ UNCHANGED lastPublish /\ silence' = silence + 1
  BY DEF PassOnline
<1> QED
  BY <1>4, <1>5, <1>6, <1>7, <1>8, <1>9, <1>10, <1>11 DEF ReconnectNext

----------------------------------------------------------------------------
(* The theorems.                                                           *)

LEMMA NumbersAlways == ReconnectSpec => []NumbersOK
<1>1. ReconnectInit => NumbersOK
  BY ConstantsOK DEF ReconnectInit, NumbersOK
<1> QED
  BY <1>1, NumbersKept, PTL DEF ReconnectSpec

(* Every variable keeps its type.                                          *)
THEOREM TypeCorrect == Spec => []ReconnectTypeOK
<1>1. ReconnectInit => connected \in BOOLEAN
  BY DEF ReconnectInit
<1>2. connected \in BOOLEAN /\ [ReconnectNext]_reconnectVars => (connected \in BOOLEAN)'
  BY DEF ReconnectNext, reconnectVars, PassWithoutWifi, PassBackingOff, PassConnects, PassFailsToConnect,
         PassOnline, SessionDrops
<1>3. NumbersOK /\ connected \in BOOLEAN => ReconnectTypeOK
  BY DEF NumbersOK, ReconnectTypeOK
<1> QED
  BY <1>1, <1>2, <1>3, NumbersAlways, ReconnectAlone, PTL DEF ReconnectSpec

(* Until the clock wraps, no outage waits longer for its next attempt than *)
(* the backoff of its own failures.                                        *)
THEOREM WaitsForOwnFailuresAlways == Spec => []WaitsForOwnFailures
<1>1. ReconnectInit => BackoffInv
  BY ConstantsOK DEF ReconnectInit, BackoffInv, Allowed
<1>2. NumbersOK /\ BackoffInv /\ [ReconnectNext]_reconnectVars => BackoffInv'
  BY BackoffKept
<1>3. NumbersOK /\ BackoffInv => WaitsForOwnFailures
  <2> SUFFICES ASSUME NumbersOK, BackoffInv, passes < Epoch
               PROVE  /\ failures = 0 => waiting = 0
                      /\ failures \in 1..31 => waiting <= InitialDelay * 2^(failures - 1)
                      /\ waiting <= MaxDelay
    BY DEF WaitsForOwnFailures
  <2>1. waiting \in Nat /\ failures \in Nat /\ waiting <= Allowed
    BY DEF NumbersOK, BackoffInv
  <2>2. CASE failures = 0
    BY <2>1, <2>2, ConstantsOK DEF Allowed
  <2>3. CASE failures # 0
    <3>1. PICK n \in Nat : n = failures - 1
      BY <2>1, <2>3
    <3>2. Allowed = DelayCap(n)
      BY <2>3, <3>1 DEF Allowed
    <3>3. DelayCap(n) \in Int /\ DelayCap(n) <= MaxDelay /\ MaxDelay \in Nat
      BY DelayCapBounds, ConstantsOK
    <3>4. ASSUME failures \in 1..31 PROVE waiting <= InitialDelay * 2^n
      <4>1. n < 31
        BY <3>1, <3>4
      <4>2. 2^n \in Int
        OBVIOUS
      <4>3. PICK e \in Int : e = InitialDelay * 2^n
        BY <4>2, ConstantsOK
      <4>4. DelayCap(n) <= e
        BY <4>1, <4>3, DelayCapBounds
      <4> QED
        BY <2>1, <3>2, <3>3, <4>3, <4>4
    <3> QED
      BY <2>1, <2>3, <3>1, <3>2, <3>3, <3>4
  <2> QED
    BY <2>2, <2>3
<1> QED
  BY <1>1, <1>2, <1>3, NumbersAlways, ReconnectAlone, PTL DEF ReconnectSpec

(* A session that lasts reports health once per interval, across any       *)
(* number of wraps of the clock.                                           *)
THEOREM HealthPunctualAlways == Spec => []HealthPunctual
<1>1. ReconnectInit => HealthInv
  BY DEF ReconnectInit, HealthInv
<1>2. NumbersOK /\ HealthInv /\ [ReconnectNext]_reconnectVars => HealthInv'
  BY HealthKept
<1>3. HealthInv => HealthPunctual
  BY DEF HealthInv, HealthPunctual
<1> QED
  BY <1>1, <1>2, <1>3, NumbersAlways, ReconnectAlone, PTL DEF ReconnectSpec
=============================================================================
