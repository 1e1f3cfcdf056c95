-------------------------- MODULE DevImages_proofs --------------------------
(***************************************************************************)
(* Theorems about the DEV images on their network, for all timeouts,       *)
(* thresholds and windows.                                                 *)
(*                                                                         *)
(* The argument is about who may act on the association.  While a recovery *)
(* awaits its disconnect, update() returns nothing else (Awaited), so that *)
(* nothing is tried over the link that is being left (Left).  An           *)
(* association that the loop began and knows nothing of yet is one whose   *)
(* timer runs: attemptIn and joinAge add up to the timeout (Underway), for *)
(* whatever clears the timer has seen the link up, or an event of it.      *)
(***************************************************************************)
EXTENDS DevImages, TLAPS

(* joinAge counts: neither an outcome nor the timeout was reached.         *)
Joining == joinAge \notin {Idle, AssociationTimeout}

(* An action is pending between update() and its case of the switch only,  *)
(* and what the pass saw of the link is used up by update().               *)
PassOrder ==
    /\ todo # "None" => phase = "act"
    /\ sawWifi => phase \in {"gotIp", "lost"} /\ joinAge = Idle

(* A disconnect that is awaited leaves room for no other action.           *)
Awaited ==
    /\ sm.awaiting => ~sm.recovery /\ todo \in {"None", "RecoverWifi"}
    /\ todo = "RecoverWifi" => sm.awaiting

(* The link that a recovery leaves is up until the disconnect is awaited   *)
(* no longer.                                                              *)
Left ==
    stale => /\ radio = "leaving" /\ sm.awaiting /\ todo = "None"
             /\ phase \in {"gotIp", "lost"} => sawWifi

(* The later stages of the cascade, and a recovery they asked for, follow  *)
(* a pass that saw the link up; an association under way has its timer.    *)
Underway ==
    /\ sm.state # "wifi" => joinAge = Idle
    /\ sm.recovery => sm.state # "wifi"
    /\ Joining => sm.attemptIn = AssociationTimeout - joinAge
    /\ todo = "ConnectWifi" =>
          sm.state = "wifi" /\ sm.attemptIn = AssociationTimeout /\ ~Joining

(* The type invariant in two parts: what is not a flag, and the flags.     *)
ConnectivityKinds ==
    /\ SmokeTypeOK
    /\ phase \in {"sample", "gotIp", "lost", "act", "report"}
    /\ radio \in {"idle", "joining", "up", "leaving"}
    /\ undelivered \in Seq({"gotIp", "lost"})
    /\ clock \in {"never", "asked", "settling", "trusted"}
    /\ joinAge \in Idle..AssociationTimeout

Flags ==
    /\ sawWifi \in BOOLEAN /\ gotIp \in BOOLEAN /\ lost \in BOOLEAN
    /\ session \in BOOLEAN /\ subscribed \in BOOLEAN /\ forced \in BOOLEAN
    /\ scanned \in BOOLEAN /\ stored \in BOOLEAN /\ healthy \in BOOLEAN
    /\ stale \in BOOLEAN /\ announced \in BOOLEAN
    /\ bleOwnsWifi \in BOOLEAN /\ windowSeen \in BOOLEAN

OnboardingKinds == BleTypeOK /\ image \in Images

(* An attempt is awaited or open, not both: a start that was not confirmed *)
(* leaves no window to the manager that is stopped.                        *)
OneTimer == awaitingIn # Unarmed => windowIn = Unarmed

IInv ==
    /\ ConnectivityKinds /\ Flags /\ OnboardingKinds
    /\ PassOrder /\ Awaited /\ Left /\ Underway
    /\ AnnouncedOnReconnect /\ WindowOnAir /\ OneTimer

----------------------------------------------------------------------------
(* The timers and the record of the coordinator.                           *)

(* A timer runs down to 0 and stays there; one that is idle stays idle.    *)
LEMMA TimeLeftRuns ==
    ASSUME NEW M \in Nat, NEW x \in Idle..M, NEW n \in Nat
    PROVE  /\ TimeLeft(x, n) \in Idle..M
           /\ x # Idle => TimeLeft(x, n) \in 0..M
           /\ TimeLeft(x, n) = Idle <=> x = Idle
           /\ x > n => TimeLeft(x, n) = x - n
  BY DEF TimeLeft, Idle

(* Doubling stays within the limits of the backoff.                        *)
LEMMA DoubledBounded ==
    ASSUME NEW d \in InitialRetry..MaxRetry
    PROVE  Doubled(d) \in InitialRetry..MaxRetry
<1>1. InitialRetry \in Nat /\ MaxRetry \in Nat /\ InitialRetry >= 1
  BY SmokeAssumption
<1>2. MaxRetry \div 2 \in Nat /\ 2 * (MaxRetry \div 2) <= MaxRetry
  BY <1>1
<1>3. QED
  BY <1>1, <1>2 DEF Doubled

(* What the properties need of a step from record m to record n that does  *)
(* not touch the timer of the association.                                 *)
SameAttempt(m, n) == n.attemptIn = m.attemptIn

SameStage(m, n) == n.state = m.state

SameRecovery(m, n) == n.recovery = m.recovery /\ n.awaiting = m.awaiting

LEMMA EnterKeeps ==
    ASSUME NEW m \in SmokeRecord, NEW s \in States
    PROVE  /\ Enter(m, s) \in SmokeRecord
           /\ Enter(m, s).state = s
           /\ SameAttempt(m, Enter(m, s)) /\ SameRecovery(m, Enter(m, s))
<1>1. InitialRetry \in InitialRetry..MaxRetry /\ 0 \in 0..MaxRetry
      /\ Idle \in Idle..AssociationTimeout
  BY SmokeAssumption DEF Idle
<1>2. QED
  BY <1>1 DEF Enter, SmokeRecord, SameAttempt, SameRecovery

LEMMA ScheduleRetryKeeps ==
    ASSUME NEW m \in SmokeRecord
    PROVE  /\ ScheduleRetry(m) \in SmokeRecord
           /\ SameStage(m, ScheduleRetry(m))
           /\ SameAttempt(m, ScheduleRetry(m)) /\ SameRecovery(m, ScheduleRetry(m))
<1>1. Doubled(m.retryDelay) \in InitialRetry..MaxRetry
  BY DoubledBounded DEF SmokeRecord
<1>2. m.retryDelay \in 0..MaxRetry
  BY SmokeAssumption DEF SmokeRecord
<1>3. QED
  BY <1>1, <1>2 DEF ScheduleRetry, SmokeRecord, SameStage, SameAttempt, SameRecovery

LEMMA ScheduleWifiRetryKeeps ==
    ASSUME NEW m \in SmokeRecord
    PROVE  /\ ScheduleWifiRetry(m) \in SmokeRecord
           /\ SameStage(m, ScheduleWifiRetry(m))
           /\ SameAttempt(m, ScheduleWifiRetry(m)) /\ SameRecovery(m, ScheduleWifiRetry(m))
<1>1. Doubled(m.wifiDelay) \in InitialRetry..MaxRetry
  BY DoubledBounded DEF SmokeRecord
<1>2. m.wifiDelay \in 0..MaxRetry
  BY SmokeAssumption DEF SmokeRecord
<1>3. QED
  BY <1>1, <1>2 DEF ScheduleWifiRetry, SmokeRecord, SameStage, SameAttempt, SameRecovery

(* A failure that is counted may ask for a recovery, and does nothing else *)
(* to the stage or to the association.                                     *)
LEMMA RecordFailureKeeps ==
    ASSUME NEW m \in SmokeRecord
    PROVE  /\ RecordFailure(m) \in SmokeRecord
           /\ SameStage(m, RecordFailure(m)) /\ SameAttempt(m, RecordFailure(m))
           /\ RecordFailure(m).awaiting = m.awaiting
<1>1. CASE m.failures + 1 < RecoveryThreshold
  BY <1>1, SmokeAssumption DEF RecordFailure, SmokeRecord, SameStage, SameAttempt
<1>2. CASE ~(m.failures + 1 < RecoveryThreshold) /\ m.cooldownIn > 0
  BY <1>2, SmokeAssumption DEF RecordFailure, SmokeRecord, SameStage, SameAttempt
<1>3. CASE ~(m.failures + 1 < RecoveryThreshold) /\ ~(m.cooldownIn > 0)
  <2>1. 0 \in 0..(RecoveryThreshold - 1) /\ RecoveryCooldown \in Idle..RecoveryCooldown
    BY SmokeAssumption DEF Idle
  <2>2. QED
    BY <1>3, <2>1 DEF RecordFailure, SmokeRecord, SameStage, SameAttempt
<1>4. QED
  BY <1>1, <1>2, <1>3

LEMMA ElapsedKeeps ==
    ASSUME NEW m \in SmokeRecord, NEW n \in Nat
    PROVE  /\ Elapsed(m, n) \in SmokeRecord
           /\ SameStage(m, Elapsed(m, n)) /\ SameRecovery(m, Elapsed(m, n))
           /\ Elapsed(m, n).attemptIn = TimeLeft(m.attemptIn, n)
<1>1. /\ m.retryIn \in Idle..MaxRetry /\ m.retryIn # Idle
      /\ m.wifiRetryIn \in Idle..MaxRetry /\ m.wifiRetryIn # Idle
  BY SmokeAssumption DEF SmokeRecord, Idle
<1>2. /\ TimeLeft(m.retryIn, n) \in 0..MaxRetry
      /\ TimeLeft(m.wifiRetryIn, n) \in 0..MaxRetry
  BY <1>1, TimeLeftRuns, SmokeAssumption
<1>3. /\ m.ntpIn \in Idle..NtpTimeout /\ m.attemptIn \in Idle..AssociationTimeout
      /\ m.confirmIn \in Idle..AssociationTimeout /\ m.cooldownIn \in Idle..RecoveryCooldown
  BY DEF SmokeRecord
<1>4. /\ TimeLeft(m.ntpIn, n) \in Idle..NtpTimeout
      /\ TimeLeft(m.attemptIn, n) \in Idle..AssociationTimeout
      /\ TimeLeft(m.confirmIn, n) \in Idle..AssociationTimeout
      /\ TimeLeft(m.cooldownIn, n) \in Idle..RecoveryCooldown
  BY <1>3, TimeLeftRuns, SmokeAssumption
<1>5. QED
  BY <1>2, <1>4 DEF Elapsed, SmokeRecord, SameStage, SameRecovery
----------------------------------------------------------------------------
(* The handlers of the coordinator.                                        *)

LEMMA AssociationStartedKeeps ==
    ASSUME NEW m \in SmokeRecord
    PROVE  /\ AssociationStarted(m) \in SmokeRecord
           /\ SameStage(m, AssociationStarted(m)) /\ SameRecovery(m, AssociationStarted(m))
           /\ m.attemptIn # Idle => AssociationStarted(m).attemptIn = AssociationTimeout
<1>1. AssociationTimeout \in Idle..AssociationTimeout
  BY SmokeAssumption DEF Idle
<1>2. QED
  BY <1>1 DEF AssociationStarted, SmokeRecord, SameStage, SameRecovery

LEMMA AssociationSucceededKeeps ==
    ASSUME NEW m \in SmokeRecord
    PROVE  /\ AssociationSucceeded(m) \in SmokeRecord
           /\ SameStage(m, AssociationSucceeded(m)) /\ SameRecovery(m, AssociationSucceeded(m))
<1>1. AssociationTimeout \in Idle..AssociationTimeout /\ Idle \in Idle..AssociationTimeout
  BY SmokeAssumption DEF Idle
<1>2. QED
  BY <1>1 DEF AssociationSucceeded, SmokeRecord, SameStage, SameRecovery

LEMMA AssociationFailedKeeps ==
    ASSUME NEW m \in SmokeRecord
    PROVE  /\ AssociationFailed(m) \in SmokeRecord
           /\ SameStage(m, AssociationFailed(m)) /\ SameRecovery(m, AssociationFailed(m))
<1>1. Idle \in Idle..AssociationTimeout
  BY SmokeAssumption DEF Idle
<1> DEFINE idled == [m EXCEPT !.attemptIn = Idle]
<1>2. idled \in SmokeRecord /\ SameStage(m, idled) /\ SameRecovery(m, idled)
  BY <1>1 DEF SmokeRecord, SameStage, SameRecovery
<1>3. AssociationFailed(m) \in {m, ScheduleWifiRetry(idled)}
  BY DEF AssociationFailed
<1> HIDE DEF idled
<1>4. QED
  BY <1>2, <1>3, ScheduleWifiRetryKeeps DEF SameStage, SameRecovery

(* What the result of an action may do: nothing before the link was seen   *)
(* up, and later neither leave the upper stages nor await anything.        *)
ResultOf(m, n) ==
    /\ n \in SmokeRecord /\ SameAttempt(m, n)
    /\ m.state = "wifi" => n = m
    /\ m.state # "wifi" => n.state # "wifi"
    /\ n.awaiting => m.awaiting

LEMMA DnsResultKeeps ==
    ASSUME NEW m \in SmokeRecord, NEW ok
    PROVE  ResultOf(m, DnsResult(m, ok))
<1>1. CASE m.state # "dns"
  BY <1>1 DEF DnsResult, ResultOf, SameAttempt
<1>2. CASE m.state = "dns" /\ ok
  BY <1>2, EnterKeeps DEF DnsResult, ResultOf, SameAttempt, SameRecovery, States
<1>3. CASE m.state = "dns" /\ ~ok
  <2>1. DnsResult(m, ok) = RecordFailure(ScheduleRetry(m))
    BY <1>3 DEF DnsResult
  <2>2. QED
    BY <1>3, <2>1, ScheduleRetryKeeps, RecordFailureKeeps
       DEF ResultOf, SameAttempt, SameRecovery, SameStage
<1>4. QED
  BY <1>1, <1>2, <1>3

LEMMA PreflightFailedKeeps ==
    ASSUME NEW m \in SmokeRecord
    PROVE  ResultOf(m, NetworkPreflightFailed(m))
<1>1. CASE m.state # "mqtt"
  BY <1>1 DEF NetworkPreflightFailed, ResultOf, SameAttempt
<1>2. CASE m.state = "mqtt"
  <2>1. NetworkPreflightFailed(m) = RecordFailure(Enter(m, "dns"))
    BY <1>2 DEF NetworkPreflightFailed
  <2>2. "dns" \in States
    BY DEF States
  <2>3. QED
    BY <1>2, <2>1, <2>2, EnterKeeps, RecordFailureKeeps
       DEF ResultOf, SameAttempt, SameRecovery, SameStage
<1>3. QED
  BY <1>1, <1>2

LEMMA MqttResultKeeps ==
    ASSUME NEW m \in SmokeRecord, NEW ok
    PROVE  ResultOf(m, MqttResult(m, ok))
<1>1. CASE m.state # "mqtt"
  BY <1>1 DEF MqttResult, ResultOf, SameAttempt
<1>2. CASE m.state = "mqtt" /\ ok
  <2>1. PICK e \in SmokeRecord : e = Enter(m, "online") /\ e.state = "online" /\ SameAttempt(m, e)
    BY EnterKeeps DEF States
  <2>2. /\ 0 \in 0..(RecoveryThreshold - 1) /\ Idle \in Idle..RecoveryCooldown
        /\ InitialRetry \in InitialRetry..MaxRetry
    BY SmokeAssumption DEF Idle
  <2>3. MqttResult(m, ok) = [e EXCEPT !.failures = 0, !.cooldownIn = Idle, !.recovery = FALSE,
                                      !.awaiting = FALSE, !.wifiDelay = InitialRetry]
    BY <1>2, <2>1 DEF MqttResult
  <2>4. QED
    BY <1>2, <2>1, <2>2, <2>3 DEF ResultOf, SameAttempt, SmokeRecord
<1>3. CASE m.state = "mqtt" /\ ~ok
  <2>1. MqttResult(m, ok) = RecordFailure(ScheduleRetry(m))
    BY <1>3 DEF MqttResult
  <2>2. QED
    BY <1>3, <2>1, ScheduleRetryKeeps, RecordFailureKeeps
       DEF ResultOf, SameAttempt, SameRecovery, SameStage
<1>4. QED
  BY <1>1, <1>2, <1>3

(* A pass without Wi-Fi returns to the first stage and awaits nothing; an  *)
(* attempt whose time is not over goes on.                                 *)
LEMMA OfflineKeeps ==
    ASSUME NEW m \in SmokeRecord, ~m.recovery
    PROVE  /\ Offline(m) \in SmokeRecord
           /\ Offline(m).state = "wifi" /\ ~Offline(m).recovery /\ ~Offline(m).awaiting
           /\ m.state = "wifi" /\ m.attemptIn > 0 => SameAttempt(m, Offline(m))
<1>1. /\ Idle \in Idle..AssociationTimeout /\ Idle \in Idle..NtpTimeout
      /\ 0 \in 0..MaxRetry /\ "wifi" \in States
  BY SmokeAssumption DEF Idle, States
<1>2. PICK a \in SmokeRecord :
          /\ a = [m EXCEPT !.awaiting = FALSE]
          /\ a.state = m.state /\ a.attemptIn = m.attemptIn /\ ~a.awaiting /\ ~a.recovery
  <2> DEFINE a == [m EXCEPT !.awaiting = FALSE]
  <2>1. a \in SmokeRecord
    BY DEF SmokeRecord
  <2>2. a.state = m.state /\ a.attemptIn = m.attemptIn
    BY DEF SmokeRecord
  <2>3. ~a.awaiting
    BY DEF SmokeRecord
  <2>4. a.recovery = m.recovery
    BY DEF SmokeRecord
  <2> HIDE DEF a
  <2>5. ~a.recovery
    BY <2>4
  <2>6. QED
    BY <2>1, <2>2, <2>3, <2>5 DEF a
<1>3. PICK b \in SmokeRecord :
          /\ b = LossNoticed(a)
          /\ b.state = "wifi" /\ ~b.awaiting /\ ~b.recovery
          /\ a.state = "wifi" => b = a
  <2>1. CASE a.state = "wifi"
    BY <1>2, <2>1 DEF LossNoticed
  <2>2. CASE a.state # "wifi"
    <3>1. PICK e \in SmokeRecord : e = Enter(a, "wifi") /\ e.state = "wifi" /\ SameRecovery(a, e)
      BY <1>1, EnterKeeps
    <3>2. LossNoticed(a) = [e EXCEPT !.ntpIn = Idle, !.attemptIn = Idle, !.wifiRetryIn = 0]
      BY <2>2, <3>1 DEF LossNoticed
    <3>3. LossNoticed(a) \in SmokeRecord
      BY <1>1, <3>1, <3>2 DEF SmokeRecord
    <3>4. /\ LossNoticed(a).state = "wifi"
          /\ ~LossNoticed(a).awaiting /\ ~LossNoticed(a).recovery
      BY <1>2, <3>1, <3>2 DEF SmokeRecord, SameRecovery
    <3>5. QED
      BY <2>2, <3>3, <3>4
  <2>3. QED
    BY <2>1, <2>2
<1>4. PICK c \in SmokeRecord :
          /\ c = AttemptExpired(b)
          /\ c.state = "wifi" /\ ~c.awaiting /\ ~c.recovery
          /\ b.attemptIn > 0 => c = b
  <2>1. CASE b.attemptIn # 0
    BY <1>3, <2>1 DEF AttemptExpired
  <2>2. CASE b.attemptIn = 0
    <3> DEFINE idled == [b EXCEPT !.attemptIn = Idle]
    <3>1. idled \in SmokeRecord /\ SameStage(b, idled) /\ SameRecovery(b, idled)
      BY <1>1, <1>3 DEF SmokeRecord, SameStage, SameRecovery
    <3>2. AttemptExpired(b) = ScheduleWifiRetry(idled)
      BY <2>2 DEF AttemptExpired
    <3> HIDE DEF idled
    <3>3. QED
      BY <1>3, <2>2, <3>1, <3>2, ScheduleWifiRetryKeeps DEF SameStage, SameRecovery
  <2>3. QED
    BY <2>1, <2>2
<1>5. /\ ConfirmExpired(c) \in SmokeRecord /\ ConfirmExpired(c).state = "wifi"
      /\ ~ConfirmExpired(c).awaiting /\ ~ConfirmExpired(c).recovery
      /\ c.attemptIn > 0 => ConfirmExpired(c) = c
  <2>1. CASE ~(c.attemptIn = Idle /\ c.confirmIn = 0)
    BY <1>4, <2>1 DEF ConfirmExpired
  <2>2. CASE c.attemptIn = Idle /\ c.confirmIn = 0
    <3> DEFINE idled == [c EXCEPT !.confirmIn = Idle]
    <3>1. idled \in SmokeRecord /\ SameStage(c, idled) /\ SameRecovery(c, idled)
      BY <1>1, <1>4 DEF SmokeRecord, SameStage, SameRecovery
    <3>2. ConfirmExpired(c) = ScheduleWifiRetry(idled)
      BY <2>2 DEF ConfirmExpired
    <3>3. ~(c.attemptIn > 0)
      BY <2>2 DEF Idle
    <3> HIDE DEF idled
    <3>4. QED
      BY <1>4, <3>1, <3>2, <3>3, ScheduleWifiRetryKeeps DEF SameStage, SameRecovery
  <2>3. QED
    BY <2>1, <2>2
<1>6. Offline(m) = ConfirmExpired(c)
  BY <1>2, <1>3, <1>4 DEF Offline
<1>7. ASSUME m.state = "wifi", m.attemptIn > 0
      PROVE  SameAttempt(m, Offline(m))
  <2>1. b = a
    BY <1>2, <1>3, <1>7
  <2>2. b.attemptIn = m.attemptIn /\ b.attemptIn > 0
    BY <1>2, <1>7, <2>1
  <2>3. Offline(m) = b
    BY <1>4, <1>5, <1>6, <2>2
  <2>4. QED
    BY <2>2, <2>3 DEF SameAttempt
<1>8. QED
  BY <1>5, <1>6, <1>7
----------------------------------------------------------------------------
(* update()                                                                *)

(* What update() may make of record r: a disconnect that is awaited leaves *)
(* it nothing to do while the link is up, and an attempt whose time is not *)
(* over keeps it from beginning another.                                   *)
UpdateResult(r, wifi, n, a) ==
    /\ n \in SmokeRecord /\ a \in Actions
    /\ ~n.recovery
    /\ n.awaiting => a \in {"None", "RecoverWifi"}
    /\ a = "RecoverWifi" => n.awaiting
    /\ r.awaiting /\ wifi => n.awaiting /\ a = "None"
    /\ n.state # "wifi" => wifi
    /\ a = "ConnectWifi" =>
          /\ n.state = "wifi" /\ n.attemptIn = AssociationTimeout
          /\ ~(r.state = "wifi" /\ r.attemptIn > 0)
    /\ ~wifi /\ r.state = "wifi" /\ r.attemptIn > 0 => SameAttempt(r, n)

(* A stage of the cascade over a link that is up.                          *)
LEMMA CascadeResult ==
    ASSUME NEW r \in SmokeRecord, NEW wifi, wifi, ~r.recovery, ~r.awaiting,
           NEW n \in SmokeRecord, SameRecovery(r, n),
           NEW a \in {"None", "ResolveDns", "ConfigureTime", "ConnectMqtt"}
    PROVE  UpdateResult(r, wifi, n, a)
<1>1. a \in Actions /\ a \notin {"ConnectWifi", "RecoverWifi"}
  BY DEF Actions
<1>2. ~n.recovery /\ ~n.awaiting
  BY DEF SameRecovery
<1>3. QED
  BY <1>1, <1>2 DEF UpdateResult

LEMMA UpdateRecoversResult ==
    ASSUME NEW r \in SmokeRecord, NEW wifi,
           r.awaiting => ~r.recovery, r.recovery => r.state # "wifi",
           UpdateRecovers(r)
    PROVE  UpdateResult(r, wifi, sm', todo')
<1>1. PICK e \in SmokeRecord : e = Enter(r, "wifi") /\ e.state = "wifi"
  BY EnterKeeps DEF States
<1>2. sm' = [e EXCEPT !.recovery = FALSE, !.ntpIn = Idle, !.attemptIn = Idle,
                      !.wifiRetryIn = 0, !.awaiting = TRUE]
  BY <1>1 DEF UpdateRecovers
<1>3. /\ Idle \in Idle..AssociationTimeout /\ Idle \in Idle..NtpTimeout
      /\ 0 \in 0..MaxRetry
  BY SmokeAssumption DEF Idle
<1>4. sm' \in SmokeRecord
  BY <1>1, <1>2, <1>3 DEF SmokeRecord
<1>5. sm'.state = "wifi" /\ ~sm'.recovery /\ sm'.awaiting
  BY <1>1, <1>2 DEF SmokeRecord
<1>6. todo' = "RecoverWifi" /\ r.state # "wifi" /\ ~r.awaiting
  BY DEF UpdateRecovers
<1>7. QED
  BY <1>4, <1>5, <1>6 DEF UpdateResult, Actions

LEMMA UpdateOfflineResult ==
    ASSUME NEW r \in SmokeRecord, NEW wifi,
           UpdateWaitsForWifi(r, wifi) \/ UpdateConnectsWifi(r, wifi)
    PROVE  UpdateResult(r, wifi, sm', todo')
<1>1. ~r.recovery /\ ~wifi
  BY DEF UpdateWaitsForWifi, UpdateConnectsWifi
<1>2. PICK m \in SmokeRecord :
          /\ m = Offline(r)
          /\ m.state = "wifi" /\ ~m.recovery /\ ~m.awaiting
          /\ r.state = "wifi" /\ r.attemptIn > 0 => SameAttempt(r, m)
  BY <1>1, OfflineKeeps
<1>3. CASE UpdateWaitsForWifi(r, wifi)
  <2>1. sm' = m /\ todo' = "None"
    BY <1>2, <1>3 DEF UpdateWaitsForWifi
  <2>2. QED
    BY <1>1, <1>2, <2>1 DEF UpdateResult, Actions
<1>4. CASE UpdateConnectsWifi(r, wifi)
  <2>1. sm' = [m EXCEPT !.attemptIn = AssociationTimeout] /\ todo' = "ConnectWifi"
    BY <1>2, <1>4 DEF UpdateConnectsWifi
  <2>2. m.attemptIn = Idle
    BY <1>2, <1>4 DEF UpdateConnectsWifi, MayBegin
  <2>3. ~(r.state = "wifi" /\ r.attemptIn > 0)
    BY <1>2, <2>2 DEF SameAttempt, Idle
  <2>4. AssociationTimeout \in Idle..AssociationTimeout
    BY SmokeAssumption DEF Idle
  <2>5. sm' \in SmokeRecord
    BY <2>1, <2>4 DEF SmokeRecord
  <2>6. sm'.state = "wifi" /\ sm'.attemptIn = AssociationTimeout
    BY <1>2, <2>1 DEF SmokeRecord
  <2>7. ~sm'.recovery /\ ~sm'.awaiting
    BY <1>2, <2>1 DEF SmokeRecord
  <2>8. QED
    BY <1>1, <2>1, <2>3, <2>5, <2>6, <2>7 DEF UpdateResult, Actions
<1>5. QED
  BY <1>3, <1>4

(* An action that falls due is issued once.                                *)
LEMMA IssuedKeeps ==
    ASSUME NEW m \in SmokeRecord
    PROVE  LET n == [m EXCEPT !.issued = @ \/ Due(m)]
           IN  n \in SmokeRecord /\ SameRecovery(m, n)
<1>1. (m.issued \/ Due(m)) \in BOOLEAN
  OBVIOUS
<1> DEFINE due == m.issued \/ Due(m)
           n == [m EXCEPT !.issued = due]
<1>2. due \in BOOLEAN
  BY <1>1
<1> HIDE DEF due
<1>3. n \in SmokeRecord /\ SameRecovery(m, n)
  BY <1>2 DEF SmokeRecord, SameRecovery
<1>4. QED
  BY <1>3 DEF due

LEMMA UpdateDnsResult ==
    ASSUME NEW r \in SmokeRecord, NEW wifi, UpdateDns(r, wifi)
    PROVE  UpdateResult(r, wifi, sm', todo')
<1>1. PICK m \in SmokeRecord : m = Linked(r) /\ SameRecovery(r, m)
  BY EnterKeeps DEF Linked, States, SameRecovery
<1>2. sm' = [m EXCEPT !.issued = @ \/ Due(m)] /\ todo' \in {"None", "ResolveDns"}
  BY <1>1 DEF UpdateDns
<1>3. sm' \in SmokeRecord /\ SameRecovery(r, sm')
  BY <1>1, <1>2, IssuedKeeps DEF SameRecovery
<1>4. wifi /\ ~r.recovery /\ ~r.awaiting
  BY DEF UpdateDns
<1>5. QED
  BY <1>2, <1>3, <1>4, CascadeResult

LEMMA UpdateTimeResult ==
    ASSUME NEW r \in SmokeRecord, NEW wifi, NEW timeValid, UpdateTime(r, wifi, timeValid)
    PROVE  UpdateResult(r, wifi, sm', todo')
<1>1. /\ Idle \in Idle..NtpTimeout /\ NtpTimeout \in Idle..NtpTimeout
  BY SmokeAssumption DEF Idle
<1>2. PICK m \in SmokeRecord : /\ m = [r EXCEPT !.ntpIn = IF @ = 0 THEN Idle ELSE @]
                               /\ SameRecovery(r, m)
  <2>1. PICK x \in Idle..NtpTimeout : x = IF r.ntpIn = 0 THEN Idle ELSE r.ntpIn
    BY <1>1 DEF SmokeRecord
  <2> DEFINE m == [r EXCEPT !.ntpIn = x]
  <2>2. m \in SmokeRecord /\ SameRecovery(r, m)
    BY DEF SmokeRecord, SameRecovery
  <2>3. m = [r EXCEPT !.ntpIn = IF @ = 0 THEN Idle ELSE @]
    BY <2>1
  <2> HIDE DEF m
  <2>4. QED
    BY <2>2, <2>3
<1>3. PICK k \in SmokeRecord : k = ScheduleRetry(m) /\ SameRecovery(m, k)
  BY ScheduleRetryKeeps
<1>4. sm' \in {m, [k EXCEPT !.ntpIn = NtpTimeout]} /\ todo' \in {"None", "ConfigureTime"}
  BY <1>2, <1>3 DEF UpdateTime
<1>5. sm' \in SmokeRecord /\ SameRecovery(r, sm')
  BY <1>1, <1>2, <1>3, <1>4 DEF SmokeRecord, SameRecovery
<1>6. wifi /\ ~r.recovery /\ ~r.awaiting
  BY DEF UpdateTime
<1>7. QED
  BY <1>4, <1>5, <1>6, CascadeResult

LEMMA UpdateMqttResult ==
    ASSUME NEW r \in SmokeRecord, NEW wifi, NEW timeValid, NEW mqttConnected,
           UpdateMqtt(r, wifi, timeValid, mqttConnected)
    PROVE  UpdateResult(r, wifi, sm', todo')
<1>1. Idle \in Idle..NtpTimeout /\ {"mqtt", "time", "online"} \subseteq States
  BY SmokeAssumption DEF Idle, States
<1>2. [r EXCEPT !.ntpIn = Idle] \in SmokeRecord /\ SameRecovery(r, [r EXCEPT !.ntpIn = Idle])
  BY <1>1 DEF SmokeRecord, SameRecovery
<1>3. PICK m \in SmokeRecord : m = Timed(r, timeValid) /\ SameRecovery(r, m)
  <2>1. Timed(r, timeValid) \in {r, Enter([r EXCEPT !.ntpIn = Idle], "mqtt")}
    BY DEF Timed
  <2>2. Timed(r, timeValid) \in SmokeRecord /\ SameRecovery(r, Timed(r, timeValid))
    <3>1. PICK t \in SmokeRecord : t = [r EXCEPT !.ntpIn = Idle] /\ SameRecovery(r, t)
      BY <1>2
    <3>2. Enter(t, "mqtt") \in SmokeRecord /\ SameRecovery(t, Enter(t, "mqtt"))
      BY <1>1, EnterKeeps
    <3>3. SameRecovery(r, r) /\ SameRecovery(r, Enter(t, "mqtt"))
      BY <3>1, <3>2 DEF SameRecovery
    <3>4. QED
      BY <2>1, <3>1, <3>2, <3>3
  <2>3. QED
    BY <2>2
<1>4. /\ sm' \in {Enter(m, "time"), Enter(m, "online"), [m EXCEPT !.issued = @ \/ Due(m)]}
      /\ todo' \in {"None", "ConnectMqtt"}
  BY <1>3 DEF UpdateMqtt
<1>5. sm' \in SmokeRecord /\ SameRecovery(r, sm')
  <2>1. /\ Enter(m, "time") \in SmokeRecord /\ SameRecovery(m, Enter(m, "time"))
        /\ Enter(m, "online") \in SmokeRecord /\ SameRecovery(m, Enter(m, "online"))
    BY <1>1, EnterKeeps
  <2>2. /\ [m EXCEPT !.issued = @ \/ Due(m)] \in SmokeRecord
        /\ SameRecovery(m, [m EXCEPT !.issued = @ \/ Due(m)])
    BY IssuedKeeps
  <2>3. \A n \in {Enter(m, "time"), Enter(m, "online"), [m EXCEPT !.issued = @ \/ Due(m)]} :
            n \in SmokeRecord /\ SameRecovery(m, n)
    BY <2>1, <2>2
  <2>4. SameRecovery(m, sm') => SameRecovery(r, sm')
    BY <1>3 DEF SameRecovery
  <2>5. QED
    BY <1>4, <2>3, <2>4
<1>6. wifi /\ ~r.recovery /\ ~r.awaiting
  BY DEF UpdateMqtt
<1>7. QED
  BY <1>4, <1>5, <1>6, CascadeResult

LEMMA UpdateOnlineResult ==
    ASSUME NEW r \in SmokeRecord, NEW wifi, NEW timeValid, NEW mqttConnected,
           UpdateOnline(r, wifi, timeValid, mqttConnected)
    PROVE  UpdateResult(r, wifi, sm', todo')
<1>1. {"mqtt", "time"} \subseteq States
  BY DEF States
<1>2. sm' \in {r, Enter(r, "mqtt"), Enter(r, "time")} /\ todo' = "None"
  BY DEF UpdateOnline
<1>3. sm' \in SmokeRecord /\ SameRecovery(r, sm')
  BY <1>1, <1>2, EnterKeeps DEF SameRecovery
<1>4. wifi /\ ~r.recovery /\ ~r.awaiting
  BY DEF UpdateOnline
<1>5. QED
  BY <1>2, <1>3, <1>4, CascadeResult

LEMMA UpdateKeeps ==
    ASSUME NEW r \in SmokeRecord, NEW wifi, NEW timeValid, NEW mqttConnected,
           r.awaiting => ~r.recovery, r.recovery => r.state # "wifi",
           Update(r, wifi, timeValid, mqttConnected)
    PROVE  UpdateResult(r, wifi, sm', todo')
<1>1. CASE UpdateRecovers(r)
  BY <1>1, UpdateRecoversResult
<1>2. CASE UpdateAwaits(r, wifi)
  BY <1>2 DEF UpdateAwaits, UpdateResult, Actions, SameAttempt
<1>3. CASE UpdateWaitsForWifi(r, wifi) \/ UpdateConnectsWifi(r, wifi)
  BY <1>3, UpdateOfflineResult
<1>4. CASE UpdateDns(r, wifi)
  BY <1>4, UpdateDnsResult
<1>5. CASE UpdateTime(r, wifi, timeValid)
  BY <1>5, UpdateTimeResult
<1>6. CASE UpdateMqtt(r, wifi, timeValid, mqttConnected)
  BY <1>6, UpdateMqttResult
<1>7. CASE UpdateOnline(r, wifi, timeValid, mqttConnected)
  BY <1>7, UpdateOnlineResult
<1>8. QED
  BY <1>1, <1>2, <1>3, <1>4, <1>5, <1>6, <1>7 DEF Update
----------------------------------------------------------------------------
(* The steps of the system, by what they do to connectivity.               *)

(* What the driver, the network and the manager do.                        *)
DriverStep ==
    \/ ReconnectsDirectly \/ ReceivesCredentials \/ Associates \/ LinkEnds
    \/ ManagerRetries \/ OnWifiEvent \/ IgnoresWifiEvent
    \/ TimeSynchronized \/ SessionDrops \/ NetworkHeals

ResultStep ==
    ResolveDns \/ ConfigureTime \/ PreflightFails \/ ConnectMqttFails \/ ConnectMqttSucceeds

BeginStep == ConnectWifi \/ BeginsStored

LeaveStep == RecoverWifi \/ RecoverWifiOnly

ReportStep == \E d \in 1..LongestPass : Report(d)

LEMMA Steps ==
    ASSUME Next
    PROVE  \/ UNCHANGED connectivityVars
           \/ DriverStep
           \/ Sample \/ DrainGotIp \/ DrainLostAndUpdate
           \/ ResultStep \/ BeginStep \/ LeaveStep \/ DefersConnectWifi
           \/ IsolatedLoop \/ ReportStep
<1>1. CASE Environment
  BY <1>1 DEF Environment, DriverStep, ProvisioningStarts, ProvisioningEnds, RadioAssociates,
     RadioLinkEnds, FlagsWifiEvent
<1>2. CASE MqttSmokeLoop
  BY <1>2 DEF MqttSmokeLoop, SharedSteps, ResultStep, BeginStep, LeaveStep
<1>3. CASE RingSimulatorLoop
  BY <1>3 DEF RingSimulatorLoop, SharedSteps, ResultStep, BeginStep, LeaveStep
<1>4. CASE BleMqttLoop
  BY <1>4 DEF BleMqttLoop, SharedSteps, ResultStep, BeginStep, LeaveStep,
     UpdateWindow, PassesWindowOver, StopsWindow, WindowSeen
<1>5. CASE IsolatedLoop
  BY <1>5
<1>6. CASE ReportPass
  BY <1>6 DEF ReportPass, ReportStep
<1>7. QED
  BY <1>1, <1>2, <1>3, <1>4, <1>5, <1>6 DEF Next, Loop

----------------------------------------------------------------------------
(* The onboarding: its timers keep their range, and no step that takes the *)
(* manager off the air leaves the window armed.                            *)

LEMMA TimeLeftOfRuns ==
    ASSUME NEW M \in Nat, NEW x \in Unarmed..M, NEW n \in 1..LongestPass
    PROVE  /\ TimeLeftOf(x, n) \in Unarmed..M
           /\ TimeLeftOf(x, n) = Unarmed <=> x = Unarmed
<1>1. n \in Nat
  BY ConnectivityAssumption
<1>2. QED
  BY <1>1 DEF TimeLeftOf, Unarmed

OnboardingOK == OnboardingKinds /\ WindowOnAir /\ OneTimer

LEMMA OnboardingInit == Init => OnboardingOK
<1>1. Unarmed \in Unarmed..ConfirmTimeout /\ Unarmed \in Unarmed..WindowLength
      /\ ConfirmTimeout \in Unarmed..ConfirmTimeout
  BY WindowAssumption DEF Unarmed
<1>2. SUFFICES ASSUME Init PROVE OnboardingOK
  OBVIOUS
<1>3. BleInit \/ NoBleInit
  BY <1>2 DEF Init, SetupBle, SetupIsolated
<1>4. BleTypeOK /\ windowIn = Unarmed
  BY <1>1, <1>3 DEF BleInit, NoBleInit, BleTypeOK
<1>5. QED
  BY <1>2, <1>4 DEF Init, OnboardingOK, OnboardingKinds, WindowOnAir, OneTimer

LEMMA OnboardingStep ==
    ASSUME OnboardingOK, [Next]_vars
    PROVE  OnboardingOK'
<1>1. /\ Unarmed \in Unarmed..ConfirmTimeout /\ Unarmed \in Unarmed..WindowLength
      /\ WindowLength \in Unarmed..WindowLength
  BY WindowAssumption DEF Unarmed
<1> USE <1>1 DEF OnboardingOK, OnboardingKinds, BleTypeOK, WindowOnAir, OnAir, OneTimer
<1>2. CASE UNCHANGED <<bleVars, image>>
  BY <1>2 DEF bleVars
<1>3. CASE ProvisioningStarts
  BY <1>3 DEF ProvisioningStarts, ProvStart, ConfirmStart, imageVars
<1>4. CASE ReconnectsDirectly
  <2>1. manager = "starting" /\ manager' = "off" /\ image' = image
    BY <1>4 DEF ReconnectsDirectly
  <2>2. CASE awaitingIn' = Unarmed /\ windowIn' = Unarmed /\ tooLate' = FALSE
    BY <2>1, <2>2
  <2>3. CASE UNCHANGED <<awaitingIn, windowIn, tooLate>>
    BY <2>1, <2>3
  <2>4. QED
    BY <1>4, <2>2, <2>3 DEF ReconnectsDirectly, Close
<1>5. CASE image' = image /\ (CredRecv \/ CredFail \/ CredSuccess)
  BY <1>5 DEF CredRecv, CredFail, CredSuccess
<1>6. CASE ProvisioningEnds
  BY <1>6 DEF ProvisioningEnds, ProvEnd, Close
<1>7. CASE UpdateWindow
  <2>1. CASE NothingDue /\ image' = image
    BY <1>2, <2>1 DEF NothingDue
  <2>2. CASE PassesWindowOver
    BY <2>2 DEF PassesWindowOver, WindowSeen, StartNotConfirmed, StartConfirmedTooLate
  <2>3. CASE StopsWindow
    BY <2>3 DEF StopsWindow, WindowSeen, WindowTimedOut, StopAdvertising
  <2>4. QED
    BY <1>7, <2>1, <2>2, <2>3 DEF UpdateWindow, WindowSeen
<1>8. CASE IsolatedLoop
  <2>1. image = "isolated" /\ image' = image
    BY <1>8 DEF IsolatedLoop, imageVars
  <2>2. CASE NothingDue
    BY <1>2, <2>1, <2>2 DEF NothingDue
  <2>3. CASE StartNotConfirmed /\ StopAdvertising
    <3>1. awaitingIn # Unarmed
      BY <2>3 DEF StartNotConfirmed, Unarmed
    <3>2. windowIn' = Unarmed /\ awaitingIn' = Unarmed /\ UNCHANGED tooLate
      BY <2>3, <3>1 DEF StartNotConfirmed
    <3>3. QED
      BY <2>1, <2>3, <3>2 DEF StopAdvertising
  <2>4. CASE StartConfirmedTooLate /\ StopAdvertising
    BY <2>1, <2>4 DEF StartConfirmedTooLate, StopAdvertising
  <2>5. CASE WindowTimedOut /\ StopAdvertising
    BY <2>1, <2>5 DEF WindowTimedOut, StopAdvertising
  <2>6. QED
    BY <1>8, <2>2, <2>3, <2>4, <2>5 DEF IsolatedLoop
<1>9. CASE ReportPass
  <2>1. PICK d \in 1..LongestPass :
            /\ awaitingIn' = TimeLeftOf(awaitingIn, d) /\ windowIn' = TimeLeftOf(windowIn, d)
            /\ UNCHANGED <<manager, tooLate, image>>
    BY <1>9 DEF ReportPass, imageVars
  <2>2. /\ awaitingIn' \in Unarmed..ConfirmTimeout /\ (awaitingIn' = Unarmed <=> awaitingIn = Unarmed)
        /\ windowIn' \in Unarmed..WindowLength /\ (windowIn' = Unarmed <=> windowIn = Unarmed)
    BY <2>1, TimeLeftOfRuns, WindowAssumption
  <2>3. QED
    BY <2>1, <2>2
<1>10. CASE Environment
  <2>1. \/ UNCHANGED <<bleVars, image>>
        \/ ProvisioningStarts \/ ReconnectsDirectly \/ ProvisioningEnds
        \/ image' = image /\ (CredRecv \/ CredFail \/ CredSuccess)
    BY <1>10 DEF Environment, ReceivesCredentials, RadioAssociates, RadioLinkEnds, ManagerRetries,
       FlagsWifiEvent, IgnoresWifiEvent, imageVars
  <2>2. QED
    BY <1>2, <1>3, <1>4, <1>5, <1>6, <2>1
<1>11. CASE MqttSmokeLoop \/ RingSimulatorLoop
  BY <1>2, <1>11 DEF MqttSmokeLoop, RingSimulatorLoop, imageVars
<1>12. CASE BleMqttLoop
  BY <1>2, <1>5, <1>7, <1>12 DEF BleMqttLoop, imageVars
<1>13. CASE UNCHANGED vars
  BY <1>2, <1>13 DEF vars, imageVars
<1>14. QED
  BY <1>8, <1>9, <1>10, <1>11, <1>12, <1>13 DEF Next, Loop
----------------------------------------------------------------------------
(* The loop and its radio.                                                 *)

LoopOK == ConnectivityKinds /\ Flags /\ PassOrder /\ Awaited /\ Left /\ Underway

(* The actions of the driver leave the loop alone.  They neither begin an  *)
(* association in the loop's name nor set out to leave one.                *)
LEMMA DriverLeavesLoop ==
    ASSUME LoopOK, DriverStep
    PROVE  /\ UNCHANGED <<smokeVars, phase, sawWifi, joinAge>>
           /\ radio' \in {"idle", "joining", "up", "leaving"}
           /\ undelivered' \in Seq({"gotIp", "lost"})
           /\ clock' \in {"never", "asked", "settling", "trusted"}
           /\ ~stale' \/ (stale' = stale /\ (stale => radio' = "leaving"))
<1> USE DEF LoopOK, ConnectivityKinds, Left, smokeVars, envVars, loopVars, historyVars
<1>1. CASE ReconnectsDirectly
  BY <1>1 DEF ReconnectsDirectly
<1>2. CASE ReceivesCredentials
  BY <1>2 DEF ReceivesCredentials
<1>3. CASE Associates
  BY <1>3 DEF Associates
<1>4. CASE LinkEnds
  BY <1>4 DEF LinkEnds
<1>5. CASE ManagerRetries
  BY <1>5 DEF ManagerRetries
<1>6. CASE OnWifiEvent
  BY <1>6 DEF OnWifiEvent
<1>7. CASE IgnoresWifiEvent
  BY <1>7 DEF IgnoresWifiEvent
<1>8. CASE TimeSynchronized \/ SessionDrops \/ NetworkHeals
  BY <1>8 DEF TimeSynchronized, SessionDrops, NetworkHeals
<1>9. QED
  BY <1>1, <1>2, <1>3, <1>4, <1>5, <1>6, <1>7, <1>8 DEF DriverStep

(* The invariant of the loop but for its flags.                            *)
Control == ConnectivityKinds /\ PassOrder /\ Awaited /\ Left /\ Underway

LEMMA DriverControl ==
    ASSUME LoopOK, DriverStep
    PROVE  Control'
<1>1. /\ sm' = sm /\ todo' = todo /\ phase' = phase /\ sawWifi' = sawWifi /\ joinAge' = joinAge
      /\ radio' \in {"idle", "joining", "up", "leaving"}
      /\ undelivered' \in Seq({"gotIp", "lost"})
      /\ clock' \in {"never", "asked", "settling", "trusted"}
      /\ ~stale' \/ (stale' = stale /\ (stale => radio' = "leaving"))
  BY DriverLeavesLoop DEF smokeVars
<1>2. ConnectivityKinds' /\ PassOrder' /\ Awaited'
  BY <1>1 DEF LoopOK, ConnectivityKinds, SmokeTypeOK, PassOrder, Awaited
<1>3. Left'
  BY <1>1 DEF LoopOK, Left
<1>4. Underway'
  BY <1>1 DEF LoopOK, Underway, Joining
<1>5. QED
  BY <1>2, <1>3, <1>4 DEF Control

LEMMA SampleControl ==
    ASSUME LoopOK, Sample
    PROVE  Control'
<1> USE DEF LoopOK, Sample, Status, smokeVars, envVars
<1>1. /\ sm' = sm /\ todo' = todo /\ phase = "sample" /\ phase' = "gotIp"
      /\ sawWifi' = Status /\ stale' = stale
      /\ UNCHANGED <<radio, undelivered, clock>>
      /\ joinAge' \in {Idle, joinAge} /\ (Status => joinAge' = Idle)
  OBVIOUS
<1>2. Idle \in Idle..AssociationTimeout
  BY SmokeAssumption DEF Idle
<1>3. ConnectivityKinds' /\ Awaited'
  BY <1>1, <1>2 DEF ConnectivityKinds, SmokeTypeOK, Awaited
<1>4. PassOrder'
  <2>1. todo' = "None"
    BY <1>1 DEF PassOrder
  <2>2. sawWifi' => phase' = "gotIp" /\ joinAge' = Idle
    BY <1>1
  <2>3. QED
    BY <2>1, <2>2 DEF PassOrder
<1>5. Left'
  <2>1. ASSUME stale PROVE Status
    BY <2>1 DEF Left
  <2>2. stale => sawWifi'
    BY <1>1, <2>1
  <2>3. QED
    BY <1>1, <2>2 DEF Left
<1>6. Underway'
  BY <1>1 DEF Underway, Joining
<1>7. QED
  BY <1>3, <1>4, <1>5, <1>6 DEF Control

LEMMA DrainGotIpControl ==
    ASSUME LoopOK, DrainGotIp
    PROVE  Control'
<1> USE DEF LoopOK, DrainGotIp, envVars
<1>1. /\ phase = "gotIp" /\ phase' = "lost" /\ todo' = todo
      /\ UNCHANGED <<radio, undelivered, clock, sawWifi, stale>>
  OBVIOUS
<1>2. Idle \in Idle..AssociationTimeout
  BY SmokeAssumption DEF Idle
<1>3. /\ sm' \in SmokeRecord /\ SameStage(sm, sm') /\ SameRecovery(sm, sm')
      /\ joinAge' = Idle \/ (joinAge' = joinAge /\ sm' = sm)
  BY AssociationSucceededKeeps DEF ConnectivityKinds, SmokeTypeOK, SameStage, SameRecovery
<1>4. ConnectivityKinds'
  BY <1>1, <1>2, <1>3 DEF ConnectivityKinds, SmokeTypeOK
<1>5. PassOrder' /\ Awaited' /\ Left'
  BY <1>1, <1>3 DEF PassOrder, Awaited, Left, SameRecovery
<1>6. Underway'
  BY <1>1, <1>3 DEF Underway, Joining, SameStage, SameRecovery, PassOrder
<1>7. QED
  BY <1>4, <1>5, <1>6 DEF Control

LEMMA DrainLostAndUpdateControl ==
    ASSUME LoopOK, DrainLostAndUpdate
    PROVE  Control'
<1> USE DEF LoopOK, envVars
<1>1. /\ phase = "lost" /\ ~sawWifi'
      /\ phase' = (IF todo' = "None" THEN "report" ELSE "act")
      /\ UNCHANGED <<radio, undelivered, clock, stale>>
  BY DEF DrainLostAndUpdate
<1>2. sm \in SmokeRecord
  BY DEF ConnectivityKinds, SmokeTypeOK
<1>3. PICK r \in SmokeRecord :
          /\ Update(r, sawWifi, HasValidTime, session)
          /\ SameStage(sm, r) /\ SameRecovery(sm, r)
          /\ joinAge' = Idle \/ (joinAge' = joinAge /\ r = sm)
  <2>1. CASE lost
    BY <1>2, <2>1, AssociationFailedKeeps DEF DrainLostAndUpdate
  <2>2. CASE ~lost
    BY <1>2, <2>2 DEF DrainLostAndUpdate, SameStage, SameRecovery
  <2>3. QED
    BY <2>1, <2>2
<1>4. UpdateResult(r, sawWifi, sm', todo')
  <2>1. (r.awaiting => ~r.recovery) /\ (r.recovery => r.state # "wifi")
    BY <1>3 DEF Awaited, Underway, SameStage, SameRecovery
  <2>2. QED
    BY <1>3, <2>1, UpdateKeeps
<1>5. Idle \in Idle..AssociationTimeout
  BY SmokeAssumption DEF Idle
<1>6. ConnectivityKinds'
  BY <1>1, <1>3, <1>4, <1>5 DEF ConnectivityKinds, SmokeTypeOK, UpdateResult
<1>7. PassOrder' /\ Awaited'
  BY <1>1, <1>4 DEF PassOrder, Awaited, UpdateResult
<1>8. Left'
  BY <1>1, <1>3, <1>4 DEF Left, UpdateResult, SameRecovery
<1>9. ASSUME Joining'
      PROVE  /\ ~sawWifi /\ r = sm /\ joinAge' = joinAge
             /\ r.state = "wifi" /\ r.attemptIn > 0 /\ r.attemptIn = AssociationTimeout - joinAge
  <2>1. r = sm /\ joinAge' = joinAge /\ Joining
    BY <1>3, <1>9 DEF Joining
  <2>2. ~sawWifi /\ sm.state = "wifi" /\ sm.attemptIn = AssociationTimeout - joinAge
    BY <2>1 DEF Joining, PassOrder, Underway
  <2>3. joinAge \in Nat /\ joinAge < AssociationTimeout
    BY <2>1, SmokeAssumption DEF Joining, ConnectivityKinds, Idle
  <2>4. QED
    BY <2>1, <2>2, <2>3, SmokeAssumption
<1>10. Underway'
  <2>1. sm'.state # "wifi" => joinAge' = Idle
    BY <1>3, <1>4 DEF UpdateResult, PassOrder
  <2>2. ~sm'.recovery
    BY <1>4 DEF UpdateResult
  <2>3. Joining' => sm'.attemptIn = AssociationTimeout - joinAge'
    BY <1>4, <1>9 DEF UpdateResult, SameAttempt
  <2>4. todo' = "ConnectWifi" =>
            sm'.state = "wifi" /\ sm'.attemptIn = AssociationTimeout /\ ~Joining'
    BY <1>4, <1>9 DEF UpdateResult
  <2>5. QED
    BY <2>1, <2>2, <2>3, <2>4 DEF Underway
<1>11. QED
  BY <1>6, <1>7, <1>8, <1>10 DEF Control

LEMMA ResultControl ==
    ASSUME LoopOK, ResultStep
    PROVE  Control'
<1> USE DEF LoopOK, envVars
<1>1. sm \in SmokeRecord
  BY DEF ConnectivityKinds, SmokeTypeOK
<1>2. /\ phase = "act" /\ phase' = "report"
      /\ todo \in {"ResolveDns", "ConfigureTime", "ConnectMqtt"} /\ todo' = "None"
      /\ UNCHANGED <<radio, undelivered, stale, sawWifi, joinAge>>
      /\ clock' \in {clock, "asked"}
  BY DEF ResultStep, ResolveDns, ConfigureTime, PreflightFails, ConnectMqttFails,
     ConnectMqttSucceeds, Performs, historyVars
<1>3. ResultOf(sm, sm')
  <2>1. CASE ResolveDns
    BY <1>1, <2>1, DnsResultKeeps DEF ResolveDns
  <2>2. CASE ConfigureTime
    BY <1>1, <2>2 DEF ConfigureTime, ResultOf, SameAttempt
  <2>3. CASE PreflightFails
    BY <1>1, <2>3, PreflightFailedKeeps DEF PreflightFails
  <2>4. CASE ConnectMqttFails \/ ConnectMqttSucceeds
    BY <1>1, <2>4, MqttResultKeeps DEF ConnectMqttFails, ConnectMqttSucceeds
  <2>5. QED
    BY <2>1, <2>2, <2>3, <2>4 DEF ResultStep
<1>4. ConnectivityKinds'
  BY <1>2, <1>3 DEF ConnectivityKinds, SmokeTypeOK, ResultOf, Actions
<1>5. PassOrder' /\ Awaited' /\ Left'
  BY <1>2, <1>3 DEF PassOrder, Awaited, Left, ResultOf
<1>6. Underway'
  BY <1>2, <1>3 DEF Underway, Joining, ResultOf, SameAttempt
<1>7. QED
  BY <1>4, <1>5, <1>6 DEF Control

LEMMA BeginControl ==
    ASSUME LoopOK, BeginStep
    PROVE  Control'
<1> USE DEF LoopOK
<1>1. sm \in SmokeRecord /\ todo = "ConnectWifi" /\ sm.attemptIn # Idle /\ sm.state = "wifi"
  BY SmokeAssumption DEF ConnectivityKinds, SmokeTypeOK, BeginStep, ConnectWifi, BeginsStored,
     Performs, Underway, Idle
<1>2. /\ phase = "act" /\ phase' = "report" /\ todo' = "None"
      /\ radio' = "joining" /\ joinAge' = 0
      /\ undelivered' \in {undelivered, Append(undelivered, "lost")}
      /\ UNCHANGED <<clock, stale, sawWifi>>
  BY DEF BeginStep, ConnectWifi, BeginsStored, BeginAssociation, Performs
<1>3. PICK m \in SmokeRecord :
          /\ sm' = AssociationStarted(m)
          /\ SameStage(sm, m) /\ SameRecovery(sm, m) /\ m.attemptIn # Idle
  <2>1. CASE sm' = AssociationStarted(sm)
    BY <1>1, <2>1 DEF SameStage, SameRecovery
  <2>2. CASE sm' = AssociationStarted(Elapsed(sm, ScanTime))
    <3>1. ScanTime \in Nat /\ AssociationTimeout \in Nat
      BY ConnectivityAssumption, SmokeAssumption
    <3>2. sm.attemptIn \in Idle..AssociationTimeout
      BY <1>1 DEF SmokeRecord
    <3>3. TimeLeft(sm.attemptIn, ScanTime) # Idle
      BY <1>1, <3>1, <3>2, TimeLeftRuns
    <3>4. QED
      BY <1>1, <2>2, <3>1, <3>3, ElapsedKeeps
  <2>3. QED
    BY <2>1, <2>2 DEF BeginStep, ConnectWifi, BeginsStored, BeginAssociation
<1>4. /\ sm' \in SmokeRecord /\ sm'.state = "wifi" /\ SameRecovery(sm, sm')
      /\ sm'.attemptIn = AssociationTimeout
  BY <1>1, <1>3, AssociationStartedKeeps DEF SameStage, SameRecovery
<1>5. ConnectivityKinds'
  <2>1. 0 \in Idle..AssociationTimeout
    BY SmokeAssumption DEF Idle
  <2>2. undelivered' \in Seq({"gotIp", "lost"})
    BY <1>2 DEF ConnectivityKinds
  <2>3. QED
    BY <1>2, <1>4, <2>1, <2>2 DEF ConnectivityKinds, SmokeTypeOK, Actions
<1>6. PassOrder' /\ Awaited' /\ Left'
  BY <1>1, <1>2, <1>4 DEF PassOrder, Awaited, Left, SameRecovery
<1>7. Underway'
  <2>1. ~sm'.recovery
    BY <1>1, <1>4 DEF Underway, SameRecovery
  <2>2. sm'.attemptIn = AssociationTimeout - joinAge'
    BY <1>2, <1>4, SmokeAssumption
  <2>3. QED
    BY <1>2, <1>4, <2>1, <2>2 DEF Underway
<1>8. QED
  BY <1>5, <1>6, <1>7 DEF Control

LEMMA LeaveControl ==
    ASSUME LoopOK, LeaveStep
    PROVE  Control'
<1> USE DEF LoopOK
<1>1. /\ phase = "act" /\ phase' = "report" /\ todo = "RecoverWifi" /\ todo' = "None"
      /\ UNCHANGED <<sm, clock, sawWifi, joinAge>>
      /\ radio' \in {"leaving", "idle"} /\ (stale' => radio' = "leaving")
      /\ undelivered' \in {undelivered, Append(undelivered, "lost")}
  BY DEF LeaveStep, RecoverWifi, RecoverWifiOnly, Leave, Performs
<1>2. ConnectivityKinds'
  <2>1. undelivered' \in Seq({"gotIp", "lost"})
    BY <1>1 DEF ConnectivityKinds
  <2>2. QED
    BY <1>1, <2>1 DEF ConnectivityKinds, SmokeTypeOK, Actions
<1>3. PassOrder' /\ Awaited' /\ Left'
  BY <1>1 DEF PassOrder, Awaited, Left
<1>4. Underway'
  BY <1>1 DEF Underway, Joining
<1>5. QED
  BY <1>2, <1>3, <1>4 DEF Control

(* A connect that is deferred, and a pass of the isolated image.           *)
LEMMA IdlePassControl ==
    ASSUME LoopOK, DefersConnectWifi \/ IsolatedLoop
    PROVE  Control'
<1> USE DEF LoopOK
<1>1. /\ phase \in {"act", "sample"} /\ phase' = "report" /\ todo' \in {todo, "None"}
      /\ phase = "act" \/ todo' = todo
      /\ phase = "act" => todo = "ConnectWifi" /\ todo' = "None"
      /\ UNCHANGED <<sm, radio, undelivered, clock, sawWifi, joinAge, stale>>
  BY DEF DefersConnectWifi, IsolatedLoop, Performs, smokeVars, envVars, historyVars
<1>2. todo' = "None"
  BY <1>1 DEF PassOrder
<1>3. ConnectivityKinds'
  BY <1>1, <1>2 DEF ConnectivityKinds, SmokeTypeOK, Actions
<1>4. PassOrder' /\ Awaited' /\ Left'
  BY <1>1, <1>2 DEF PassOrder, Awaited, Left
<1>5. Underway'
  BY <1>1, <1>2 DEF Underway, Joining
<1>6. QED
  BY <1>3, <1>4, <1>5 DEF Control

LEMMA ReportControl ==
    ASSUME LoopOK, ReportStep
    PROVE  Control'
<1> USE DEF LoopOK
<1>1. PICK d \in 1..LongestPass : Report(d)
  BY DEF ReportStep
<1>2. d \in Nat /\ d >= 1 /\ AssociationTimeout \in Nat /\ AssociationTimeout >= 1
  BY ConnectivityAssumption, SmokeAssumption
<1>3. /\ phase = "report" /\ phase' = "sample"
      /\ UNCHANGED <<todo, radio, undelivered, sawWifi, stale>>
      /\ sm' = Elapsed(sm, d)
      /\ clock' \in {clock, "trusted", "settling"}
  BY <1>1 DEF Report, PassTime
<1>4. /\ joinAge = Idle => joinAge' = Idle
      /\ joinAge # Idle /\ joinAge + d < AssociationTimeout => joinAge' = joinAge + d
      /\ joinAge # Idle /\ ~(joinAge + d < AssociationTimeout) => joinAge' = AssociationTimeout
  BY <1>1 DEF Report, PassTime
<1>5. sm \in SmokeRecord /\ joinAge \in Idle..AssociationTimeout /\ todo = "None"
  BY <1>3 DEF ConnectivityKinds, SmokeTypeOK, PassOrder
<1>6. /\ sm' \in SmokeRecord /\ SameStage(sm, sm') /\ SameRecovery(sm, sm')
      /\ sm'.attemptIn = TimeLeft(sm.attemptIn, d)
  BY <1>2, <1>3, <1>5, ElapsedKeeps
<1>7. joinAge' \in Idle..AssociationTimeout
  BY <1>2, <1>4, <1>5 DEF Idle
<1>8. ConnectivityKinds'
  BY <1>3, <1>6, <1>7 DEF ConnectivityKinds, SmokeTypeOK
<1>9. PassOrder' /\ Awaited' /\ Left'
  BY <1>3, <1>4, <1>6 DEF PassOrder, Awaited, Left, SameRecovery
<1>10. Joining' => sm'.attemptIn = AssociationTimeout - joinAge'
  <2>1. SUFFICES ASSUME Joining' PROVE sm'.attemptIn = AssociationTimeout - joinAge'
    OBVIOUS
  <2>2. joinAge # Idle /\ joinAge + d < AssociationTimeout /\ joinAge' = joinAge + d /\ joinAge \in Nat
    BY <1>4, <1>5, <2>1 DEF Joining, Idle
  <2>3. sm.attemptIn = AssociationTimeout - joinAge
    BY <1>2, <2>2 DEF Joining, Underway
  <2>4. PICK x \in Nat : x = sm.attemptIn /\ x > d
    BY <1>2, <2>2, <2>3
  <2>5. TimeLeft(x, d) = x - d
    BY <2>4 DEF TimeLeft
  <2>6. QED
    BY <1>2, <1>6, <2>2, <2>3, <2>4, <2>5
<1>11. Underway'
  BY <1>3, <1>4, <1>5, <1>6, <1>10 DEF Underway, SameStage, SameRecovery
<1>12. QED
  BY <1>8, <1>9, <1>11 DEF Control
----------------------------------------------------------------------------
(* The flags, and the session's report of health.                          *)

LEMMA FlagsStep ==
    ASSUME Flags, [Next]_vars
    PROVE  Flags'
<1> USE DEF Flags, envVars, loopVars, historyVars, imageVars
<1>1. CASE ProvisioningStarts
  BY <1>1 DEF ProvisioningStarts, connectivityVars
<1>2. CASE ReconnectsDirectly
  BY <1>2 DEF ReconnectsDirectly
<1>3. CASE ReceivesCredentials
  BY <1>3 DEF ReceivesCredentials
<1>4. CASE RadioAssociates
  BY <1>4 DEF RadioAssociates, Associates
<1>5. CASE RadioLinkEnds
  BY <1>5 DEF RadioLinkEnds, LinkEnds
<1>6. CASE ManagerRetries
  BY <1>6 DEF ManagerRetries
<1>7. CASE ProvisioningEnds
  BY <1>7 DEF ProvisioningEnds, connectivityVars
<1>8. CASE FlagsWifiEvent
  BY <1>8 DEF FlagsWifiEvent, OnWifiEvent
<1>9. CASE IgnoresWifiEvent
  BY <1>9 DEF IgnoresWifiEvent
<1>10. CASE UNCHANGED imageVars /\ (TimeSynchronized \/ SessionDrops \/ NetworkHeals)
  <2>1. CASE TimeSynchronized
    BY <1>10, <2>1 DEF TimeSynchronized
  <2>2. CASE SessionDrops
    BY <1>10, <2>2 DEF SessionDrops
  <2>3. CASE NetworkHeals
    BY <1>10, <2>3 DEF NetworkHeals
  <2>4. QED
    BY <1>10, <2>1, <2>2, <2>3
<1>11. CASE UpdateWindow
  <2>1. UNCHANGED connectivityVars /\ windowSeen' = TRUE
    BY <1>11 DEF UpdateWindow, PassesWindowOver, StopsWindow, WindowSeen
  <2>2. UNCHANGED bleOwnsWifi \/ bleOwnsWifi' = FALSE
    BY <1>11 DEF UpdateWindow, PassesWindowOver, StopsWindow
  <2>3. bleOwnsWifi' \in BOOLEAN /\ windowSeen' \in BOOLEAN
    BY <2>1, <2>2
  <2>4. UNCHANGED <<sawWifi, gotIp, lost, session, subscribed, forced, scanned, stored, healthy,
                    stale, announced>>
    BY <2>1 DEF connectivityVars
  <2>5. QED
    BY <2>3, <2>4
<1>12. CASE Sample /\ UNCHANGED bleOwnsWifi /\ (windowSeen' = FALSE \/ UNCHANGED windowSeen)
  <2>1. /\ sawWifi' = Status
        /\ session' = (session /\ Status /\ HasValidTime)
        /\ subscribed' = (subscribed /\ session')
        /\ UNCHANGED <<stored, healthy, gotIp, lost, forced, scanned, stale, announced>>
    BY <1>12 DEF Sample
  <2>2. sawWifi' \in BOOLEAN
    BY <2>1 DEF Status
  <2>3. session' \in BOOLEAN /\ subscribed' \in BOOLEAN
    BY <2>1
  <2>4. windowSeen' \in BOOLEAN
    BY <1>12
  <2>5. QED
    BY <1>12, <2>1, <2>2, <2>3, <2>4
<1>13. CASE UNCHANGED imageVars /\ (DrainGotIp \/ DrainLostAndUpdate)
  <2>1. CASE DrainGotIp
    BY <1>13, <2>1 DEF DrainGotIp
  <2>2. CASE DrainLostAndUpdate
    BY <1>13, <2>2 DEF DrainLostAndUpdate
  <2>3. QED
    BY <1>13, <2>1, <2>2
<1>14. CASE UNCHANGED imageVars /\ ResultStep
  <2>1. CASE ResolveDns
    BY <1>14, <2>1 DEF ResolveDns
  <2>2. CASE ConfigureTime
    BY <1>14, <2>2 DEF ConfigureTime
  <2>3. CASE PreflightFails
    BY <1>14, <2>3 DEF PreflightFails
  <2>4. CASE ConnectMqttFails
    BY <1>14, <2>4 DEF ConnectMqttFails
  <2>5. CASE ConnectMqttSucceeds
    BY <1>14, <2>5 DEF ConnectMqttSucceeds
  <2>6. QED
    BY <1>14, <2>1, <2>2, <2>3, <2>4, <2>5 DEF ResultStep
<1>15. CASE UNCHANGED imageVars /\ (BeginStep \/ DefersConnectWifi)
  <2>1. CASE ConnectWifi
    BY <1>15, <2>1 DEF ConnectWifi
  <2>2. CASE BeginsStored
    BY <1>15, <2>2 DEF BeginsStored
  <2>3. CASE DefersConnectWifi
    BY <1>15, <2>3 DEF DefersConnectWifi
  <2>4. QED
    BY <1>15, <2>1, <2>2, <2>3 DEF BeginStep
<1>16. CASE UNCHANGED imageVars /\ LeaveStep
  BY <1>16 DEF LeaveStep, RecoverWifi, RecoverWifiOnly, Leave
<1>17. CASE IsolatedLoop
  BY <1>17 DEF IsolatedLoop
<1>18. CASE ReportPass
  <2>1. /\ UNCHANGED <<stored, healthy, sawWifi, gotIp, lost, subscribed, scanned, stale>>
        /\ UNCHANGED <<bleOwnsWifi, windowSeen>>
    BY <1>18 DEF ReportPass, Report
  <2>2. PublishHealth
    BY <1>18 DEF ReportPass, Report
  <2>3. forced' = (forced /\ ~ReportDue)
    BY <2>2 DEF PublishHealth
  <2>4. forced' \in BOOLEAN
    BY <2>3
  <2>5. UNCHANGED session \/ session' = FALSE
    BY <2>2 DEF PublishHealth
  <2>6. UNCHANGED announced \/ announced' = (announced \/ (session /\ Status /\ HasValidTime))
    BY <2>2 DEF PublishHealth
  <2>7. announced' \in BOOLEAN
    BY <2>6
  <2>8. QED
    BY <2>1, <2>4, <2>5, <2>7
<1>19. CASE UNCHANGED vars
  BY <1>19 DEF vars, connectivityVars
<1>20. CASE Environment
  BY <1>1, <1>2, <1>3, <1>4, <1>5, <1>6, <1>7, <1>8, <1>9, <1>10, <1>20 DEF Environment
<1>21. CASE MqttSmokeLoop \/ RingSimulatorLoop
  BY <1>12, <1>13, <1>14, <1>15, <1>16, <1>21
     DEF MqttSmokeLoop, RingSimulatorLoop, SharedSteps, ResultStep, BeginStep, LeaveStep
<1>22. CASE BleMqttLoop
  BY <1>11, <1>12, <1>13, <1>14, <1>15, <1>16, <1>22
     DEF BleMqttLoop, SharedSteps, ResultStep, BeginStep, LeaveStep
<1>23. QED
  BY <1>17, <1>18, <1>19, <1>20, <1>21, <1>22 DEF Next, Loop

(* A session begins with a report that is forced; what uses it up is the   *)
(* report itself, or the end of the session.                               *)
LEMMA AnnouncedStep ==
    ASSUME AnnouncedOnReconnect, [Next]_vars
    PROVE  AnnouncedOnReconnect'
<1> USE DEF AnnouncedOnReconnect, envVars, loopVars, historyVars
<1>1. CASE UNCHANGED connectivityVars
  BY <1>1 DEF connectivityVars
<1>2. CASE DriverStep
  BY <1>2 DEF DriverStep, ReconnectsDirectly, ReceivesCredentials, Associates, LinkEnds,
     ManagerRetries, OnWifiEvent, IgnoresWifiEvent, TimeSynchronized, SessionDrops, NetworkHeals
<1>3. CASE Sample \/ DrainGotIp \/ DrainLostAndUpdate
  BY <1>3 DEF Sample, DrainGotIp, DrainLostAndUpdate
<1>4. CASE ResultStep
  BY <1>4 DEF ResultStep, ResolveDns, ConfigureTime, PreflightFails, ConnectMqttFails,
     ConnectMqttSucceeds
<1>5. CASE BeginStep \/ LeaveStep \/ DefersConnectWifi \/ IsolatedLoop
  BY <1>5 DEF BeginStep, ConnectWifi, BeginsStored, LeaveStep, RecoverWifi, RecoverWifiOnly,
     DefersConnectWifi, IsolatedLoop
<1>6. CASE ReportStep
  <2>1. PublishHealth
    BY <1>6 DEF ReportStep, Report
  <2>2. CASE ReportDue
    BY <2>1, <2>2 DEF PublishHealth, ReportDue
  <2>3. CASE ~ReportDue
    BY <2>1, <2>3 DEF PublishHealth
  <2>4. QED
    BY <2>2, <2>3
<1>7. CASE UNCHANGED vars
  BY <1>1, <1>7 DEF vars
<1>8. QED
  BY <1>1, <1>2, <1>3, <1>4, <1>5, <1>6, <1>7, Steps

----------------------------------------------------------------------------
(* The theorems.                                                           *)

LEMMA LoopInit == Init => LoopOK /\ AnnouncedOnReconnect
<1> SUFFICES ASSUME Init PROVE LoopOK /\ AnnouncedOnReconnect
  OBVIOUS
<1> USE DEF Init, ConnectivityInit, SmokeInit
<1>1. /\ Idle \in Idle..NtpTimeout /\ Idle \in Idle..AssociationTimeout
      /\ Idle \in Idle..RecoveryCooldown /\ 0 \in 0..MaxRetry
      /\ InitialRetry \in InitialRetry..MaxRetry /\ 0 \in 0..(RecoveryThreshold - 1)
  BY SmokeAssumption DEF Idle
<1>2. sm \in SmokeRecord
  BY <1>1 DEF SmokeRecord, States
<1>3. sm.state = "wifi" /\ ~sm.recovery /\ ~sm.awaiting
  OBVIOUS
<1>4. ConnectivityKinds
  BY <1>1, <1>2 DEF ConnectivityKinds, SmokeTypeOK, Actions
<1>5. Flags
  BY DEF Flags, SetupBle, SetupIsolated, BleInit
<1>6. PassOrder /\ Left /\ AnnouncedOnReconnect
  BY DEF PassOrder, Left, AnnouncedOnReconnect
<1>7. Awaited /\ Underway
  BY <1>3 DEF Awaited, Underway, Joining
<1>8. QED
  BY <1>4, <1>5, <1>6, <1>7 DEF LoopOK

LEMMA ControlStep ==
    ASSUME LoopOK, [Next]_vars
    PROVE  Control'
<1>1. CASE UNCHANGED connectivityVars
  BY <1>1 DEF connectivityVars, smokeVars, envVars, loopVars, historyVars, LoopOK, Control,
     ConnectivityKinds, SmokeTypeOK, PassOrder, Awaited, Left, Underway, Joining
<1>2. CASE UNCHANGED vars
  BY <1>1, <1>2 DEF vars
<1>3. QED
  BY <1>1, <1>2, Steps, DriverControl, SampleControl, DrainGotIpControl,
     DrainLostAndUpdateControl, ResultControl, BeginControl, LeaveControl, IdlePassControl,
     ReportControl

(* The invariant of connectivity and onboarding together.                  *)
THEOREM Invariance == Spec => []IInv
<1>1. Init => IInv
  BY LoopInit, OnboardingInit DEF IInv, LoopOK, OnboardingOK
<1>2. IInv /\ [Next]_vars => IInv'
  BY ControlStep, FlagsStep, OnboardingStep, AnnouncedStep
     DEF IInv, LoopOK, OnboardingOK, Control
<1>3. QED
  BY <1>1, <1>2, PTL DEF Spec

(* Every variable keeps its type, for all timeouts and thresholds.         *)
THEOREM TypeCorrect == Spec => []TypeOK
<1>1. IInv => TypeOK
  BY DEF IInv, ConnectivityKinds, Flags, OnboardingKinds, TypeOK, ConnectivityTypeOK
<1>2. QED
  BY <1>1, Invariance, PTL

(* DNS, time and MQTT are never tried over the association that a recovery *)
(* left: the disconnect is awaited, and meanwhile update() does nothing.   *)
THEOREM RecoveryReassociatesAlways == Spec => []RecoveryReassociates
<1>1. IInv => RecoveryReassociates
  BY DEF IInv, Left, RecoveryReassociates
<1>2. QED
  BY <1>1, Invariance, PTL

(* A new session keeps its forced health report until it could be sent.    *)
THEOREM AnnouncedAlways == Spec => []AnnouncedOnReconnect
<1>1. IInv => AnnouncedOnReconnect
  BY DEF IInv
<1>2. QED
  BY <1>1, Invariance, PTL

(* No way onboarding ends leaves an open window behind, but for the one    *)
(* that the isolated image leaves when a start is confirmed too late.      *)
THEOREM WindowOnAirAlways == Spec => []WindowOnAir
<1>1. IInv => WindowOnAir
  BY DEF IInv
<1>2. QED
  BY <1>1, Invariance, PTL

(* WiFi.begin() is not repeated while an earlier one may still succeed: an *)
(* association under way has its timer, and update() begins none with it.  *)
THEOREM NeverHasty == Spec => NoHastyBegin
<1>1. IInv /\ [Next]_vars =>
          [todo = "ConnectWifi" /\ todo' = "None" => joinAge \in {Idle, AssociationTimeout}]_vars
  BY DEF IInv, Underway, Joining
<1>2. QED
  BY <1>1, Invariance, PTL DEF Spec, NoHastyBegin
=============================================================================
