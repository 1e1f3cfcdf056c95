--------------------------- MODULE RingInputs_proofs ---------------------------
(***************************************************************************)
(* Theorems about the three debounced inputs, for every range of the       *)
(* clock, every threshold, every time between two passes and any horizon:  *)
(* what the controllers promise as long as no pass misses a bounce of the  *)
(* contact, and the distance of two rings, which holds in any case.        *)
(***************************************************************************)
EXTENDS Benches, TLAPS

InputsSpec == (InputsInit /\ kind \in {"config", "ring", "detector"}) /\ [][InputsNext]_inputVars

LEMMA InputsAlone == Spec => InputsSpec
<1>1. Init => InputsInit /\ kind \in {"config", "ring", "detector"}
  BY BenchesAssumption DEF Init, BenchesAssumption
<1>2. [Next]_vars => [InputsNext]_inputVars
  BY DEF Next, vars
<1> QED
  BY <1>1, <1>2, PTL DEF Spec, InputsSpec

----------------------------------------------------------------------------
(* The remainder, as unsigned differences of the clock use it.             *)

LEMMA Division ==
    ASSUME NEW m \in Nat \ {0}, NEW x \in Int
    PROVE  x = m * (x \div m) + (x % m) /\ x \div m \in Int /\ x % m \in 0..(m - 1)
OBVIOUS

LEMMA RemainderOf ==
    ASSUME NEW m \in Nat \ {0}, NEW q \in Int, NEW p \in Int,
           NEW r \in 0..(m - 1), NEW s \in 0..(m - 1), m * q + r = m * p + s
    PROVE  r = s
<1>1. m * (q - p) = s - r
  OBVIOUS
<1>2. s - r < m /\ s - r > -m
  OBVIOUS
<1>3. q - p >= 1 => m * (q - p) >= m
  OBVIOUS
<1>4. q - p <= -1 => m * (q - p) <= -m
  OBVIOUS
<1> QED
  BY <1>1, <1>2, <1>3, <1>4

(* The difference of two times is the same after both wrapped.             *)
LEMMA DifferenceWraps ==
    ASSUME NEW m \in Nat \ {0}, NEW t \in Int, NEW n \in Int
    PROVE  ((t % m) - ((t - n) % m)) % m = n % m
<1> DEFINE a == t % m
           b == (t - n) % m
           c == (a - b) % m
           d == n % m
           qa == t \div m
           qb == (t - n) \div m
           qc == (a - b) \div m
           qd == n \div m
<1>1. t = m * qa + a /\ qa \in Int /\ a \in 0..(m - 1)
  BY Division
<1>2. t - n = m * qb + b /\ qb \in Int /\ b \in 0..(m - 1)
  BY Division
<1>3. a - b \in Int
  BY <1>1, <1>2
<1>4. a - b = m * qc + c /\ qc \in Int /\ c \in 0..(m - 1)
  BY <1>3, Division
<1>5. n = m * qd + d /\ qd \in Int /\ d \in 0..(m - 1)
  BY Division
<1> HIDE DEF a, b, c, d, qa, qb, qc, qd
<1>6. m * qd + d = m * qa - m * qb + m * qc + c
  BY <1>1, <1>2, <1>4, <1>5
<1>7. m * (qa - qb + qc) = m * qa - m * qb + m * qc
  BY <1>1, <1>2, <1>4
<1>8. m * (qa - qb + qc) + c = m * qd + d /\ qa - qb + qc \in Int
  BY <1>1, <1>2, <1>4, <1>5, <1>6, <1>7
<1>9. c = d
  BY <1>4, <1>5, <1>8, RemainderOf
<1> QED
  BY <1>9 DEF a, b, c, d

LEMMA SumWraps ==
    ASSUME NEW m \in Nat \ {0}, NEW t \in Int, NEW k \in Int
    PROVE  ((t % m) + k) % m = (t + k) % m
<1> DEFINE a == t % m
           c == (a + k) % m
           d == (t + k) % m
           qa == t \div m
           qc == (a + k) \div m
           qd == (t + k) \div m
<1>1. t = m * qa + a /\ qa \in Int /\ a \in 0..(m - 1)
  BY Division
<1>2. a + k \in Int /\ t + k \in Int
  BY <1>1
<1>3. a + k = m * qc + c /\ qc \in Int /\ c \in 0..(m - 1)
  BY <1>2, Division
<1>4. t + k = m * qd + d /\ qd \in Int /\ d \in 0..(m - 1)
  BY <1>2, Division
<1> HIDE DEF a, c, d, qa, qc, qd
<1>5. m * (qa + qc) = m * qa + m * qc
  BY <1>1, <1>3
<1>6. m * (qa + qc) + c = m * qd + d /\ qa + qc \in Int
  BY <1>1, <1>3, <1>4, <1>5
<1>7. c = d
  BY <1>3, <1>4, <1>6, RemainderOf
<1> QED
  BY <1>7 DEF a, c, d

LEMMA SmallRemainder ==
    ASSUME NEW m \in Nat \ {0}, NEW n \in Nat
    PROVE  n % m \in Nat /\ n % m <= n /\ (n < m => n % m = n)
<1>1. n % m \in 0..(m - 1)
  BY Division
<1>2. n < m => n % m = n
  OBVIOUS
<1> QED
  BY <1>1, <1>2

LEMMA NegativeRemainder ==
    ASSUME NEW m \in Nat \ {0}, NEW x \in (1 - m)..(0 - 1)
    PROVE  x % m = x + m
OBVIOUS

----------------------------------------------------------------------------
(* Types.                                                                  *)

TimesOK ==
    /\ time \in 0..Horizon /\ steady \in Nat /\ held \in Nat /\ idle \in Nat
    /\ lastChange \in 0..(Modulus - 1) /\ pressStart \in 0..(Modulus - 1)
    /\ lockoutUntil \in 0..(Modulus - 1)
    /\ lastRing \in -Lockout..Horizon
    /\ kind \in {"config", "ring", "detector"}

LEMMA Constants ==
    /\ Modulus \in Nat \ {0} /\ Debounce \in Nat \ {0} /\ Debounce < Modulus
    /\ ProvisioningHold \in Nat \ {0} /\ FactoryResetHold \in Nat \ {0}
    /\ Horizon \in Nat /\ Lockout \in Nat \ {0} /\ 2 * Lockout < Modulus
BY ButtonAssumption, LockoutAssumption DEF ButtonAssumption, LockoutAssumption

LEMMA TimesStep == TimesOK /\ [InputsNext]_inputVars => TimesOK'
<1> SUFFICES ASSUME TimesOK, [InputsNext]_inputVars PROVE TimesOK'
  OBVIOUS
<1> USE Constants DEF TimesOK, controllerVars, debounceVars, holdVars, lockoutVars
<1>1. Clock \in 0..(Modulus - 1) /\ ChangeSeen \in 0..(Modulus - 1)
  BY DEF Clock, ChangeSeen
<1>2. CASE Elapse /\ UNCHANGED lockoutVars
  BY <1>2 DEF Elapse
<1>3. CASE ButtonUpdate /\ UNCHANGED lockoutVars
  BY <1>1, <1>3 DEF ButtonUpdate, Debounces, Start
<1>4. CASE RingUpdate
  <2>1. (Clock + Lockout) % Modulus \in 0..(Modulus - 1)
    BY <1>1
  <2> QED
    BY <1>1, <1>4, <2>1 DEF RingUpdate, Debounces
<1>5. CASE DetectorUpdate
  BY <1>1, <1>5 DEF DetectorUpdate, Debounces
<1>6. CASE UNCHANGED inputVars
  BY <1>6 DEF inputVars, buttonVars, contactVars
<1> QED
  BY <1>2, <1>3, <1>4, <1>5, <1>6 DEF InputsNext

----------------------------------------------------------------------------
(* Two rings are a lockout apart.                                          *)

LockoutOK ==
    /\ lastRing <= time
    /\ lockoutActive => lockoutUntil = (lastRing + Lockout) % Modulus
    /\ ~lockoutActive => time >= lastRing + Lockout

(* The lockout is over once its deadline counts as reached.                *)
LEMMA LockoutPassed ==
    ASSUME TimesOK, LockoutOK, ~LockedOut
    PROVE  time >= lastRing + Lockout
<1> USE Constants DEF TimesOK, LockoutOK
<1>1. CASE ~lockoutActive
  BY <1>1
<1>2. CASE lockoutActive
  <2> DEFINE d == time - (lastRing + Lockout)
  <2>1. d \in Int /\ d >= -Lockout /\ time - d = lastRing + Lockout
    OBVIOUS
  <2>2. ((time % Modulus) - ((time - d) % Modulus)) % Modulus = d % Modulus
    <3> HIDE DEF d
    <3>1. time \in Int
      OBVIOUS
    <3> QED
      BY <2>1, <3>1, DifferenceWraps
  <2>3. 2 * (d % Modulus) < Modulus
    BY <1>2, <2>1, <2>2 DEF LockedOut, DeadlineReached, Since, Clock
  <2>4. d < 0 => d % Modulus = d + Modulus
    BY <2>1, NegativeRemainder
  <2> HIDE DEF d
  <2>5. d >= 0
    BY <2>1, <2>3, <2>4
  <2> QED
    BY <2>1, <2>5
<1> QED
  BY <1>1, <1>2

LEMMA LockoutStep ==
    TimesOK /\ LockoutOK /\ [InputsNext]_inputVars
        => LockoutOK' /\ (action' = "RING" => time >= lastRing + Lockout \/ UNCHANGED inputVars)
<1> SUFFICES ASSUME TimesOK, LockoutOK, [InputsNext]_inputVars
             PROVE  /\ LockoutOK'
                    /\ action' = "RING" => time >= lastRing + Lockout \/ UNCHANGED inputVars
  OBVIOUS
<1> USE Constants DEF TimesOK, LockoutOK, lockoutVars
<1>1. CASE Elapse /\ UNCHANGED lockoutVars
  BY <1>1 DEF Elapse
<1>2. CASE ButtonUpdate /\ UNCHANGED lockoutVars
  BY <1>2 DEF ButtonUpdate, Debounces, Decided
<1>3. CASE RingUpdate
  <2>1. CASE Rings
    <3>1. time >= lastRing + Lockout
      BY <2>1, LockoutPassed DEF Rings
    <3>2. /\ lastRing' = time /\ time' = time /\ lockoutActive'
          /\ lockoutUntil' = (Clock + Lockout) % Modulus
      BY <1>3, <2>1 DEF RingUpdate, Debounces, LockoutAfter
    <3>3. (Clock + Lockout) % Modulus = (time + Lockout) % Modulus
      <4>1. time \in Int /\ Lockout \in Int
        OBVIOUS
      <4> QED
        BY <4>1, SumWraps DEF Clock
    <3> QED
      BY <3>1, <3>2, <3>3
  <2>2. CASE ~Rings
    <3>1. /\ UNCHANGED <<lastRing, time, lockoutUntil>> /\ action' = "NONE"
      BY <1>3, <2>2 DEF RingUpdate, Debounces
    <3>4. lockoutActive' = LockoutAfter
      BY <1>3 DEF RingUpdate
    <3>5. lockoutActive' <=> LockedOut
      BY <2>2, <3>4 DEF LockoutAfter
    <3>2. CASE LockedOut
      BY <3>1, <3>2, <3>5 DEF LockedOut
    <3>3. CASE ~LockedOut
      BY <3>1, <3>3, <3>5, LockoutPassed
    <3> QED
      BY <3>2, <3>3
  <2> QED
    BY <2>1, <2>2
<1>4. CASE DetectorUpdate
  BY <1>4 DEF DetectorUpdate, Debounces
<1>5. CASE UNCHANGED inputVars
  BY <1>5 DEF inputVars, buttonVars, contactVars
<1> QED
  BY <1>1, <1>2, <1>3, <1>4, <1>5 DEF InputsNext

(* Two rings of the DEV buttons are at least the lockout apart, whatever   *)
(* the contact does, however late the passes are and wherever the clock    *)
(* wraps (dev_ring_button.h:13-16).                                        *)
THEOREM RingsApartAlways == Spec => RingsApart
<1>1. InputsInit /\ kind \in {"config", "ring", "detector"} => TimesOK /\ LockoutOK
  BY Constants DEF InputsInit, ButtonInit, TimesOK, LockoutOK
<1>2. TimesOK /\ LockoutOK /\ [InputsNext]_inputVars
        => TimesOK' /\ LockoutOK' /\ [action' = "RING" => time >= lastRing + Lockout]_inputVars
  BY TimesStep, LockoutStep
<1> QED
  BY <1>1, <1>2, InputsAlone, PTL DEF InputsSpec, RingsApart

----------------------------------------------------------------------------
(* What a controller that missed no bounce knows of the press.             *)

FlagsOK == level \in BOOLEAN /\ debounced \in BOOLEAN

LEMMA FlagsStep == FlagsOK /\ [InputsNext]_inputVars => FlagsOK'
<1> SUFFICES ASSUME FlagsOK, [InputsNext]_inputVars PROVE FlagsOK'
  OBVIOUS
<1>1. level' \in BOOLEAN \/ level' = level
  BY DEF InputsNext, Elapse, ButtonUpdate, RingUpdate, DetectorUpdate, Debounces, inputVars,
         buttonVars, contactVars
<1>2. debounced' = debounced \/ debounced' = Settled
  BY DEF InputsNext, Elapse, ButtonUpdate, RingUpdate, DetectorUpdate, Debounces, inputVars,
         buttonVars, controllerVars, debounceVars
<1>3. Settled \in BOOLEAN
  BY Zenon DEF Settled, FlagsOK
<1> QED
  BY <1>1, <1>2, <1>3, Zenon DEF FlagsOK

(* The press and its actions: it ends when the contact stayed open, and an *)
(* action belongs to a press.                                              *)
PressOK ==
    /\ held = 0 => ~level
    /\ held # 0 /\ ~level => steady < Debounce
    /\ held = 0 /\ idle > 0 => acted = {}

(* The sample of the last pass.  The first pass is still to come, or the   *)
(* level is the one it saw, unless it changed since.                       *)
SampleOK ==
    /\ idle <= 1
    /\ ~sampled => ~debounced /\ time = idle
    /\ ~sampled /\ idle = 0 => (held # 0 => level)
    /\ sampled /\ idle = 0 => rawLast = level
    /\ sampled /\ idle = 1 => (rawLast = level <=> steady # 0)

(* The age of the level as the controller sees it: that of the level, but  *)
(* for a contact closed since before the first pass.                       *)
AgeSeen(n) == ChangeSeen = (time - n) % Modulus

SeenOK == held # 0 => \E n \in 0..steady : AgeSeen(n) /\ (~level => n = steady)

(* The press of the controller is the contact's: it ends with the pass     *)
(* after it, and an action is one of this press and was recorded.          *)
SameContact ==
    /\ held = 0 /\ debounced => idle = 1 /\ steady = Debounce /\ AgeSeen(steady)
    /\ acted # {} => held # 0 /\ debounced
    /\ "PROVISIONING" \in acted => provFired
    /\ "FACTORY_RESET" \in acted => provFired /\ resetFired

(* The hold began within the press.                                        *)
HoldOK ==
    kind = "config" /\ held # 0 /\ debounced
        => \E n \in 0..(held - 1) : pressStart = (time - n) % Modulus

InputsOK ==
    /\ TimesOK /\ FlagsOK /\ PressOK
    /\ ~late => SampleOK /\ SeenOK /\ SameContact /\ HoldOK

LEMMA SinceSeen ==
    ASSUME TimesOK, NEW n \in Nat
    PROVE  Since((time - n) % Modulus) = n % Modulus
<1>1. time \in Int /\ Modulus \in Nat \ {0} /\ n \in Int
  BY Constants DEF TimesOK
<1>2. ((time % Modulus) - ((time - n) % Modulus)) % Modulus = n % Modulus
  BY <1>1, DifferenceWraps
<1> QED
  BY <1>2 DEF Since, Clock

(* A pass that missed nothing: it takes nobody for pressing when nobody    *)
(* is, does not end a press that lasts, and begins one without actions.    *)
LEMMA ControllerSees ==
    ASSUME TimesOK, FlagsOK, PressOK, SeenOK, SameContact, idle > 0
    PROVE  /\ held = 0 => ~Settled
           /\ held # 0 /\ debounced => Settled
           /\ NewPress => held # 0 /\ acted = {}
           /\ (debounced # Settled) => steady >= Debounce
<1> USE Constants DEF TimesOK
<1>1. ASSUME held = 0 PROVE ~Settled /\ (debounced => steady >= Debounce)
  <2>1. CASE ~debounced
    BY <1>1, <2>1 DEF PressOK, Settled
  <2>2. CASE debounced
    <3>1. steady = Debounce /\ AgeSeen(steady)
      BY <1>1, <2>2 DEF SameContact
    <3>2. Since(ChangeSeen) = steady % Modulus
      BY <3>1, SinceSeen DEF AgeSeen
    <3>3. Since(ChangeSeen) = Debounce
      BY <3>1, <3>2, SmallRemainder
    <3> QED
      BY <1>1, <3>1, <3>3 DEF PressOK, Settled
  <2> QED
    BY <2>1, <2>2
<1>2. ASSUME held # 0
      PROVE  /\ debounced => Settled
             /\ ~debounced /\ Settled => steady >= Debounce
  <2>1. PICK n \in 0..steady : AgeSeen(n) /\ (~level => n = steady)
    BY <1>2 DEF SeenOK
  <2>2. n \in Nat /\ Since(ChangeSeen) = n % Modulus
    <3>1. n \in Nat
      BY <2>1
    <3>2. ChangeSeen = (time - n) % Modulus
      BY <2>1 DEF AgeSeen
    <3> QED
      BY <3>1, <3>2, SinceSeen
  <2>3. n % Modulus \in Nat /\ n % Modulus <= n
    BY <2>2, SmallRemainder
  <2>4. CASE Since(ChangeSeen) >= Debounce
    <3>1. steady >= Debounce
      BY <2>1, <2>2, <2>3, <2>4
    <3>2. level
      BY <1>2, <3>1 DEF PressOK
    <3> QED
      BY <2>4, <3>1, <3>2 DEF Settled
  <2>5. CASE ~(Since(ChangeSeen) >= Debounce)
    BY <2>5 DEF Settled
  <2> QED
    BY <2>4, <2>5
<1>3. NewPress => held # 0 /\ acted = {}
  BY <1>1 DEF NewPress, SameContact
<1>4. Settled \in BOOLEAN /\ debounced \in BOOLEAN
  BY Zenon DEF Settled, FlagsOK
<1> QED
  BY <1>1, <1>2, <1>3, <1>4

(* What a pass of any of the three controllers does.                       *)
Pass ==
    /\ Debounces
    /\ UNCHANGED kind
    /\ acted' = acted \/ (Settled /\ acted' = acted \cup {action'})
    /\ kind = "config" =>
         /\ pressStart' = Start
         /\ provFired' = (Fired(provFired) \/ Decided # "NONE")
         /\ resetFired' = (Fired(resetFired) \/ Decided = "FACTORY_RESET")
         /\ action' = Decided
    /\ kind # "config" =>
         /\ UNCHANGED <<pressStart, provFired, resetFired>>
         /\ action' \notin {"PROVISIONING", "FACTORY_RESET"}

LEMMA EachPass == ButtonUpdate \/ RingUpdate \/ DetectorUpdate => Pass
<1>1. ButtonUpdate => Pass
  BY DEF ButtonUpdate, Pass, Decided
<1>2. RingUpdate => Pass
  BY DEF RingUpdate, Pass, Rings, NewPress, holdVars
<1>3. DetectorUpdate => Pass
  BY DEF DetectorUpdate, Pass, holdVars
<1> QED
  BY <1>1, <1>2, <1>3

LEMMA PassKeeps ==
    InputsOK /\ Pass => PressOK' /\ (~late' => SampleOK' /\ SeenOK' /\ SameContact' /\ HoldOK')
<1> SUFFICES ASSUME InputsOK, Pass
             PROVE  PressOK' /\ (~late' => SampleOK' /\ SeenOK' /\ SameContact' /\ HoldOK')
  OBVIOUS
<1> USE Constants DEF InputsOK
<1>1. /\ UNCHANGED <<time, level, steady, held, kind>> /\ idle > 0 /\ idle' = 0
      /\ rawLast' = level /\ lastChange' = ChangeSeen /\ sampled' = TRUE
      /\ debounced' = Settled /\ late' = (late /\ (held # 0 \/ Settled))
      /\ acted' = acted \/ (Settled /\ acted' = acted \cup {action'})
  BY DEF Pass, Debounces
<1>2. PressOK'
  BY <1>1 DEF PressOK
<1> SUFFICES ASSUME ~late' PROVE SampleOK' /\ SeenOK' /\ SameContact' /\ HoldOK'
  BY <1>2
<1>3. SampleOK'
  BY <1>1 DEF SampleOK
<1>4. CASE late
  <2>1. held = 0 /\ ~Settled /\ acted = {}
    BY <1>1, <1>4 DEF PressOK
  <2> QED
    BY <1>1, <1>3, <2>1 DEF SeenOK, SameContact, HoldOK
<1>5. CASE ~late
  <2>1. /\ held = 0 => ~Settled
        /\ held # 0 /\ debounced => Settled
        /\ NewPress => held # 0 /\ acted = {}
    BY <1>1, <1>5, ControllerSees
  <2>2. SeenOK'
    <3> SUFFICES ASSUME held # 0 PROVE (\E n \in 0..steady : AgeSeen(n) /\ (~level => n = steady))'
      BY <1>1 DEF SeenOK
    <3>1. PICK n \in 0..steady : AgeSeen(n) /\ (~level => n = steady)
      BY <1>5 DEF SeenOK
    <3>2. ChangeSeen' = ChangeSeen
      BY <1>1 DEF ChangeSeen
    <3> QED
      BY <1>1, <3>1, <3>2 DEF AgeSeen
  <2>3. SameContact'
    <3>1. held' = 0 => ~debounced'
      BY <1>1, <2>1
    <3>2. acted' # {} => held' # 0 /\ debounced'
      BY <1>1, <1>5, <2>1 DEF SameContact
    <3>3. /\ "PROVISIONING" \in acted' => provFired'
          /\ "FACTORY_RESET" \in acted' => provFired' /\ resetFired'
      <4>1. CASE kind = "config"
        BY <1>1, <1>5, <2>1, <4>1 DEF Pass, SameContact, Fired
      <4>2. CASE kind # "config"
        BY <1>1, <1>5, <4>2 DEF Pass, SameContact
      <4> QED
        BY <4>1, <4>2
    <3> QED
      BY <3>1, <3>2, <3>3 DEF SameContact
  <2>4. HoldOK'
    <3> SUFFICES ASSUME kind = "config", held # 0, Settled
                 PROVE  \E n \in 0..(held - 1) : pressStart' = (time - n) % Modulus
      BY <1>1 DEF HoldOK
    <3>1. pressStart' = Start
      BY DEF Pass
    <3>2. held \in Nat /\ time - 0 = time
      BY DEF TimesOK
    <3>3. CASE NewPress
      BY <3>1, <3>2, <3>3 DEF Start, Clock
    <3>4. CASE ~NewPress
      BY <1>5, <3>1, <3>4 DEF Start, NewPress, HoldOK
    <3> QED
      BY <3>3, <3>4
  <2> QED
    BY <1>3, <2>2, <2>3, <2>4
<1> QED
  BY <1>4, <1>5

(* A hold that goes on began as long ago as before.                        *)
LEMMA HoldGoesOn ==
    ASSUME HoldOK, time \in Nat, held \in Nat, held # 0, time' = time + 1, held' = held + 1,
           UNCHANGED <<kind, debounced, pressStart>>
    PROVE  HoldOK'
<1> SUFFICES ASSUME kind = "config", debounced
             PROVE  \E n \in 0..(held' - 1) : pressStart = (time' - n) % Modulus
  BY DEF HoldOK
<1>1. PICK n \in 0..(held - 1) : pressStart = (time - n) % Modulus
  BY DEF HoldOK
<1>2. n + 1 \in 0..(held' - 1) /\ time' - (n + 1) = time - n
  BY <1>1
<1> QED
  BY <1>1, <1>2

LEMMA ElapseKeeps ==
    InputsOK /\ Elapse => PressOK' /\ (~late' => SampleOK' /\ SeenOK' /\ SameContact' /\ HoldOK')
<1> SUFFICES ASSUME InputsOK, Elapse
             PROVE  PressOK' /\ (~late' => SampleOK' /\ SeenOK' /\ SameContact' /\ HoldOK')
  OBVIOUS
<1> USE Constants DEF InputsOK
<1>1. /\ time' = time + 1 /\ idle' = idle + 1 /\ late' = (late \/ idle' > 1)
      /\ steady' = IF level' = level THEN steady + 1 ELSE 0
      /\ held' = IF ~level' /\ (held = 0 \/ steady' >= Debounce) THEN 0 ELSE held + 1
      /\ acted' = IF held' = 0 THEN {} ELSE acted
      /\ UNCHANGED <<kind, rawLast, lastChange, sampled, debounced, pressStart, provFired, resetFired>>
      /\ time \in Nat /\ steady \in Nat /\ held \in Nat /\ idle \in Nat
  BY DEF Elapse, controllerVars, debounceVars, holdVars, TimesOK
<1>2. PressOK'
  BY <1>1 DEF PressOK
<1> SUFFICES ASSUME ~late' PROVE SampleOK' /\ SeenOK' /\ SameContact' /\ HoldOK'
  BY <1>2
<1>3. ~late /\ idle = 0 /\ idle' = 1
  <2>1. ~late /\ ~(idle' > 1)
    BY <1>1, Zenon
  <2> QED
    BY <1>1, <2>1
<1>4. SampleOK /\ SeenOK /\ SameContact /\ HoldOK
  BY <1>3
<1>5. held = 0 => ~debounced
  BY <1>3, <1>4 DEF SameContact
<1>6. SampleOK'
  BY <1>1, <1>3, <1>4 DEF SampleOK
<1>7. CASE level' = level
  <2>1. steady' = steady + 1 /\ (held = 0 => held' = 0)
    BY <1>1, <1>7 DEF PressOK
  <2>2. CASE held = 0
    BY <1>1, <1>5, <1>6, <2>1, <2>2 DEF SeenOK, SameContact, HoldOK
  <2>3. CASE held # 0 /\ held' = 0
    <3>1. ~level /\ ~level' /\ steady < Debounce /\ steady' = Debounce
      BY <1>1, <1>7, <2>1, <2>3 DEF PressOK
    <3>2. sampled /\ rawLast = level
      BY <1>3, <1>4, <2>3, <3>1 DEF SampleOK
    <3>3. ChangeSeen = lastChange /\ ChangeSeen' = lastChange
      BY <1>1, <1>7, <3>2 DEF ChangeSeen
    <3>4. lastChange = (time - steady) % Modulus
      BY <1>4, <2>3, <3>1, <3>3 DEF SeenOK, AgeSeen
    <3>5. time' - steady' = time - steady
      BY <1>1, <2>1
    <3> QED
      BY <1>1, <1>3, <1>6, <2>3, <3>1, <3>3, <3>4, <3>5 DEF SeenOK, SameContact, HoldOK, AgeSeen
  <2>4. CASE held # 0 /\ held' # 0
    <3>1. held' = held + 1 /\ acted' = acted
      BY <1>1, <2>4
    <3>2. SeenOK'
      <4>1. CASE sampled
        <5>1. ChangeSeen = lastChange /\ ChangeSeen' = lastChange
          BY <1>1, <1>3, <1>4, <1>7, <4>1 DEF ChangeSeen, SampleOK
        <5>2. PICK n \in 0..steady : lastChange = (time - n) % Modulus /\ (~level => n = steady)
          BY <1>4, <2>4, <5>1 DEF SeenOK, AgeSeen
        <5>3. n + 1 \in 0..steady' /\ time' - (n + 1) = time - n /\ (~level' => n + 1 = steady')
          BY <1>1, <1>7, <2>1, <5>2
        <5>4. AgeSeen(n + 1)'
          BY <5>1, <5>2, <5>3 DEF AgeSeen
        <5> QED
          BY <5>3, <5>4 DEF SeenOK
      <4>2. CASE ~sampled
        <5>1. level'
          BY <1>3, <1>4, <1>7, <2>4, <4>2 DEF SampleOK
        <5>2. time' - 0 = time' /\ 0 \in 0..steady'
          BY <1>1, <2>1
        <5>3. AgeSeen(0)'
          BY <1>1, <4>2, <5>2 DEF AgeSeen, ChangeSeen, Clock
        <5> QED
          BY <5>1, <5>2, <5>3 DEF SeenOK
      <4> QED
        BY <4>1, <4>2
    <3>3. SameContact'
      BY <1>1, <1>4, <2>4, <3>1 DEF SameContact
    <3>4. HoldOK'
      BY <1>1, <1>4, <2>4, <3>1, HoldGoesOn
    <3> QED
      BY <1>6, <3>2, <3>3, <3>4
  <2> QED
    BY <2>2, <2>3, <2>4
<1>8. CASE level' # level
  <2>1. FlagsOK'
    <3>1. level' \in BOOLEAN
      BY DEF Elapse
    <3> QED
      BY <1>1, <3>1, Zenon DEF FlagsOK
  <2>2. steady' = 0 /\ held' = held + 1 /\ held' # 0 /\ acted' = acted
    BY <1>1, <1>8, <2>1 DEF PressOK, FlagsOK
  <2>3. SeenOK'
    <3>1. ChangeSeen' = Clock'
      BY <1>1, <1>3, <1>4, <1>8 DEF ChangeSeen, SampleOK
    <3>2. time' - 0 = time' /\ 0 \in 0..steady'
      BY <1>1, <2>2
    <3>3. AgeSeen(0)'
      BY <3>1, <3>2 DEF AgeSeen, Clock
    <3> QED
      BY <2>2, <3>2, <3>3 DEF SeenOK
  <2>4. SameContact'
    BY <1>1, <1>4, <2>2 DEF SameContact
  <2>5. HoldOK'
    BY <1>1, <1>4, <1>5, <2>2, HoldGoesOn DEF HoldOK
  <2> QED
    BY <1>6, <2>3, <2>4, <2>5
<1> QED
  BY <1>7, <1>8

LEMMA InputsStep == InputsOK /\ [InputsNext]_inputVars => InputsOK'
<1> SUFFICES ASSUME InputsOK, [InputsNext]_inputVars PROVE InputsOK'
  OBVIOUS
<1>1. TimesOK' /\ FlagsOK'
  BY TimesStep, FlagsStep DEF InputsOK
<1>2. CASE Elapse \/ Pass
  BY <1>1, <1>2, ElapseKeeps, PassKeeps DEF InputsOK
<1>3. CASE UNCHANGED inputVars
  BY <1>3 DEF inputVars, buttonVars, contactVars, controllerVars, debounceVars, holdVars, InputsOK,
              TimesOK, FlagsOK, PressOK, SampleOK, SeenOK, SameContact, HoldOK, AgeSeen, ChangeSeen,
              Clock, lockoutVars
<1> QED
  BY <1>2, <1>3, EachPass DEF InputsNext

LEMMA InitInputs == InputsInit /\ kind \in {"config", "ring", "detector"} => InputsOK
<1> SUFFICES ASSUME InputsInit, kind \in {"config", "ring", "detector"} PROVE InputsOK
  OBVIOUS
<1> USE Constants DEF InputsInit, ButtonInit
<1>1. TimesOK
  BY DEF TimesOK
<1>2. FlagsOK
  BY Zenon DEF FlagsOK
<1>3. PressOK /\ SampleOK /\ SameContact /\ HoldOK
  BY DEF PressOK, SampleOK, SameContact, HoldOK
<1>4. SeenOK
  BY DEF SeenOK, AgeSeen, ChangeSeen, Clock
<1> QED
  BY <1>1, <1>2, <1>3, <1>4 DEF InputsOK

----------------------------------------------------------------------------
(* What follows of a pass.                                                 *)

(* A hold is as long for the controller as the press is at least.          *)
LEMMA HeldLongEnough ==
    ASSUME InputsOK, ~late, kind = "config", held # 0, Settled, NEW hold \in Nat \ {0},
           HeldFor >= hold
    PROVE  held > hold
<1> USE Constants DEF InputsOK
<1>1. time \in Int /\ held \in Nat
  BY DEF TimesOK
<1>2. CASE NewPress
  <2>1. HeldFor = 0
    <3>1. HeldFor = Since((time - 0) % Modulus)
      BY <1>1, <1>2 DEF HeldFor, Start, Clock
    <3>2. 0 % Modulus = 0
      BY SmallRemainder
    <3> QED
      BY <3>1, <3>2, SinceSeen
  <2> QED
    BY <2>1
<1>3. CASE ~NewPress
  <2>1. debounced
    BY <1>3 DEF NewPress
  <2>2. PICK n \in 0..(held - 1) : pressStart = (time - n) % Modulus
    BY <2>1 DEF HoldOK
  <2>3. n \in Nat
    BY <1>1, <2>2
  <2>4. HeldFor = n % Modulus
    BY <1>3, <2>2, <2>3, SinceSeen DEF HeldFor, Start
  <2>5. n % Modulus \in Nat /\ n % Modulus <= n
    BY <2>3, SmallRemainder
  <2> QED
    BY <1>1, <2>2, <2>3, <2>4, <2>5
<1> QED
  BY <1>2, <1>3

LEMMA NoShortPressStep == InputsOK /\ (Elapse \/ Pass) => NoShortPress'
<1>1. ASSUME Elapse PROVE NoShortPress'
  BY <1>1 DEF Elapse, NoShortPress
<1>2. ASSUME InputsOK, Pass PROVE NoShortPress'
  <2>1. UNCHANGED held /\ late' = (late /\ (held # 0 \/ Settled)) /\ idle > 0
    BY <1>2 DEF Pass, Debounces
  <2> SUFFICES ASSUME ~late', kind = "config"
               PROVE  /\ Decided = "PROVISIONING" => held > ProvisioningHold
                      /\ Decided = "FACTORY_RESET" => held > FactoryResetHold
    BY <1>2, <2>1 DEF Pass, NoShortPress
  <2>2. CASE ~Settled
    BY <2>2 DEF Decided
  <2>3. CASE Settled
    <3>1. ~late /\ held # 0
      BY <1>2, <2>1, <2>3, ControllerSees DEF InputsOK
    <3>2. /\ Decided = "PROVISIONING" => HeldFor >= ProvisioningHold
          /\ Decided = "FACTORY_RESET" => HeldFor >= FactoryResetHold
      BY <2>3 DEF Decided
    <3> QED
      BY <1>2, <2>3, <3>1, <3>2, Constants, HeldLongEnough
  <2> QED
    BY <2>2, <2>3
<1> QED
  BY <1>1, <1>2

(* One press causes each of its actions once, as long as no pass missed a  *)
(* bounce of the contact (provisioningFired_, factoryResetFired_; the edge *)
(* the ring button asks for), for any thresholds.                          *)
THEOREM OncePerPressAlways == Spec => OncePerPress
<1>1. InputsOK /\ [InputsNext]_inputVars
        => [~late /\ action' \in {"PROVISIONING", "FACTORY_RESET", "RING"}
              => action' \notin acted]_inputVars
  <2> SUFFICES ASSUME InputsOK, InputsNext, ~late,
                      action' \in {"PROVISIONING", "FACTORY_RESET", "RING"}
               PROVE  action' \notin acted
    OBVIOUS
  <2>1. CASE Elapse
    BY <2>1 DEF Elapse
  <2>2. CASE ButtonUpdate \/ RingUpdate \/ DetectorUpdate
    <3>1. Pass /\ idle > 0
      BY <2>2, EachPass DEF Pass, Debounces
    <3>2. NewPress => acted = {}
      BY <3>1, ControllerSees DEF InputsOK
    <3>3. CASE ButtonUpdate
      <4>1. /\ action' = "FACTORY_RESET" => NewPress \/ ~resetFired
            /\ action' = "PROVISIONING" => NewPress \/ ~provFired
            /\ action' # "RING"
        BY <3>3 DEF ButtonUpdate, Decided, Fired
      <4> QED
        BY <3>2, <4>1 DEF InputsOK, SameContact
    <3>4. CASE RingUpdate
      BY <3>2, <3>4 DEF RingUpdate, Rings
    <3>5. CASE DetectorUpdate
      BY <3>5 DEF DetectorUpdate
    <3> QED
      BY <2>2, <3>3, <3>4, <3>5
  <2> QED
    BY <2>1, <2>2 DEF InputsNext
<1> QED
  BY <1>1, InputsAlone, InitInputs, InputsStep, PTL DEF InputsSpec, OncePerPress

(* A press shorter than its threshold does nothing to the configuration    *)
(* button (button.h:40), nor a pulse shorter than the debounce time to the *)
(* ring detector (ring_detector.h:50), as long as no pass missed a bounce. *)
THEOREM ShortPulsesIgnoredAlways == Spec => ShortPulsesIgnored
<1>1. InputsOK /\ [InputsNext]_inputVars
        => [/\ NoShortPress'
            /\ kind = "detector" /\ ~late /\ debounced' # debounced
                 => steady >= Debounce]_inputVars
  <2> SUFFICES ASSUME InputsOK, InputsNext
               PROVE  /\ NoShortPress'
                      /\ ~late /\ debounced' # debounced => steady >= Debounce
    OBVIOUS
  <2>1. Elapse \/ Pass
    BY EachPass DEF InputsNext
  <2>2. NoShortPress'
    BY <2>1, NoShortPressStep
  <2>3. CASE Elapse
    BY <2>2, <2>3 DEF Elapse, controllerVars, debounceVars
  <2>4. CASE Pass
    <3>1. debounced' = Settled /\ idle > 0
      BY <2>4 DEF Pass, Debounces
    <3>2. ~late /\ debounced # Settled => steady >= Debounce
      BY <3>1, ControllerSees DEF InputsOK
    <3> QED
      BY <2>2, <3>1, <3>2
  <2> QED
    BY <2>1, <2>3, <2>4
<1> QED
  BY <1>1, InputsAlone, InitInputs, InputsStep, PTL DEF InputsSpec, ShortPulsesIgnored

----------------------------------------------------------------------------
(* A press that lasts is obeyed.                                           *)

Longest == LongestPass[kind]

LEMMA Passes ==
    ASSUME kind \in {"config", "ring", "detector"}
    PROVE  /\ Longest \in Nat \ {0} /\ 2 * Longest < Modulus
           /\ Debounce + Longest < Modulus /\ FactoryResetHold + Longest <= Modulus
BY Constants, ButtonAssumption, PassAssumption DEF ButtonAssumption, PassAssumption, Longest

(* The level was the same at the last pass and ever since.                 *)
Unchanged == steady >= idle

RawOK ==
    /\ idle <= Longest /\ steady <= time
    /\ Unchanged => ~sampled \/ rawLast = level
    /\ ~sampled => time = idle /\ ~debounced

(* A press not yet debounced: the timer ran at the last pass, and started  *)
(* at most a pass after the contact closed.                                *)
TimerOK ==
    level /\ Unchanged /\ sampled /\ ~debounced =>
        \E r \in 0..(Debounce - 1) :
            lastChange = (time - idle - r) % Modulus /\ steady - idle <= r + Longest

(* A hold that did not yet cause the reset: it was too short for it at the *)
(* last pass, and began in time.                                           *)
FireOK ==
    kind = "config" /\ debounced /\ ~resetFired =>
        \E h \in 0..(FactoryResetHold - 1) :
            /\ pressStart = (time - idle - h) % Modulus
            /\ level /\ Unchanged => steady - idle <= h + Debounce + 2 * Longest

(* A lockout stands until the first pass past its deadline.                *)
LockOK == lockoutActive => kind = "ring" /\ time - idle < lastRing + Lockout

(* What fired fired in this press, or the press began under a lockout.     *)
OwnOK ==
    ~late /\ held # 0 /\ debounced =>
        /\ kind = "config" /\ resetFired => "FACTORY_RESET" \in acted
        /\ kind = "ring" => "RING" \in acted \/ time - (held - 1) < lastRing + Lockout

ObeyedOK == InputsOK /\ LockoutOK /\ RawOK /\ TimerOK /\ FireOK /\ LockOK /\ OwnOK

(* A value of the clock is its distance back from now.                     *)
LEMMA BackFrom ==
    ASSUME NEW m \in Nat \ {0}, NEW t \in Int, NEW x \in 0..(m - 1)
    PROVE  x = (t - (((t % m) - x) % m)) % m
<1> DEFINE a == t % m
           y == (a - x) % m
           z == (t - y) % m
           q == t \div m
           p == (a - x) \div m
           u == (t - y) \div m
<1>1. t = m * q + a /\ q \in Int /\ a \in 0..(m - 1)
  BY Division
<1>2. a - x \in Int
  BY <1>1
<1>3. a - x = m * p + y /\ p \in Int /\ y \in 0..(m - 1)
  BY <1>2, Division
<1>4. t - y \in Int
  BY <1>3
<1>5. t - y = m * u + z /\ u \in Int /\ z \in 0..(m - 1)
  BY <1>4, Division
<1> HIDE DEF a, y, z, q, p, u
<1>6. m * (q + p) = m * q + m * p
  BY <1>1, <1>3
<1>7. m * (q + p) + x = m * u + z /\ q + p \in Int
  BY <1>1, <1>3, <1>5, <1>6
<1>8. x = z
  BY <1>5, <1>7, RemainderOf
<1> QED
  BY <1>8 DEF a, y, z

LEMMA SeenBack ==
    ASSUME TimesOK, NEW x \in 0..(Modulus - 1)
    PROVE  x = (time - Since(x)) % Modulus
<1>1. time \in Int /\ Modulus \in Nat \ {0}
  BY Constants DEF TimesOK
<1>2. x = (time - (((time % Modulus) - x) % Modulus)) % Modulus
  BY <1>1, BackFrom
<1> QED
  BY <1>2 DEF Since, Clock

LEMMA StillLocked ==
    ASSUME TimesOK, LockoutOK, RawOK, LockOK, LockedOut
    PROVE  time < lastRing + Lockout
<1> USE Constants DEF TimesOK, LockoutOK, LockOK
<1> DEFINE d == time - (lastRing + Lockout)
<1>1. SUFFICES ASSUME d >= 0 PROVE FALSE
  OBVIOUS
<1>2. lockoutActive /\ lockoutUntil = (time - d) % Modulus
  BY DEF LockedOut
<1>3. d \in Nat /\ d < Longest /\ Longest \in Nat /\ 2 * Longest < Modulus
  BY <1>1, <1>2, Passes DEF RawOK
<1> HIDE DEF d
<1>4. Since(lockoutUntil) = d % Modulus
  BY <1>2, <1>3, SinceSeen
<1>5. d % Modulus = d
  BY <1>3, SmallRemainder
<1> QED
  BY <1>3, <1>4, <1>5 DEF LockedOut, DeadlineReached

LEMMA ElapseObeys == ObeyedOK /\ Elapse /\ UNCHANGED lockoutVars
                        => RawOK' /\ TimerOK' /\ FireOK' /\ LockOK' /\ OwnOK'
<1> SUFFICES ASSUME ObeyedOK, Elapse, UNCHANGED lockoutVars
             PROVE  RawOK' /\ TimerOK' /\ FireOK' /\ LockOK' /\ OwnOK'
  OBVIOUS
<1> USE Constants DEF ObeyedOK
<1>1. /\ time' = time + 1 /\ idle' = idle + 1 /\ late' = (late \/ idle' > 1)
      /\ idle < Longest
      /\ steady' = IF level' = level THEN steady + 1 ELSE 0
      /\ held' = IF ~level' /\ (held = 0 \/ steady' >= Debounce) THEN 0 ELSE held + 1
      /\ acted' = IF held' = 0 THEN {} ELSE acted
      /\ UNCHANGED <<kind, rawLast, lastChange, sampled, debounced, pressStart, provFired, resetFired,
                     lockoutActive, lockoutUntil, lastRing>>
      /\ time \in Nat /\ steady \in Nat /\ held \in Nat /\ idle \in Nat
  BY DEF Elapse, controllerVars, debounceVars, holdVars, lockoutVars, Longest, InputsOK, TimesOK
<1>2. Longest' = Longest /\ Longest \in Nat
  BY <1>1, Passes DEF Longest, InputsOK, TimesOK
<1>3. time' - idle' = time - idle
  BY <1>1
<1>4. Unchanged' => Unchanged /\ level' = level /\ steady' - idle' = steady - idle
  BY <1>1 DEF Unchanged
<1>5. RawOK'
  BY <1>1, <1>2, <1>4 DEF RawOK
<1>6. TimerOK'
  BY <1>1, <1>2, <1>3, <1>4 DEF TimerOK
<1>7. FireOK'
  BY <1>1, <1>2, <1>3, <1>4 DEF FireOK
<1>8. LockOK'
  BY <1>1, <1>3 DEF LockOK
<1>9. OwnOK'
  <2> SUFFICES ASSUME ~late', held' # 0, debounced
               PROVE  /\ kind = "config" /\ resetFired => "FACTORY_RESET" \in acted'
                      /\ kind = "ring" => "RING" \in acted' \/ time' - (held' - 1) < lastRing + Lockout
    BY <1>1 DEF OwnOK
  <2>1. ~late /\ ~(idle' > 1)
    BY <1>1, Zenon
  <2>2. idle = 0
    BY <1>1, <2>1
  <2>3. held # 0
    BY <2>1, <2>2 DEF InputsOK, SameContact
  <2>4. time' - (held' - 1) = time - (held - 1) /\ acted' = acted
    BY <1>1
  <2> QED
    BY <2>1, <2>3, <2>4 DEF OwnOK
<1> QED
  BY <1>5, <1>6, <1>7, <1>8, <1>9

LEMMA PassObeys ==
    ObeyedOK /\ ((ButtonUpdate /\ UNCHANGED lockoutVars) \/ RingUpdate \/ DetectorUpdate)
        => RawOK' /\ TimerOK' /\ FireOK' /\ LockOK' /\ OwnOK'
<1> SUFFICES ASSUME ObeyedOK,
                    (ButtonUpdate /\ UNCHANGED lockoutVars) \/ RingUpdate \/ DetectorUpdate
             PROVE  RawOK' /\ TimerOK' /\ FireOK' /\ LockOK' /\ OwnOK'
  OBVIOUS
<1> USE Constants DEF ObeyedOK
<1>1. Pass
  BY EachPass
<1>2. /\ UNCHANGED <<time, level, steady, held, kind>> /\ idle > 0 /\ idle' = 0
      /\ rawLast' = level /\ lastChange' = ChangeSeen /\ sampled' = TRUE
      /\ debounced' = Settled /\ late' = (late /\ (held # 0 \/ Settled))
      /\ acted' = acted \/ (Settled /\ acted' = acted \cup {action'})
      /\ time \in Nat /\ steady \in Nat /\ held \in Nat /\ idle \in Nat
  BY <1>1 DEF Pass, Debounces, InputsOK, TimesOK
<1>3. Longest' = Longest /\ Longest \in Nat /\ idle <= Longest
      /\ Debounce + Longest < Modulus /\ FactoryResetHold + Longest <= Modulus
  BY <1>2, Passes DEF Longest, InputsOK, TimesOK, RawOK
<1>4. RawOK'
  BY <1>2, <1>3 DEF RawOK, Unchanged
<1>5. /\ ChangeSeen \in 0..(Modulus - 1) /\ Start \in 0..(Modulus - 1)
      /\ Since(ChangeSeen) \in 0..(Modulus - 1) /\ HeldFor \in 0..(Modulus - 1)
  <2>1. Clock \in 0..(Modulus - 1)
    BY <1>2 DEF Clock
  <2>2. ChangeSeen \in 0..(Modulus - 1) /\ Start \in 0..(Modulus - 1)
    BY <2>1 DEF ChangeSeen, Start, InputsOK, TimesOK
  <2>3. ASSUME NEW x \in 0..(Modulus - 1) PROVE Since(x) \in 0..(Modulus - 1)
    BY <2>1 DEF Since
  <2> QED
    BY <2>2, <2>3 DEF HeldFor
(* The timer, where the level is the one of the last pass.                 *)
<1>6. ASSUME level, Unchanged, ~debounced, steady > Longest
      PROVE  \E r \in 0..(Debounce - 1) :
                 Since(ChangeSeen) = idle + r /\ steady - idle <= r + Longest
  <2>1. sampled /\ rawLast = level
    <3>1. sampled
      <4>1. steady <= time /\ (~sampled => time = idle)
        BY DEF RawOK
      <4> QED
        BY <1>2, <1>3, <1>6, <4>1
    <3> QED
      BY <1>6, <3>1, Zenon DEF RawOK
  <2>2. ChangeSeen = lastChange
    BY <2>1 DEF ChangeSeen
  <2>3. PICK r \in 0..(Debounce - 1) :
            lastChange = (time - idle - r) % Modulus /\ steady - idle <= r + Longest
    BY <1>6, <2>1 DEF TimerOK
  <2>4. r \in Nat /\ idle + r \in Nat /\ time - idle - r = time - (idle + r) /\ idle + r < Modulus
    BY <1>2, <1>3, <2>3
  <2>5. Since(ChangeSeen) = (idle + r) % Modulus
    <3> DEFINE e == idle + r
    <3>1. e \in Nat /\ ChangeSeen = (time - e) % Modulus
      BY <2>2, <2>3, <2>4
    <3> HIDE DEF e
    <3>2. Since(ChangeSeen) = e % Modulus
      BY <3>1, SinceSeen DEF InputsOK
    <3> QED
      BY <3>2 DEF e
  <2>6. (idle + r) % Modulus = idle + r
    BY <2>4, SmallRemainder
  <2> QED
    BY <2>3, <2>5, <2>6
<1>7. TimerOK'
  <2> SUFFICES ASSUME level, ~Settled
               PROVE  \E r \in 0..(Debounce - 1) :
                          lastChange' = (time - 0 - r) % Modulus /\ steady - 0 <= r + Longest
    BY <1>2, <1>3 DEF TimerOK
  <2> DEFINE r == Since(ChangeSeen)
  <2>1. r < Debounce /\ ~debounced
    <3>1. ~(Since(ChangeSeen) >= Debounce) /\ ~debounced
      BY Zenon DEF Settled
    <3> QED
      BY <1>5, <3>1
  <2>2. ChangeSeen = (time - r) % Modulus
    BY <1>5, SeenBack DEF InputsOK
  <2>3. steady <= r + Longest
    <3>1. CASE steady <= Longest
      <4>1. r \in Nat
        BY <1>5
      <4> HIDE DEF r
      <4> QED
        BY <1>2, <1>3, <3>1, <4>1
    <3>2. CASE steady > Longest
      <4>1. Unchanged
        BY <1>2, <1>3, <3>2 DEF Unchanged
      <4>2. PICK s \in 0..(Debounce - 1) : r = idle + s /\ steady - idle <= s + Longest
        BY <1>6, <2>1, <3>2, <4>1
      <4> HIDE DEF r
      <4> QED
        BY <1>2, <1>3, <4>2
    <3> QED
      BY <1>2, <1>3, <3>1, <3>2
  <2>4. r \in 0..(Debounce - 1) /\ time - 0 - r = time - r /\ steady - 0 = steady
    BY <1>2, <1>5, <2>1
  <2> HIDE DEF r
  <2> QED
    BY <1>2, <2>2, <2>3, <2>4
<1>8. FireOK'
  <2> SUFFICES ASSUME kind = "config", Settled, ~resetFired'
               PROVE  \E h \in 0..(FactoryResetHold - 1) :
                         /\ pressStart' = (time - 0 - h) % Modulus
                         /\ level => steady - 0 <= h + Debounce + 2 * Longest
    BY <1>2, <1>3 DEF FireOK
  <2>1. pressStart' = Start /\ ~Fired(resetFired) /\ Decided # "FACTORY_RESET"
    BY <1>1 DEF Pass
  <2>2. HeldFor < FactoryResetHold
    BY <1>5, <2>1 DEF Decided
  <2>3. Start = (time - HeldFor) % Modulus
    BY <1>5, SeenBack DEF HeldFor, InputsOK
  <2>4. level => steady <= HeldFor + Debounce + 2 * Longest
    <3> SUFFICES ASSUME level, steady > 2 * Longest
                 PROVE  steady <= HeldFor + Debounce + 2 * Longest
      BY <1>2, <1>3, <1>5
    <3>1. Unchanged
      BY <1>2, <1>3 DEF Unchanged
    <3>2. CASE ~debounced
      BY <1>2, <1>3, <1>5, <1>6, <3>1, <3>2
    <3>3. CASE debounced
      <4>1. ~NewPress /\ ~resetFired
        BY <2>1, <3>3 DEF NewPress, Fired
      <4>2. PICK h \in 0..(FactoryResetHold - 1) :
                /\ pressStart = (time - idle - h) % Modulus
                /\ steady - idle <= h + Debounce + 2 * Longest
        BY <3>1, <3>3, <4>1 DEF FireOK
      <4>3. h \in Nat /\ idle + h \in Nat /\ time - idle - h = time - (idle + h)
            /\ idle + h < Modulus
        BY <1>2, <1>3, <4>2
      <4>4. HeldFor = (idle + h) % Modulus
        <5> DEFINE e == idle + h
        <5>1. e \in Nat /\ pressStart = (time - e) % Modulus
          BY <4>2, <4>3
        <5> HIDE DEF e
        <5>2. Since(pressStart) = e % Modulus
          BY <5>1, SinceSeen DEF InputsOK
        <5> QED
          BY <4>1, <5>2 DEF e, HeldFor, Start
      <4>5. (idle + h) % Modulus = idle + h
        BY <4>3, SmallRemainder
      <4> QED
        BY <1>2, <1>3, <4>2, <4>3, <4>4, <4>5
    <3> QED
      BY <3>2, <3>3
  <2> DEFINE h == HeldFor
  <2>5. h \in 0..(FactoryResetHold - 1) /\ time - 0 - h = time - h /\ steady - 0 = steady
    BY <1>2, <1>5, <2>2
  <2>6. pressStart' = (time - h) % Modulus /\ (level => steady <= h + Debounce + 2 * Longest)
    BY <2>1, <2>3, <2>4
  <2> HIDE DEF h
  <2> QED
    BY <2>5, <2>6
<1>9. LockOK'
  <2>1. CASE RingUpdate
    <3>1. lockoutActive' = LockoutAfter
      BY <2>1 DEF RingUpdate
    <3>2. CASE Rings
      BY <1>2, <2>1, <3>2 DEF RingUpdate, LockOK
    <3>3. CASE ~Rings
      <4>1. lockoutActive' => LockedOut
        BY <3>1, <3>3 DEF LockoutAfter
      <4>2. LockedOut => time < lastRing + Lockout
        BY StillLocked DEF InputsOK
      <4>3. lastRing' = lastRing /\ time' - idle' = time' /\ kind' = "ring"
        BY <1>2, <2>1, <3>3 DEF RingUpdate
      <4> QED
        BY <1>2, <4>1, <4>2, <4>3 DEF LockOK
    <3> QED
      BY <3>2, <3>3
  <2>2. CASE (ButtonUpdate /\ UNCHANGED lockoutVars) \/ DetectorUpdate
    BY <1>2, <2>2 DEF LockOK, lockoutVars, ButtonUpdate, DetectorUpdate
  <2> QED
    BY <2>1, <2>2
<1>10. OwnOK'
  <2> SUFFICES ASSUME ~late', held # 0, Settled
               PROVE  /\ kind = "config" /\ resetFired' => "FACTORY_RESET" \in acted'
                      /\ kind = "ring" =>
                            "RING" \in acted' \/ time - (held - 1) < lastRing' + Lockout
    BY <1>2 DEF OwnOK
  <2>1. ~late
    BY <1>2
  <2>2. debounced \/ NewPress
    BY DEF NewPress
  <2>3. ASSUME kind = "config", resetFired' PROVE "FACTORY_RESET" \in acted'
    <3>1. ButtonUpdate
      BY <2>3 DEF RingUpdate, DetectorUpdate
    <3>2. Fired(resetFired) \/ Decided = "FACTORY_RESET"
      BY <2>3, <3>1 DEF ButtonUpdate
    <3>3. acted \subseteq acted' /\ (Decided = "FACTORY_RESET" => Decided \in acted')
      BY <3>1 DEF ButtonUpdate
    <3> QED
      BY <2>1, <2>2, <2>3, <3>2, <3>3 DEF Fired, OwnOK
  <2>4. ASSUME kind = "ring"
        PROVE  "RING" \in acted' \/ time - (held - 1) < lastRing' + Lockout
    <3>1. RingUpdate
      BY <2>4 DEF ButtonUpdate, DetectorUpdate
    <3>2. CASE Rings
      BY <3>1, <3>2 DEF RingUpdate
    <3>3. CASE ~Rings
      <4>1. acted' = acted /\ lastRing' = lastRing
        BY <3>1, <3>3 DEF RingUpdate
      <4>2. CASE debounced
        BY <2>1, <2>4, <4>1, <4>2 DEF OwnOK
      <4>3. CASE NewPress
        <5>1. time < lastRing + Lockout
          BY <3>3, <4>3, StillLocked DEF Rings, InputsOK
        <5> QED
          BY <1>2, <4>1, <5>1 DEF InputsOK, TimesOK
      <4> QED
        BY <2>2, <4>2, <4>3
    <3> QED
      BY <3>2, <3>3
  <2> QED
    BY <2>3, <2>4
<1> QED
  BY <1>4, <1>7, <1>8, <1>9, <1>10

LEMMA ObeyedStep == ObeyedOK /\ [InputsNext]_inputVars => ObeyedOK'
<1> SUFFICES ASSUME ObeyedOK, [InputsNext]_inputVars PROVE ObeyedOK'
  OBVIOUS
<1>1. InputsOK' /\ LockoutOK'
  BY InputsStep, LockoutStep DEF ObeyedOK, InputsOK
<1>2. CASE UNCHANGED inputVars
  BY <1>1, <1>2
  DEF ObeyedOK, RawOK, TimerOK, FireOK, LockOK, OwnOK, Unchanged, Longest, inputVars, buttonVars,
      contactVars, controllerVars, debounceVars, holdVars, lockoutVars
<1>3. CASE InputsNext
  BY <1>1, <1>3, ElapseObeys, PassObeys DEF InputsNext, ObeyedOK
<1> QED
  BY <1>2, <1>3

LEMMA InitObeyed == InputsInit /\ kind \in {"config", "ring", "detector"} => ObeyedOK
<1> SUFFICES ASSUME InputsInit, kind \in {"config", "ring", "detector"} PROVE ObeyedOK
  OBVIOUS
<1>1. InputsOK
  BY InitInputs
<1>2. Longest \in Nat
  BY Passes
<1> QED
  BY <1>1, <1>2, Constants
  DEF InputsInit, ButtonInit, ObeyedOK, LockoutOK, RawOK, TimerOK, FireOK, LockOK, OwnOK

(* A contact that stays closed long enough is obeyed, wherever the clock   *)
(* wraps and whatever happened before: the configuration button resets,    *)
(* the ring button rings unless the press began under a lockout, for any   *)
(* thresholds and any passes shorter than half the counter's range.        *)
THEOREM PressObeyedAlways == Spec => []PressObeyed
<1>1. ObeyedOK => HoldObeyed
  <2> SUFFICES ASSUME ObeyedOK, kind = "config", level, idle = 0,
                      steady >= FactoryResetHold + Debounce + 2 * Longest
               PROVE  resetFired /\ (~late => "FACTORY_RESET" \in acted)
    BY DEF HoldObeyed, Longest
  <2> USE Constants DEF ObeyedOK
  <2>1. steady \in Nat /\ time \in Nat /\ held # 0 /\ Unchanged /\ Longest \in Nat \ {0}
    BY Passes DEF InputsOK, TimesOK, PressOK, Unchanged
  <2>2. sampled
    <3>1. steady <= time /\ (~sampled => time = idle)
      BY DEF RawOK
    <3> QED
      BY <2>1, <3>1
  <2>3. debounced
    BY <2>1, <2>2 DEF TimerOK
  <2>4. resetFired
    BY <2>1, <2>3 DEF FireOK
  <2> QED
    BY <2>1, <2>3, <2>4 DEF OwnOK
<1>2. ObeyedOK => RingObeyed
  <2> SUFFICES ASSUME ObeyedOK, kind = "ring", level, idle = 0, ~late,
                      steady >= Debounce + Longest, time - (held - 1) >= lastRing + Lockout
               PROVE  "RING" \in acted
    BY DEF RingObeyed, Watched, Longest
  <2> USE Constants DEF ObeyedOK
  <2>1. /\ steady \in Nat /\ time \in Nat /\ held \in Nat /\ held # 0 /\ Unchanged
        /\ Longest \in Nat \ {0} /\ lastRing \in Int
    BY Passes DEF InputsOK, TimesOK, PressOK, Unchanged
  <2>2. sampled
    <3>1. steady <= time /\ (~sampled => time = idle)
      BY DEF RawOK
    <3> QED
      BY <2>1, <3>1
  <2>3. debounced
    BY <2>1, <2>2 DEF TimerOK
  <2>4. ~(time - (held - 1) < lastRing + Lockout)
    BY <2>1
  <2> QED
    BY <2>1, <2>3, <2>4 DEF OwnOK
<1> QED
  BY <1>1, <1>2, InputsAlone, InitObeyed, ObeyedStep, PTL DEF InputsSpec, PressObeyed

=============================================================================
