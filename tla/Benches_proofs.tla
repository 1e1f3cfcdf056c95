---------------------------- MODULE Benches_proofs ----------------------------
(***************************************************************************)
(* Theorems about the components of Benches that are not debounced inputs  *)
(* (those are in RingInputs_proofs): the MQTT client for every set of      *)
(* addresses, the bring-up of the Si3050 for every configuration, the      *)
(* clock meter for every limit of its counters, and the command parser.    *)
(*                                                                         *)
(* A behaviour of Benches is one of each component by itself, so that each *)
(* one's invariant is proved of its own actions alone.                     *)
(***************************************************************************)
EXTENDS Benches, TLAPS

ClientSpec == ClientInit /\ [][ClientNext]_clientVars
BringUpSpec == BringUpInit /\ [][BringUpNext]_bringUpVars
MeterSpec == MeterInit /\ [][MeterNext]_meterVars
ParserSpec == ParserInit /\ [][ParseCommand]_parserVars

LEMMA EachComponent ==
    Spec => ClientSpec /\ BringUpSpec /\ MeterSpec /\ ParserSpec
<1>1. Init => ClientInit /\ BringUpInit /\ MeterInit /\ ParserInit
  BY DEF Init
<1>2. [Next]_vars => /\ [ClientNext]_clientVars /\ [BringUpNext]_bringUpVars
                     /\ [MeterNext]_meterVars /\ [ParseCommand]_parserVars
  BY DEF Next, vars
<1> QED
  BY <1>1, <1>2, PTL DEF Spec, ClientSpec, BringUpSpec, MeterSpec, ParserSpec

----------------------------------------------------------------------------
(* The MQTT client.                                                        *)

(* The statements of connect() after the teardown.                         *)
Dialling == {"credentials", "configure", "begin", "swap", "connect"}

(* What each statement of connect() finds.  The pointers agree but between *)
(* begin() and the swap; a TLS client that was just made is known neither  *)
(* to the transport nor to a connection; nothing is open while dialling.   *)
PointersOK ==
    /\ clientPc \in {"idle"} \cup Dialling
    /\ open \subseteq Sockets /\ alive \subseteq Sockets
    /\ owned # 0 => owned \in alive
    /\ clientPc # "swap" => bound = owned
    /\ clientPc \in {"begin", "swap"} =>
           freshTls # owned /\ freshTls \in alive \ (tried \cup stalePem)
    /\ clientPc = "swap" => bound = freshTls
    /\ clientPc = "connect" => owned # 0 /\ bound \notin tried \cup stalePem
    /\ tried \cup stalePem \subseteq alive
    /\ IF clientPc \in Dialling THEN open = {} ELSE open \subseteq {owned} \ stalePem

LEMMA InitPointers == ClientInit => PointersOK
  BY DEF ClientInit, PointersOK, Dialling

LEMMA PointersStep == PointersOK /\ [ClientNext]_clientVars => PointersOK'
<1> SUFFICES ASSUME PointersOK, [ClientNext]_clientVars PROVE PointersOK'
  OBVIOUS
<1> USE SocketsAssumption DEF SocketsAssumption, PointersOK, Dialling, socketVars
<1>1. CASE TransportConnects
  BY <1>1 DEF TransportConnects, TeardownSocket
<1>2. CASE ConnectRefused
  BY <1>2 DEF ConnectRefused
<1>3. CASE CredentialsLoaded
  BY <1>3 DEF CredentialsLoaded
<1>4. CASE AllocatesTls
  BY <1>4 DEF AllocatesTls, TeardownSocket, FreshSockets
<1>5. CASE BindsLibrary
  BY <1>5 DEF BindsLibrary
<1>6. CASE SwapsTls
  <2> DEFINE old == {owned} \ {freshTls}
  <2>1. /\ alive' = alive \ old /\ open' = open \ old
        /\ tried' = tried \ old /\ stalePem' = stalePem \ old
        /\ owned' = freshTls /\ bound' = bound /\ bound = freshTls
        /\ clientPc' = "connect" /\ freshTls \in alive \ (tried \cup stalePem)
    BY <1>6 DEF SwapsTls
  <2>2. owned' # 0 /\ open' = {} /\ tried' \cup stalePem' \subseteq alive'
    BY <1>6, <2>1 DEF SwapsTls
  <2> QED
    BY <2>1, <2>2
<1>7. CASE ClientConnects
  <2>1. /\ clientPc = "connect" /\ clientPc' = "idle" /\ tried' = tried \cup {bound}
        /\ UNCHANGED <<owned, bound, freshTls, alive, stalePem>>
    BY <1>7 DEF ClientConnects
  <2>2. open' = open \cup {bound} \/ open' = open
    BY <1>7 DEF ClientConnects
  <2>3. open = {} /\ bound = owned /\ bound \in alive \ stalePem
    BY <2>1
  <2> QED
    BY <2>1, <2>2, <2>3
<1>8. CASE RequestFails
  BY <1>8 DEF RequestFails
<1>9. CASE PollFails
  BY <1>9 DEF PollFails
<1>10. CASE TransportDisconnects
  BY <1>10 DEF TransportDisconnects, TeardownSocket
<1>11. CASE PeerHangsUp
  BY <1>11 DEF PeerHangsUp
<1>12. CASE UNCHANGED clientVars
  BY <1>12 DEF clientVars
<1> QED
  BY <1>1, <1>2, <1>3, <1>4, <1>5, <1>6, <1>7, <1>8, <1>9, <1>10, <1>11, <1>12 DEF ClientNext

(* The library's pointer never dangles, no TLS client is connected twice,  *)
(* and no socket stays open behind the one in use or over PEM buffers that *)
(* were overwritten (ArduinoMqttClient in mqtt_transport.cpp).             *)
THEOREM SocketsCorrect == Spec => []FreshSocket
<1>1. PointersOK => FreshSocket
  BY DEF PointersOK, Dialling, FreshSocket
<1> QED
  BY <1>1, EachComponent, InitPointers, PointersStep, PTL DEF ClientSpec

----------------------------------------------------------------------------
(* The bring-up of the Si3050.                                             *)

(* Division: of two products the quotient is at least the smaller factor.  *)
LEMMA QuotientCovers ==
    ASSUME NEW a \in Nat, NEW b \in Nat \ {0}, NEW c \in Nat, a >= c * b
    PROVE  a \div b >= c
<1> DEFINE q == a \div b
<1>1. q \in Int /\ a < (q + 1) * b
  OBVIOUS
<1>2. SUFFICES ASSUME q + 1 <= c PROVE FALSE
  BY <1>1
<1>3. (q + 1) * b <= c * b
  BY <1>1, <1>2
<1> QED
  BY <1>1, <1>3

(* A wait rounded up to whole microseconds holds the cycles it stands for. *)
LEMMA WaitsLongEnough ==
    ASSUME NEW c \in Nat, config.pclkHz \in Nat \ {0}, MicrosPerSecond \in Nat \ {0}
    PROVE  CyclesIn(CyclesToMicroseconds(c)) >= c
<1> DEFINE p == config.pclkHz
           m == MicrosPerSecond
           w == (c * m + p - 1) \div p
<1>1. w \in Nat /\ w * p >= c * m
  OBVIOUS
<1>2. w * p \in Nat
  BY <1>1
<1>3. (w * p) \div m >= c
  BY <1>1, <1>2, QuotientCovers
<1> QED
  BY <1>3 DEF CyclesIn, CyclesToMicroseconds

(* The tracker and the driver.  A driver is there only while the clock     *)
(* runs, between its install and the end of start(), or when a release of  *)
(* it failed, which bars the next start; a recorded failure never meets an *)
(* install that may go ahead.  And where initialize() is with the chip.    *)
ClockOK ==
    /\ config \in Configs
    /\ drivers \in {0, 1}
    /\ running => drivers = 1 /\ ~teardownFailed
    /\ pc \in {"pins", "zero", "rollback"} => drivers = 1 /\ ~running
    /\ pc \in {"pins", "zero"} => ~teardownFailed
    /\ ~running /\ ~teardownFailed /\ pc \notin {"pins", "zero", "rollback"} => drivers = 0
    /\ hasFailed => teardownFailed \/ pc = "rollback"
    /\ pins \in [deselected: BOOLEAN, sclkHigh: BOOLEAN, reset: BOOLEAN]
    /\ pc # "idle" => config.pclkHz # 0 /\ ~ready
    /\ drivers # 0 => driverInstalled
    /\ pc = "settle" \/ ready <=> ~pins.reset
    /\ pc = "settle" \/ ready => running
    /\ pc = "settle" => clocked >= ResetCycles
    /\ ready => clocked >= SettleCycles

LEMMA InitClock == BringUpInit => ClockOK
<1> SUFFICES ASSUME BringUpInit PROVE ClockOK
  OBVIOUS
<1>1. pins \in [deselected: BOOLEAN, sclkHigh: BOOLEAN, reset: BOOLEAN]
  BY DEF BringUpInit
<1> QED
  BY <1>1 DEF BringUpInit, ClockOK

LEMMA ClockStep == ClockOK /\ [BringUpNext]_bringUpVars => ClockOK'
<1> SUFFICES ASSUME ClockOK, [BringUpNext]_bringUpVars PROVE ClockOK'
  OBVIOUS
<1> USE DEF ClockOK, clockVars, trackerVars
<1>1. CASE Initialize
  <2>1. CASE config.pclkHz = 0 \/ config.fsyncHz = 0
    BY <1>1, <2>1 DEF Initialize
  <2>2. CASE ~(config.pclkHz = 0 \/ config.fsyncHz = 0)
    <3>1. pins' = [deselected |-> TRUE, sclkHigh |-> TRUE, reset |-> TRUE]
      BY <1>1, <2>2 DEF Initialize
    <3>2. pins' \in [deselected: BOOLEAN, sclkHigh: BOOLEAN, reset: BOOLEAN]
      BY <3>1
    <3> QED
      BY <1>1, <2>2, <3>2 DEF Initialize
  <2> QED
    BY <2>1, <2>2
<1>2. CASE StartSkipped
  BY <1>2 DEF StartSkipped
<1>3. CASE InstallDriver
  BY <1>3 DEF InstallDriver, ShouldStart, AfterInstallFailure
<1>4. CASE SetPins
  <2>1. Step("pins", "zero")
    BY <1>4 DEF SetPins
  <2>2. CASE pc' = "zero" /\ running' = ("zero" = "started") /\ UNCHANGED hasFailed
    BY <2>1, <2>2 DEF Step
  <2>3. CASE pc' = "rollback" /\ hasFailed' = TRUE /\ UNCHANGED running
    BY <2>1, <2>3 DEF Step
  <2> QED
    BY <2>1, <2>2, <2>3 DEF Step
<1>5. CASE ZeroBuffer
  <2>1. Step("zero", "started")
    BY <1>5 DEF ZeroBuffer
  <2>2. CASE pc' = "started" /\ running' = ("started" = "started") /\ UNCHANGED hasFailed
    <3>1. /\ pc = "zero" /\ pc' = "started" /\ running'
          /\ UNCHANGED <<config, ready, pins, driverInstalled, teardownFailed, drivers, clocked,
                        hasFailed>>
      BY <2>1, <2>2 DEF Step
    <3>2. ~teardownFailed /\ ~hasFailed
      BY <3>1
    <3> QED
      BY <3>1, <3>2
  <2>3. CASE pc' = "rollback" /\ hasFailed' = TRUE /\ UNCHANGED running
    BY <2>1, <2>3 DEF Step
  <2> QED
    BY <2>1, <2>2, <2>3 DEF Step
<1>6. CASE RollBack
  <2>1. PICK succeeded \in BOOLEAN : /\ RecordUninstall(succeeded)
                                     /\ drivers' \in IF succeeded THEN {0} ELSE 0..drivers
    BY <1>6 DEF RollBack, Uninstall
  <2>2. CASE succeeded
    BY <1>6, <2>1, <2>2 DEF RollBack, RecordUninstall
  <2>3. CASE ~succeeded
    <3>1. teardownFailed' /\ ~running' /\ driverInstalled'
      BY <2>1, <2>3, Zenon DEF RecordUninstall
    <3>2. teardownFailed' /\ ~running' /\ driverInstalled' /\ drivers' \in {0, 1}
      BY <2>1, <2>3, <3>1
    <3>3. pc' \in {"idle", "started"} /\ UNCHANGED <<config, ready, pins, clocked>>
      BY <1>6 DEF RollBack
    <3> QED
      BY <1>6, <3>2, <3>3 DEF RollBack
  <2> QED
    BY <2>2, <2>3
<1>7. CASE GiveUp
  BY <1>7 DEF GiveUp, ClockRunning
<1>8. CASE ReleaseReset
  <2>1. clocked' >= ResetCycles
    BY <1>8, BringUpAssumption, WaitsLongEnough
    DEF BringUpAssumption, ReleaseReset, ClockRunning
  <2>2. pins' \in [deselected: BOOLEAN, sclkHigh: BOOLEAN, reset: BOOLEAN] /\ ~pins'.reset
    BY <1>8 DEF ReleaseReset
  <2> QED
    BY <1>8, <2>1, <2>2 DEF ReleaseReset, ClockRunning
<1>9. CASE Settle
  <2>1. clocked' >= SettleCycles
    BY <1>9, BringUpAssumption, WaitsLongEnough DEF BringUpAssumption, Settle
  <2> QED
    BY <1>9, <2>1 DEF Settle
<1>10. CASE Stop
  <2>1. PICK succeeded \in BOOLEAN : /\ RecordUninstall(succeeded)
                                     /\ drivers' \in IF succeeded THEN {0} ELSE 0..drivers
    BY <1>10 DEF Stop, Uninstall
  <2>2. CASE succeeded
    BY <1>10, <2>1, <2>2 DEF Stop, RecordUninstall
  <2>3. CASE ~succeeded
    <3>1. teardownFailed' /\ ~running' /\ driverInstalled'
      BY <2>1, <2>3, Zenon DEF RecordUninstall
    <3>2. teardownFailed' /\ ~running' /\ driverInstalled' /\ drivers' \in {0, 1}
      BY <2>1, <2>3, <3>1
    <3>3. pc' \in {"idle", "started"} /\ UNCHANGED <<config, ready, pins, clocked>>
      BY <1>10 DEF Stop
    <3> QED
      BY <1>10, <3>2, <3>3 DEF Stop
  <2> QED
    BY <2>2, <2>3
<1>11. CASE PowerCycle
  <2>1. pins' = [deselected |-> FALSE, sclkHigh |-> FALSE, reset |-> TRUE]
    BY <1>11 DEF PowerCycle
  <2>2. pins' \in [deselected: BOOLEAN, sclkHigh: BOOLEAN, reset: BOOLEAN]
    BY <2>1
  <2> QED
    BY <1>11, <2>2 DEF PowerCycle
<1>12. CASE UNCHANGED bringUpVars
  BY <1>12 DEF bringUpVars
<1> QED
  BY <1>1, <1>2, <1>3, <1>4, <1>5, <1>6, <1>7, <1>8, <1>9, <1>10, <1>11, <1>12
  DEF BringUpNext, InitializeSteps

(* The driver is never installed on top of one that may still be active,   *)
(* whatever fails in whatever order (si3050_pcm_clock.cpp:86-91).          *)
THEOREM DriverNeverDoubled == Spec => []OneDriver
<1>1. ClockOK => OneDriver
  BY DEF ClockOK, OneDriver
<1> QED
  BY <1>1, EachComponent, InitClock, ClockStep, PTL DEF BringUpSpec

(* No driver outlives the tracker's knowledge of it: whatever failed, the  *)
(* one that may be active is one that stop() will release                  *)
(* (si3050_pcm_clock.cpp:63-97).                                           *)
THEOREM NoDriverLost == Spec => []DriverAccounted
<1>1. ClockOK => DriverAccounted
  BY DEF ClockOK, DriverAccounted
<1> QED
  BY <1>1, EachComponent, InitClock, ClockStep, PTL DEF BringUpSpec

(* The chip leaves /RESET, and SPI is permitted, only under a driver and   *)
(* after the PCLK cycles each of them asks for, for every clock: the waits *)
(* are rounded up (Si3050Controller).                                      *)
THEOREM SpiOnlyAfterSettle == Spec => []SpiAfterSettle
<1>1. ClockOK => SpiAfterSettle
  BY DEF ClockOK, SpiAfterSettle
<1> QED
  BY <1>1, EachComponent, InitClock, ClockStep, PTL DEF BringUpSpec

----------------------------------------------------------------------------
(* The clock meter.                                                        *)

(* The first unit's sample waits for the second one's.                     *)
Sampled(u) == u = "pclk" /\ sampling = "fsync" /\ meterPc \in {"take", "read", "clear"}

(* The edges the meter may yet report of unit u: those of the overflows    *)
(* counted or to be counted, of the sample in hand and of the counter,     *)
(* which is in the sample once it has been read and until it is cleared.   *)
Overflowed(u) == over[u] * HLimit + (IF pending[u] THEN HLimit ELSE 0)
TakenOver(u) ==
    IF Sampled(u) \/ (u = sampling /\ meterPc \in {"read", "clear"})
    THEN got[u].over * HLimit ELSE 0
TakenRaw(u) == IF Sampled(u) \/ (u = sampling /\ meterPc = "clear") THEN got[u].raw ELSE 0
Standing(u) == IF u = sampling /\ meterPc = "clear" THEN 0 ELSE raw[u]

(* The books of a unit: what was reported and may yet be is covered by the *)
(* edges there were, and by a full counter for every overflow that fell    *)
(* between a reading and its clearing.                                     *)
Covered(u) ==
    reported[u] + Overflowed(u) + TakenOver(u) + TakenRaw(u) + Standing(u)
        <= edges[u] + (HLimit - 1) * torn[u]

(* The types of the numbers and of the flags, apart; setup() ends with the *)
(* seventh step of the bring-up.                                           *)
NumbersOK ==
    /\ meterPc \in {"setup", "dead", "loop", "take", "read", "clear"}
    /\ sampling \in Units
    /\ brought \in 0..7 /\ (meterPc = "setup" => brought < 7)
    /\ raw \in [Units -> 0..(HLimit - 1)]
    /\ over \in [Units -> Nat] /\ edges \in [Units -> Nat]
    /\ reported \in [Units -> Nat] /\ torn \in [Units -> Nat]
    /\ got \in [Units -> [over: Nat, raw: Nat]]

MeterOK ==
    /\ NumbersOK
    /\ pending \in [Units -> BOOLEAN]
    /\ \A u \in Units : Covered(u)

LEMMA InitMeter == MeterInit => MeterOK
<1> SUFFICES ASSUME MeterInit PROVE MeterOK
  OBVIOUS
<1>1. HLimit \in Nat \ {0}
  BY MeterAssumption DEF MeterAssumption
<1>2. NumbersOK
  BY <1>1 DEF MeterInit, NumbersOK, NoEdges, Units
<1>3. pending \in [Units -> BOOLEAN]
  BY DEF MeterInit
<1>4. ASSUME NEW u \in Units PROVE Covered(u)
  BY <1>1, <1>4 DEF MeterInit, NoEdges, Covered, Overflowed, TakenOver, TakenRaw, Standing, Sampled
<1> QED
  BY <1>2, <1>3, <1>4 DEF MeterOK

LEMMA PendingTyped ==
    pending \in [Units -> BOOLEAN] /\ [MeterNext]_meterVars => pending' \in [Units -> BOOLEAN]
<1> SUFFICES ASSUME pending \in [Units -> BOOLEAN], [MeterNext]_meterVars
             PROVE  pending' \in [Units -> BOOLEAN]
  OBVIOUS
<1>1. CASE UNCHANGED pending
  BY <1>1
<1>2. ASSUME NEW u \in Units, Edge(u) PROVE pending' \in [Units -> BOOLEAN]
  <2> DEFINE flag == pending[u] \/ raw[u] + 1 = HLimit
  <2>1. flag \in BOOLEAN
    OBVIOUS
  <2>2. pending' = [pending EXCEPT ![u] = flag]
    BY <1>2 DEF Edge
  <2> HIDE DEF flag
  <2> QED
    BY <2>1, <2>2
<1>3. ASSUME NEW u \in Units, Overflow(u) PROVE pending' \in [Units -> BOOLEAN]
  <2>1. pending' = [pending EXCEPT ![u] = FALSE]
    BY <1>3 DEF Overflow
  <2> QED
    BY <2>1
<1> QED
  BY <1>1, <1>2, <1>3
  DEF MeterNext, BringUp, WindowEnds, TakeOverflows, ReadCounter, ClearCounter, counterVars,
      meterVars

LEMMA NumbersTyped == NumbersOK /\ [MeterNext]_meterVars => NumbersOK'
<1> SUFFICES ASSUME NumbersOK, [MeterNext]_meterVars PROVE NumbersOK'
  OBVIOUS
<1>0. HLimit \in Nat \ {0}
  BY MeterAssumption DEF MeterAssumption
<1> USE DEF NumbersOK, counterVars
<1>1. CASE BringUp
  <2>1. Len(BringUpSteps) = 7
    BY DEF BringUpSteps
  <2>2. CASE brought' = brought + 1 /\ meterPc' = IF brought' = 7 THEN "loop" ELSE "setup"
    BY <1>1, <2>2 DEF BringUp
  <2>3. CASE meterPc' = "dead" /\ UNCHANGED brought
    BY <1>1, <2>3 DEF BringUp
  <2> QED
    BY <1>1, <2>1, <2>2, <2>3 DEF BringUp
<1>2. ASSUME NEW u \in Units, Edge(u) PROVE NumbersOK'
  <2>1. (raw[u] + 1) % HLimit \in 0..(HLimit - 1)
    BY <1>0
  <2>2. raw' = [raw EXCEPT ![u] = (raw[u] + 1) % HLimit]
    BY <1>2 DEF Edge
  <2>3. raw' \in [Units -> 0..(HLimit - 1)]
    BY <2>1, <2>2
  <2>4. edges' = [edges EXCEPT ![u] = edges[u] + 1]
    BY <1>2 DEF Edge
  <2>5. torn' = [torn EXCEPT ![u] = torn[u] + 1] \/ torn' = torn
    BY <1>2 DEF Edge
  <2>6. edges' \in [Units -> Nat] /\ torn' \in [Units -> Nat]
    BY <2>4, <2>5
  <2> QED
    BY <1>2, <2>3, <2>6 DEF Edge
<1>3. ASSUME NEW u \in Units, Overflow(u) PROVE NumbersOK'
  BY <1>0, <1>3 DEF Overflow
<1>4. CASE WindowEnds
  BY <1>4 DEF WindowEnds, Units
<1>5. CASE TakeOverflows
  <2>1. got' = [got EXCEPT ![sampling].over = over[sampling]]
    BY <1>5 DEF TakeOverflows
  <2>2. got' \in [Units -> [over: Nat, raw: Nat]]
    BY <2>1
  <2> QED
    BY <1>5, <2>2 DEF TakeOverflows, OverflowsLeft
<1>6. CASE ReadCounter
  <2>1. got' = [got EXCEPT ![sampling].raw = raw[sampling]]
    BY <1>6 DEF ReadCounter
  <2>2. got' \in [Units -> [over: Nat, raw: Nat]]
    BY <2>1, <1>0
  <2> QED
    BY <1>6, <2>2 DEF ReadCounter
<1>7. CASE ClearCounter
  <2>1. ASSUME NEW u \in Units PROVE reported[u] + PulseCount(got[u]) \in Nat
    <3>1. got[u].over \in Nat /\ got[u].raw \in Nat /\ reported[u] \in Nat
      OBVIOUS
    <3>2. PICK h \in Nat : h = got[u].over * HLimit
      BY <1>0, <3>1
    <3> QED
      BY <3>1, <3>2 DEF PulseCount
  <2>2. reported' = [u \in Units |-> reported[u] + PulseCount(got[u])] \/ reported' = reported
    BY <1>7 DEF ClearCounter
  <2>3. reported' \in [Units -> Nat]
    BY <2>1, <2>2
  <2>4. raw' \in [Units -> 0..(HLimit - 1)]
    BY <1>0, <1>7 DEF ClearCounter
  <2>5. meterPc' \in {"take", "loop"} /\ sampling' \in Units
    BY <1>7 DEF ClearCounter, Units
  <2> QED
    BY <1>7, <2>3, <2>4, <2>5 DEF ClearCounter
<1>8. CASE UNCHANGED meterVars
  BY <1>8 DEF meterVars
<1> QED
  BY <1>1, <1>2, <1>3, <1>4, <1>5, <1>6, <1>7, <1>8 DEF MeterNext

(* A counter goes on below its limit and returns to 0 at it.               *)
LEMMA CounterWraps ==
    ASSUME NEW h \in Nat \ {0}, NEW r \in 0..(h - 1)
    PROVE  (r + 1) % h = IF r + 1 = h THEN 0 ELSE r + 1
<1>1. CASE r + 1 = h
  BY <1>1
<1>2. CASE r + 1 < h
  <2>1. \A x \in Nat : x < h => x % h = x
    OBVIOUS
  <2> QED
    BY <1>2, <2>1
<1> QED
  BY <1>1, <1>2

LEMMA MeterStep == MeterOK /\ [MeterNext]_meterVars => MeterOK'
<1> SUFFICES ASSUME MeterOK, [MeterNext]_meterVars PROVE MeterOK'
  OBVIOUS
<1>1. NumbersOK /\ NumbersOK' /\ pending' \in [Units -> BOOLEAN]
  BY NumbersTyped, PendingTyped DEF MeterOK
<1> SUFFICES ASSUME NEW u \in Units PROVE Covered(u)'
  BY <1>1 DEF MeterOK
<1>2. Covered(u) /\ HLimit \in Nat \ {0}
  BY MeterAssumption DEF MeterOK, MeterAssumption
<1>3. /\ over[u] \in Nat /\ edges[u] \in Nat /\ reported[u] \in Nat /\ torn[u] \in Nat
      /\ raw[u] \in 0..(HLimit - 1) /\ got[u].over \in Nat /\ got[u].raw \in Nat
  BY <1>1 DEF NumbersOK
<1>4. PICK o \in Nat : o = over[u] * HLimit
  BY <1>2, <1>3
<1>5. PICK g \in Nat : g = got[u].over * HLimit
  BY <1>2, <1>3
<1>6. PICK t \in Nat : t = (HLimit - 1) * torn[u]
  BY <1>2, <1>3
<1> USE <1>2, <1>3, <1>4, <1>5, <1>6
    DEF Covered, Overflowed, TakenOver, TakenRaw, Standing, Sampled, counterVars
<1>7. CASE BringUp
  BY <1>7 DEF BringUp
<1>8. ASSUME NEW w \in Units, Edge(w) PROVE Covered(u)'
  <2>1. /\ UNCHANGED <<meterPc, sampling, over, got, reported>>
        /\ w # u => UNCHANGED <<raw[u], pending[u], edges[u], torn[u]>>
    BY <1>1, <1>8 DEF Edge, NumbersOK, MeterOK
  <2>2. CASE w # u
    BY <2>1, <2>2
  <2>3. CASE w = u /\ raw[u] + 1 # HLimit
    <3>1. (raw[u] + 1) % HLimit = raw[u] + 1
      BY <2>3, CounterWraps
    <3>2. edges'[u] = edges[u] + 1 /\ raw'[u] = raw[u] + 1 /\ torn'[u] = torn[u]
      BY <1>1, <1>8, <2>3, <3>1 DEF Edge, NumbersOK
    <3>3. pending'[u] = pending[u]
      BY <1>8, <2>3 DEF Edge, MeterOK
    <3> QED
      BY <2>1, <3>2, <3>3
  <2>4. CASE w = u /\ raw[u] + 1 = HLimit
    <3>1. (raw[u] + 1) % HLimit = 0
      BY <2>4, CounterWraps
    <3>2. edges'[u] = edges[u] + 1 /\ raw'[u] = 0
      BY <1>1, <1>8, <2>4, <3>1 DEF Edge, NumbersOK
    <3>3. pending'[u] = TRUE
      BY <1>8, <2>4 DEF Edge, MeterOK
    <3>4. CASE meterPc = "clear" /\ sampling = u
      <4>1. torn'[u] = torn[u] + 1
        BY <1>1, <1>8, <2>4, <3>4 DEF Edge, NumbersOK
      <4>2. (HLimit - 1) * torn'[u] = t + (HLimit - 1)
        BY <4>1
      <4> QED
        BY <2>1, <2>4, <3>2, <3>3, <3>4, <4>2
    <3>5. CASE ~(meterPc = "clear" /\ sampling = u)
      <4>1. torn'[u] = torn[u]
        BY <1>8, <2>4, <3>5 DEF Edge
      <4> QED
        BY <2>1, <2>4, <3>2, <3>3, <3>5, <4>1
    <3> QED
      BY <3>4, <3>5
  <2> QED
    BY <2>2, <2>3, <2>4
<1>9. ASSUME NEW w \in Units, Overflow(w) PROVE Covered(u)'
  <2>1. /\ UNCHANGED <<meterPc, sampling, got, reported, edges, torn>>
        /\ w # u => UNCHANGED <<raw[u], pending[u], over[u]>>
    BY <1>1, <1>9 DEF Overflow, NumbersOK, MeterOK
  <2>2. CASE w # u
    BY <2>1, <2>2
  <2>3. CASE w = u
    <3>1. over'[u] = over[u] + 1 /\ raw'[u] = 0
      BY <1>1, <1>9, <2>3 DEF Overflow, NumbersOK
    <3>2. pending[u] = TRUE /\ pending'[u] = FALSE
      BY <1>9, <2>3 DEF Overflow, MeterOK
    <3>3. over'[u] * HLimit = o + HLimit
      BY <3>1
    <3> QED
      BY <2>1, <3>1, <3>2, <3>3
  <2> QED
    BY <2>2, <2>3
<1>10. CASE WindowEnds
  BY <1>10 DEF WindowEnds
<1>11. CASE TakeOverflows
  <2>1. /\ meterPc = "take" /\ meterPc' = "read"
        /\ UNCHANGED <<sampling, raw, pending, edges, reported, torn>>
        /\ u # sampling => UNCHANGED <<over[u], got[u]>>
    BY <1>1, <1>11 DEF TakeOverflows, NumbersOK
  <2>2. CASE u # sampling
    BY <2>1, <2>2
  <2>3. CASE u = sampling
    <3>1. over'[u] = 0 /\ got'[u].over = over[u]
      BY <1>1, <1>11, <2>3 DEF TakeOverflows, OverflowsLeft, NumbersOK
    <3>2. over'[u] * HLimit = 0 /\ got'[u].over * HLimit = o
      BY <3>1
    <3> QED
      BY <2>1, <2>3, <3>2
  <2> QED
    BY <2>2, <2>3
<1>12. CASE ReadCounter
  <2>1. /\ meterPc = "read" /\ meterPc' = "clear"
        /\ UNCHANGED <<sampling, over, raw, pending, edges, reported, torn>>
        /\ got'[u].over = got[u].over
        /\ u # sampling => UNCHANGED got[u]
    BY <1>1, <1>12 DEF ReadCounter, NumbersOK
  <2>2. CASE u # sampling
    BY <2>1, <2>2
  <2>3. CASE u = sampling
    <3>1. got'[u].raw = raw[u]
      BY <1>1, <1>12, <2>3 DEF ReadCounter, NumbersOK
    <3> QED
      BY <2>1, <2>3, <3>1
  <2> QED
    BY <2>2, <2>3
<1>13. CASE ClearCounter
  <2>1. /\ meterPc = "clear" /\ UNCHANGED <<over, pending, got, edges, torn>>
        /\ raw'[u] = IF u = sampling THEN 0 ELSE raw[u]
    BY <1>1, <1>13 DEF ClearCounter, NumbersOK
  <2>2. CASE sampling = "pclk"
    <3>1. meterPc' = "take" /\ sampling' = "fsync" /\ UNCHANGED reported
      BY <1>13, <2>2 DEF ClearCounter
    <3> QED
      BY <2>1, <2>2, <3>1 DEF Units
  <2>3. CASE sampling = "fsync"
    <3>1. meterPc' = "loop" /\ sampling' = "fsync" /\ reported'[u] = reported[u] + (g + got[u].raw)
      BY <1>13, <2>3 DEF ClearCounter, PulseCount
    <3> QED
      BY <2>1, <2>3, <3>1 DEF Units
  <2> QED
    BY <1>1, <2>2, <2>3 DEF NumbersOK, Units
<1>14. CASE UNCHANGED meterVars
  BY <1>14 DEF meterVars
<1> QED
  BY <1>7, <1>8, <1>9, <1>10, <1>11, <1>12, <1>13, <1>14 DEF MeterNext

(* The meter invents no edge but where a counter overflows between its     *)
(* reading and its clearing (sampleAndResetUnit()), for any limit of the   *)
(* counters and any number of windows.                                     *)
THEOREM InventsOnlyTornAlways == Spec => []InventsOnlyTorn
<1>1. MeterOK => InventsOnlyTorn
  <2> SUFFICES ASSUME MeterOK, NEW u \in Units
               PROVE  reported[u] <= edges[u] + (HLimit - 1) * torn[u]
    BY DEF InventsOnlyTorn
  <2>1. Covered(u) /\ HLimit \in Nat \ {0}
    BY MeterAssumption DEF MeterOK, MeterAssumption
  <2>2. /\ over[u] \in Nat /\ edges[u] \in Nat /\ reported[u] \in Nat /\ torn[u] \in Nat
        /\ raw[u] \in Nat /\ got[u].over \in Nat /\ got[u].raw \in Nat
    BY <2>1 DEF MeterOK, NumbersOK
  <2>3. Overflowed(u) \in Nat /\ TakenOver(u) \in Nat /\ TakenRaw(u) \in Nat /\ Standing(u) \in Nat
    BY <2>1, <2>2 DEF Overflowed, TakenOver, TakenRaw, Standing
  <2>4. (HLimit - 1) * torn[u] \in Nat
    BY <2>1, <2>2
  <2> QED
    BY <2>1, <2>2, <2>3, <2>4 DEF Covered
<1> QED
  BY <1>1, EachComponent, InitMeter, MeterStep, PTL DEF MeterSpec

----------------------------------------------------------------------------
(* The command parser.                                                     *)

ParserOK ==
    /\ payload \in Payloads
    /\ parsed = NotParsed \/ parsed = ParseResult(payload)

(* A component off its bench rests: there is such a payload.               *)
LEMMA InitParser == Init => ParserOK
<1> DEFINE empty ==
      [size |-> "fits", json |-> "other", fields |-> {}, protocol_version |-> "not",
       command_id |-> "not", command |-> "not", device_id |-> "not", parameters |-> "not",
       issued_at |-> "not", expires_at |-> "not"]
<1>1. empty \in Payload /\ empty.size = "fits" /\ empty.json = "other" /\ Bare(empty)
  BY DEF Payload, Bare
<1>2. EmptyPayload \in Payload /\ Bare(EmptyPayload)
  <2> HIDE DEF empty
  <2> QED
    BY <1>1 DEF EmptyPayload
<1>3. EmptyPayload \in Payloads
  BY <1>2 DEF Payloads
<1> QED
  BY <1>3 DEF Init, ParserInit, ParserOK, OnBench

LEMMA ParserStep == ParserOK /\ [ParseCommand]_parserVars => ParserOK'
<1> SUFFICES ASSUME ParserOK, [ParseCommand]_parserVars PROVE ParserOK'
  OBVIOUS
<1>1. UNCHANGED <<strict, payload>>
  BY DEF ParseCommand, parserVars
<1>2. ParseResult(payload)' = ParseResult(payload)
  BY <1>1, Zenon DEF ParseResult, ParseStatus, CommandTypeOf, Unlisted, OtherDevice, Unidentified,
                     Incomplete
<1>3. parsed' = parsed \/ parsed' = ParseResult(payload)
  BY DEF ParseCommand, parserVars
<1>4. NotParsed' = NotParsed /\ Payloads' = Payloads
  BY DEF NotParsed, Payloads
<1> QED
  BY <1>1, <1>2, <1>3, <1>4 DEF ParserOK

(* The strict parseCommand() passes to the handler only commands for this  *)
(* device, neither parser passes a physical-control field, and both pass   *)
(* every plain command, whatever the payload.                              *)
THEOREM ParserCorrect == Spec => []PassesOnlyCommands
<1>1. ParserOK => PassesOnlyCommands
  <2> SUFFICES ASSUME payload \in Payloads, parsed = ParseResult(payload)
               PROVE  /\ strict /\ parsed.status = "Ok" => ForThisDevice(payload)
                      /\ parsed.status = "Ok" => "forbidden" \notin payload.fields
                      /\ payload \in PlainCommand => parsed.status = "Ok"
    BY DEF ParserOK, PassesOnlyCommands
  <2>1. parsed.status = ParseStatus(payload)
    BY DEF ParseResult
  <2>2. /\ payload.size \in {"fits", "large"} /\ payload.json \in {"object", "other", "broken"}
        /\ payload.json # "object" => payload.protocol_version = "not"
    BY DEF Payloads, Payload, Bare
  <2>3. ParseStatus(payload) = "Ok" =>
           /\ payload.size # "large" /\ payload.json = "object"
           /\ "forbidden" \notin payload.fields /\ payload.protocol_version = "current"
           /\ ~Unidentified(payload) /\ ~Incomplete(payload)
    BY <2>2 DEF ParseStatus
  <2>4. strict /\ ParseStatus(payload) = "Ok" => ForThisDevice(payload)
    BY <2>2, <2>3 DEF ForThisDevice, Unidentified, OtherDevice, Incomplete
  <2>5. payload \in PlainCommand => ParseStatus(payload) = "Ok"
    BY DEF PlainCommand, ParseStatus, Unlisted, Unidentified, OtherDevice, Incomplete
  <2> QED
    BY <2>1, <2>3, <2>4, <2>5
<1>2. Spec => ParserOK /\ [][ParseCommand]_parserVars
  BY InitParser, EachComponent DEF Spec, ParserSpec
<1> QED
  BY <1>1, <1>2, ParserStep, PTL

=============================================================================
