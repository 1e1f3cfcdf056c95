# interBridge: verification project

TLA+ models of the interBridge firmware (`src/`), the TLC runs that check them
and the TLAPS proofs about them. Paths below are relative to the repository
root (`src/src/main.cpp` is the firmware's main file). `PROJECT.json` maps each
definition to the lines it models.

The firmware runs one cooperative loop (`setup()` then `loop()` for ever,
`src/src/main.cpp:389-405`), so what makes it hard is not threads. It is what
happens to the world between two calls of the loop: a session dies, a PUBACK is
lost, a message comes twice, power goes, the counter wraps, a call blocks.

## 1. Inventory

| Component | State it keeps | Operations | Talks to |
|---|---|---|---|
| Command handler and dedup cache (`protocol/command_handler`, `command_cache`) | rows of (command, verdict) in RAM and in the store | `handle`, `find`, `record`, `load`, `save` | called by the processor; persistent store |
| Remote command processor (`protocol/remote_command_processor`) | `pendingPayloads_`, `outbox_`, `lastResult_` | `subscribe` (callback), `processPending`, `drainOutbox` | MQTT transport, handler |
| MQTT transport (`network/mqtt_transport`) | `sessionValid_`, `callback_`, the client library's connection | `connect`, `disconnect`, `publish`, `subscribe`, `poll` | broker |
| Event outbox (`protocol/event_outbox`) | `entries_`, their copy in the store | `enqueue`, `pending`, `dequeue`, `load`, `save` | all event sources; flush in `updateNetwork` |
| DEV call session (`dev/dev_ring_event`) | `state_`, `activeCallId_`, `callStartedAtMs_` | `update`, `publishPendingEvents` | event outbox, transport |
| Reconnect and health (`network/reconnect_manager`, `health_reporter`, `main.cpp`) | `attempt_`, `nextConnectAttemptAtMs`, `lastPublishMs_` | `nextDelayMs`, `reset`, `isDue`, `forceNextPublish` | the loop, the clock |
| Config button (`hardware/button`) | debounce and hold state | `update` | the loop; provisioning, factory reset |
| Provisioning (`provisioning/provisioning_manager`, `fleet_provisioning`, `storage/credential_store`) | `state_`, window, `pendingEvent_`; SSID, password, key, certificate and flag in the store | `checkAtBoot`, `requestProvisioning`, `update`, `pollEvent`, `provision` | BLE service, Wi-Fi, fleet service |
| Factory reset (`provisioning/factory_reset_coordinator`) | none | `execute` | store, restart |
| Wi-Fi manager (`network/wifi`) | `started_`, `lastConnected_` | `begin`, `update` | radio |
| Intercom state machine and line detector (`core/state_machine`, `intercom/line_detector`) | current `State`, last line level | `handleEvent`, `finishBoot`, `update` | line, Wi-Fi events, event outbox |
| Device identity (`provisioning/device_identity`) | `device_id`, `setup_code` in the store | `load` | store, random source |
| OTA and Jobs (`ota/ota_manager`, `aws/jobs`) | pending job, what is downloaded, the image to boot | `apply`, `pollAndProcess` | platform, jobs service |
| Device shadow (`aws/device_shadow`) | none | the reported document | health report |
| DEV smoke connectivity (`dev/mqtt_smoke_state`, `dev/mqtt_smoke_main`, `dev/dev_ring_simulator_main`) | phase, deadlines, failure count, callback flags | `update`, `wifiAssociationResult`, `recordConnectivityFailure`, ... | Wi-Fi driver's task, SNTP, transport |
| BLE onboarding window and handoff (`provisioning/ble_provisioning`, `dev/ble_mqtt_handoff`, `dev/ble_mqtt_main`, `dev/ble_provisioning_main`) | confirmation and window deadlines, owner of the Wi-Fi | `requestStart`, `confirmStart`, `update` | BLE manager of the SDK, Wi-Fi |
| DEV ring buttons and ring detector (`dev/dev_ring_button`, `intercom/si3050/ring_detector`) | debounce, lockout | `update` | contacts |
| Si3050 bring-up (`intercom/si3050/si3050_controller`, `si3050_pcm_clock`, `si3050_timing`) | `ready_`, the tracker of the I2S driver | `initialize`, `start`, `stop` | I2S driver, pins |
| Clock probe meter (`dev/si3050_clock_probe_meter_main`) | overflow counts | `setup`, `loop`, the interrupt | pulse counters |
| Command parser (`protocol/messages`) | none | `parseCommand` | the processor |
| Other conversions, stores, drivers, logs | - | - | - |

The hard behaviours:

* **Unreliable delivery.** QoS 1 redelivers commands and loses PUBACKs in both
  directions. ACCEPTED and the terminal response of one command leave in
  different passes of the loop. Events are published from a copy of a queue that
  is changed meanwhile.
* **Stale knowledge of the session.** Four places believe something about the
  connection: the client library, `sessionValid_`, `subscribedToCommands`, and
  the broker.
* **Power loss** between any two writes to the store: dedup rows, outbox,
  credentials, factory reset.
* **Limits**: pending queue, response outbox, dedup cache, event outbox, the
  single `pendingEvent_`.
* **Other tasks.** Wi-Fi and provisioning callbacks run on the SDK's event task,
  overflow interrupts inside the loop's own read of a counter, and BLE onboarding
  shares the radio with the cascade that follows it.
* **Time**: a 32-bit millisecond counter that wraps, absolute deadlines, windows
  that elapse while an answer is on its way, a loop that blocks.

What makes each component correct, informally: a command is decided once, inside
its window, and its story is told in order; an event is delivered in order and
lost only by eviction; the loop ends up connected *and* subscribed; a reconnect
waits no longer than its own backoff; the button acts once per hold and never on
a short press; a stored certificate belongs to the stored key, and every onboarding
attempt ends; a DEV image gets online again whatever happened to its radio; an
update never leaves the device with a worse image; the identity never changes; the
I2S driver is never doubled and the MQTT library never holds a freed socket.
`PROJECT.json` lists the hazards at their lines.

## 2. Modules

    CommandProtocol   decision table, dedup table           (pure operators)
    MqttTransport     the session, as actions to conjoin
       |        \
       |         EventDelivery   event outbox and its flush
       |            |
       |         RingSession     DEV call session on top of it; RingSession_proofs
    CommandPipeline   updateNetwork() + processor + cache + broker
          refines CommandContract; CommandPipelineMC; CommandPipeline_proofs
    Provisioning      onboarding, fleet provisioning, factory reset; Provisioning_proofs

    OtaJobs           a job, from its offer to its report
       |
    Firmware          setup() and loop() of the production image, identity,
                      line, intercom; FirmwareMC; Firmware_proofs

    SmokeState        the cascade Wi-Fi, DNS, time, MQTT    (a record and its maps)
       |
    SmokeConnectivity the loop around it, the Wi-Fi driver, SNTP, the broker
       |
    DevImages  -----  BleOnboarding: window, confirmation, the SDK's manager
          the four DEV images over both; DevImages_proofs

    ConfigButton      debounce and holds under late sampling
       |
    RingInputs        ring buttons and ring detector on the same debouncing
    Si3050BringUp, ClockProbe, CommandParser, MqttClient,
    ReconnectBackoff  backoff, health and the wrapping counter
       |
    Benches           the six above, each on its own; BenchesMC, RingInputs_proofs,
                      Benches_proofs, ReconnectBackoff_proofs

**CommandPipeline** cuts one pass of `updateNetwork()` at its calls: `phase` names
the call that runs next, so the environment (redelivery, loss of Wi-Fi or of the
session, time, restart) can step in between. The clock-trust test of
`checkTimeSafety()` reads the clock's trust twice and the time between: where the two
readings differ, SNTP synchronised meanwhile and the time read may be any. The subscription callback
(`Receive`) can run only where the code calls `poll()`. `heard` records, for the
properties, the answers that reached the broker. A power loss between the decision and
its `save()` is the same as an earlier restart, so deciding and saving are one step. A
pass that backs off changes nothing of this state and is a stuttering step.

The door capability is a constant (`DoorOpenCapability`, "Disabled" as in the code); a
command without `issued_at` or `expires_at` is not a kind of its own, since the strict
parser refuses it (CommandParser).

**CommandContract** is what the backend may rely on, after docs/communication-protocol.md
section 20 but with the forgetting that a bounded cache implies: a command is decided once
and not again before `Capacity` others were decided since (or a restart without
persistence), and the answers tell the last decision in order. `ImplementsContract`
states that `CommandPipeline` refines it under the mapping `decided` = what the dedup
cache knows, `told` = `heard`. That the document promises more is finding 4.

**MqttTransport** has no `Next` of its own: its operations are actions over
`transportVars` that a composing module conjoins with its own effects.

**EventDelivery** gives publish and dequeue separate steps, because a restart or
a lost session can fall between them. `batch` is what is left of the copy that
`pending()` returned. `image`, chosen once, selects the production image (persistent
outbox, a flush that goes on after a failed publish) or a DEV image (volatile
outbox, `publishPendingEvents()`, which breaks out of the loop). The backend ingests an
event id once (section 17 of the protocol document).

**RingSession** adds the sources of the events: any report of the production
image, or `DevRingEventCoordinator` in the DEV images. The buttons are already
debounced in the code that calls it, so an update sees an edge or it does not;
`EndRinging` stands for the end button and for the safety timeout.

**ReconnectBackoff** takes one pass of the loop as one unit of time (a pass takes
at least one). `waiting`, `failures` and `silence` are history for the properties.
`forced_` and `hasPublished_` are folded away: a pass that reconnects sets
`forced_` and `isDue()` consumes it in the same pass, and no pass is online
before one has reconnected.

**ConfigButton** separates the contact (`Elapse`: any level at any time) from the
controller (`Update`, which sees the level only when the loop comes round, at
most `LongestPass` apart). A physical press (`held`) begins when the contact
closes and ends when it has stayed open for the debounce time. `loop()` can block in
a TLS handshake (`main.cpp:329`), and a release and a new press in that time look
like one hold (`button.h:45` leaves that to the caller); `late` marks a press with a
pass that came more than a unit of time after the one before, and so may have missed
that the contact changed and changed back. The properties say what holds without one and
what holds anyway: `HoldObeyed` says in both cases that the controller has caused the
reset, but only without one that it was in this press.

**RingInputs** puts the two other inputs that repeat that debouncing on the same
contact: `DevRingButtonController` with its lockout, and `RingDetector`. `kind`
says which. The run's lockout is longer than 2 * Debounce + 2, as the firmware's is
(250 and 50 ms): a shorter one would bar nothing that the debouncing lets through.

**Provisioning** makes each write to the store a step: `step` names what runs next, so a
`Crash` can fall between any two. The BLE service is modelled by its interface
(`IBleProvisioning`, as `FakeBleProvisioning` fills it in): the service advertises or not,
has a session or
not, and hands over credentials once. Passwords are named by the network they
open and certificates by the key pair they were issued for, which is all the
properties tell apart. `FleetRegisters` picks any key pair other than the stored
one; the random generator never repeats a key.

**OtaJobs** has one step per call of the OTA platform. Platform, verifier and jobs
client are stubs in the source and are modelled by their interfaces; the stub
verifier refuses every signature, so `SignatureResults` adds one that accepts.
`InstallReturns` is a platform that returns from `installAndReboot()`, as the code
allows; `InstallReboots` (in Firmware) is one that does not. An image is on `trial` until
it is confirmed or the bootloader takes it back.

**Firmware** is the whole of `setup()` and `loop()`, cut at each write to the store and
each call of a service, with a loss of power after any of them. What other modules
detail is one choice here: how onboarding goes, which events the outbox keeps, when
a session comes. `used` records the identities the device ever ran under.

**SmokeState** keeps `DevMqttSmokeState` as one record, and each deadline as the time
that is left to it, which is what the signed comparison of `deadlineReached()` sees.
**SmokeConnectivity** is the loop the DEV images run around it, cut where the
driver's task can step in: the reading of `WiFi.status()`, each of the two event
flags, the action, the report. The driver is a radio that changes at once and events
that arrive later; a recovery disconnects it under the loop. `stale`, `joinAge` and
`announced` are history for the properties. **DevImages** selects an image: `mqtt` and `ring` own
the Wi-Fi from the start, `ble` runs the cascade only after `BleMqttHandoffGate` handed it
over, `isolated` (`ble_provisioning_main.cpp`) only onboards. **BleOnboarding** is
`BleOnboardingWindow` with the SDK's manager, whose events come between any
two statements of the loop, also in the middle of `update()` (`StartConfirmedTooLate`);
`tooLate` remembers that one did.

**Si3050BringUp** has one step per call of the I2S driver, each of which may fail; a
failed uninstall may have released the driver or not. `main.cpp:247` calls
`initialize()` once per boot and nothing calls `stop()`; the caller here may do both at
any time, as the classes' headers allow, so the safety properties cover more callers
than there are. Nothing is claimed about a retry that must succeed: no caller owes
one. Waits are counted in PCLK cycles (`clocked`).

**ClockProbe** lets the hardware count in every step of the meter; the overflow
interrupt is held back while the loop is in its critical section, the counter is not.

**CommandParser** gives each field of a payload the few classes of values that the
checks of `parseCommand()` tell apart. `PassesOnlyCommands` bounds the verdict from both
sides: what must hold of a payload that is passed (`ForThisDevice`), and what must be
passed (`PlainCommand`, the form that documents and code agree on). In between, where they
disagree, lie finding 5 and the times of a command that are no integers.

**MqttClient** is `ArduinoMqttClient` statement by statement. An address of a TLS client
is reused once it is freed, as a heap does, so a pointer kept too long is seen to dangle.

**Benches** runs those components side by side without shared state: a behaviour
exercises one of them (`bench`), the others rest.

## 3. Runs

| Run | Shows | Bounds |
|---|---|---|
| pipeline | outbox holds one story; never connected-and-deaf; only fresh commands accepted, whatever an unsteady clock reads; forgotten only when crowded out; contract refined, with rows evicted and evicted commands coming back; the loop settles online; a queued command is answered, but for a restart | 3 commands, cache of 2, queue of 1, 4 deliveries, 1 network fault, 1 restart, clock 0..2 |
| cache_eviction (violation) | a door command is forgotten inside its window | 3 commands, cache of 2, no fault |
| device_events | for both images: in order; nothing lost but by eviction or with a volatile queue; eviction drops the oldest; RING_ENDED never ahead of its RING_DETECTED; the backlog drains | capacity 3, 6 events, 3 faults, 1 restart |
| backoff_across_wrap (violation) | the deadline is not wrap-safe | epoch 16, 30 passes |
| provisioning | certificate has its key; provisioned is complete; no event overwritten; each attempt ends | 2 networks, 2 key pairs, window 5, 2 crashes |
| provisioning_idle (violation) | a device that stopped half-way is IDLE | 1 crash |
| firmware | one identity; only intact, newer images are installed, and only a trial is rolled back; a job that succeeded is what boots; the shadow does not call a reset device provisioned | 3 versions, 2 ids, 2 setup codes, outbox of 2, any number of losses of power |
| smoke_connectivity | nothing runs over an association that a recovery gave up; no `WiFi.begin()` over a pending one; a new session announces itself; the images get online once the network works | retry 1..2, association 3, cooldown 6, scan 3, one late event |
| ble_mqtt | the window is open only on air, but for the late start of the isolated image; the combined image gets online; onboarding ends and hands the Wi-Fi over | window 2, cooldown 2, retry 1 |
| ble_recovery (violation) | a recovery fires while BLE still owns the Wi-Fi | window 8 |
| benches | buttons and detector: no short press acts, a long one is obeyed, once, rings apart; Si3050: one driver, none lost, out of /RESET and SPI only after their cycles; meter: nothing invented but torn overflows; parser: only commands for this device, and every plain one; client: every socket fresh; backoff: waits for its own failures only (first epoch of the counter), health punctual across wraps | modulus 16 over 20 units, holds 3 and 5, lockout 7; 5 clock configurations; counter limit 2, 4 edges; 3 addresses; backoff: epoch 10, 22 passes, two wraps |
| parser_unknown_fields (violation) | an unknown field refuses a command that is in order otherwise | every class of payload |

Why the bounds are enough: two commands are what it takes for responses to mix, three for
a cache of two to evict; four deliveries let an evicted command come back; a queue of one
drops a command as soon as another waits; a restart before or after a network fault is in
reach. The three commands are one of each kind the handler tells apart; the door command
is valid at times 0 and 1 and late at 2 (that an early one is refused is left to
`OnlyFreshAccepted`). That more faults, restarts and rows change nothing is, for the
safety properties, what the proofs add. An event queue of three with six events evicts up
to three times, also between two flushes that an outage cut short: no event is produced
while a flush walks its copy, which is one call in the code. The scaled clock constants
keep the order of the real ones (debounce < provisioning hold < reset hold < modulus;
debounce < lockout; initial delay <= maximum delay < modulus; association < cooldown), and
the horizons go past a wrap. Two key pairs are a stored one and a fresh one; two losses of
power hit one onboarding twice, or an onboarding and the factory reset after it. In the
DEV images a delay that doubles once, a timeout of two or three passes and one event
underway reach every order of a timeout and the answer it waits for; `ble_recovery` needs
the longer window, for a cascade to fail twice inside it. Three versions include a newest
whose second component is the smallest. Of TLS addresses the client uses two at a time; a
third lets an address be reused late. Deadlock is checked except where a bound on events,
time or faults lets a finished system stop: the event and bench runs.

Type invariants (`TypeOK`) are not among the runs' properties: that of each
component is proved, alone or as part of the invariant its safety properties need.

### Findings

Each `violation` run shows that the code and a sentence of the repository
disagree; `PROJECT.json` quotes both.

1. `main.cpp:325` compares an absolute deadline with a wrapping counter; after 49.7
   days the device may stay offline for up to another epoch. Up to the first wrap the
   stale deadline does no harm (`WaitsForOwnFailures`).
2. `provisioning_manager.cpp:45` takes a stored SSID for a provisioned device.
3. `ble_mqtt_main.cpp:589` does not ask whether BLE has handed the Wi-Fi over, as the
   case above it does, so a recovery can disconnect the radio under the manager; its
   comment says that it cannot.
4. `command_cache.cpp:30` evicts by count: enough other commands make the device forget a
   door command inside its validity window, which `docs/communication-protocol.md:1099`
   and `command_cache.h:59` exclude. What holds is `ForgottenOnlyWhenCrowded`.
5. `messages.cpp:203` refuses a payload with a field it does not list, where
   `docs/communication-protocol.md:1557` wants unknown fields tolerated. A test
   asserts what the code does.

Remarks met while modelling, which the models contain but no run is spent on:

* `messages.cpp:268` refuses a command whose times are no integers as InvalidPayload, which is
  not answered, where `docs/communication-protocol.md:997-1000` promises `INVALID_TIMESTAMP`.
  `PassesOnlyCommands` leaves both open.
* `main.cpp:329` connects between two samples of the button: a release that falls into it is
  missed, and two short presses act as a long one, against `button.h:40`. The
  properties of short presses leave out those with a late pass.
* `si3050_clock_probe_meter_main.cpp:217`: an overflow between the reading of the counter and
  its clearing is counted twice, though the comment at 207-210 says that a torn read cannot
  happen. `InventsOnlyTorn` bounds the damage by exactly those.
* `ota_manager.cpp:126`: a job whose update rebooted is offered again in the new image, found
  not newer than what runs and reported FAILED; nothing calls `confirmBootOrRollback()`
  there, against `ota_manager.h:40`. `SuccessBoots` says only that SUCCEEDED is true.
* `ble_provisioning.cpp:120`: a start that is confirmed in the middle of `update()` opens the
  window of an attempt that is being reported as not confirmed, which
  `ble_provisioning.h:178` excludes. The isolated image then stops the manager and
  keeps the window until its timeout: the exception in `WindowOnAir`.
* `remote_command_processor.cpp:96` resets `lastResult_` while responses of the
  previous command are queued.
* Nothing passes the stored Wi-Fi credentials to `WifiManager::begin()` at boot
  (`main.cpp:308`), and `provisioning_manager.cpp:115` and `:186` ignore a refused
  `startAdvertising()`.
* `main.cpp:368` reports the provisioned flag as it was at boot: "false" after onboarding,
  until the next restart. `ShadowTruthful` covers the other side only: no device is newly
  called provisioned after a reset.
* `main.cpp:281-282`: a loss of power after the erasure and before the event loses the event.
* The production image has no source of RING_DETECTED, so `intercom_state` is always IDLE.
* A start confirmed late leaves the combined image on air
  without a window (`ble_mqtt_handoff.h:12-19`).
* The hourly SNTP synchronisation makes `hasValidTime` false for a moment, and the DEV loop
  tears its session down.
* `mqtt_smoke_state.cpp:57`: a cooldown deadline left standing for 24.8 days looks
  unreached again. The models use deadlines within half an epoch.
* `si3050_controller.cpp:12`: `ready_` survives a `stop()` of the clock; after a failed uninstall
  nobody calls `stop()`, and the clock stays barred until a restart (`main.cpp:247`).
* `mqtt_transport.cpp:186-187` overwrites the PEM buffers of a TLS client that still exists. It
  is safe only because `connect()` has closed its socket first (`FreshSocket`).

### Fairness

`FairSpec` of the pipeline, events and provisioning assumes only that `loop()` is called
for ever (weak fairness of the device's own steps), that a session of the DEV image does
reach its safety timeout, and, in the pipeline, that the access point
comes back. A restart empties the queue of commands, so `QueuedIsAnswered` speaks of the
time until the next one. Failures need no fairness: they are bounded by `MaxFaults`, so "the
backlog drains" reads "once the network stops failing". `DevImages` adds that the Wi-Fi
driver finishes what it was asked to do and delivers its events; nothing is owed by
the network, the BLE manager or the app: `ReachesOnline` is about the time after the
network has stopped failing, if it ever does, and `OnboardingEnds` needs only the
timeouts. No fairness is assumed of
the app, the radio of an onboarding device, the fleet service, the broker's
redelivery, the jobs service or restarts. `Firmware` and the benches state none.

## 4. Proofs

Checked by TLAPS for all constants that meet the modules' assumptions. Every invariant
and every action property of the passing runs is a theorem, so what TLC shows on
an instance holds for all of them.

`CommandPipeline_proofs`:

* `TypeCorrect`: `TypeOK` is inductive.
* `OutboxCorrect`, `LastResultCorrect`: from `StoryOK == OutboxIsOneStory /\
  LastResultConverges`, inductive with `TypeOK`. The argument: only an empty
  outbox lets a new command be processed, so at most the two responses of one
  command are ever in it, and `record()` has stored the verdict before the first
  is enqueued. This is the premise on which `kMaxOutboxSize` rests.
* `NeverDeafAlways`: `subscribedToCommands` is set only by a `subscribe()` that succeeded
  and cleared with every new session.
* `OnlyFreshAccepted`: the action property `StaleNeverAccepted`, from the
  decision table and from `StoreMirrors` (what a restart loads is what the cache
  held, so a restart decides nothing).
* `ForgottenAlways` and `ContractImplemented` (the refinement of `CommandContract`), for any
  number of commands and any capacity, evictions and restarts included. The
  invariant is `ContractInv`: the rows of the cache are distinct and in the order of their
  decisions (`InOrder`: each row but the last knows the commands decided after it), so
  that a full table pushes out only a command that `CacheCapacity` others followed; what
  the broker heard of a command is a prefix of the story of its verdict; and an ACCEPTED
  that waits precedes every other answer to it. Then a decision maps to `Decide`, an
  answer that is heard to `TellAccepted` or `TellTerminal`, a restart without persistence to
  `ForgetAll`, and all else to a stutter.

`RingSession_proofs`, for both outboxes and every capacity: `InOrderAlways`,
`NothingLostEver`, `BacklogAlwaysNewest`, `EndedAfterDetectedAlways`, `TypeCorrect`. None of
them is inductive. The invariant says that the flush walks the queue itself while its
session lives (`BatchIsQueue`), that the queue and the backend's record are ordered and
share at most the head of the queue (`IdsInOrder`: after a lost acknowledgement the
event is at both ends), and that a call was announced by an event that is queued,
ingested or was evicted (`CallsAnnounced`).

`ReconnectBackoff_proofs`:

* `WaitsForOwnFailuresAlways`: `attempt` is the number of failures, and what an outage has
  waited and still has to wait are together within the delay drawn (`BackoffInv`), as long as
  the clock has not wrapped.
* `HealthPunctualAlways`, across any number of wraps: the unsigned difference is the age of
  the last report (`HealthInv`), which rests on lemmas about the remainder.

`Provisioning_proofs`:

* `TypeCorrect`.
* `CertAlwaysHasItsKey`, `ProvisionedAlwaysComplete`, from `Complete ==
  CertHasItsKey /\ Progress /\ Stored`. `CertHasItsKey` alone is not inductive:
  `Progress` says what each point of a fleet provisioning holds (no certificate
  while a key is being saved; the fresh key is the stored one when the certificate
  is saved), and `Stored` that the SSID and the password agree outside the steps that write them.
* `EventsKept`: an event waits within a pass only, and what set it leaves `update()` nothing
  to report (`EventWaits`).

`DevImages_proofs`, for all timeouts, thresholds and windows:

* `RecoveryReassociatesAlways`, `NeverHasty`: the argument is about who may act on the association.
  While a recovery awaits its disconnect, `update()` returns nothing else (`Awaited`), so
  nothing is tried over the link that is being left (`Left`). An association that is under way
  has its timer: `attemptIn` and `joinAge` add up to the timeout (`Underway`), and whatever
  clears the timer has seen the link up or an event of it.
* `AnnouncedAlways`, `WindowOnAirAlways`, `TypeCorrect`, with the same invariant. The handlers of the
  coordinator are pure operators on its record; a lemma for each says what it returns.
  `WindowOnAir` excepts the late start of the isolated image, where the code leaves a window.

`Firmware_proofs`:

* `TypeCorrect`, from `TypeInv == TypeOK /\ UpdateOK /\ IdentityLoaded`: `TypeOK` is not
  inductive, since `boot` takes the value of `staged` (`UpdateOK` says from which point on
  that is an image) and `used` that of `identity`.
* `IdentityCorrect`: the device never ran under an identity other than the
  stored one (`IdentityKept`), and what is stored is never replaced.
* `ImagesIntact`, `SuccessIsBooted`, from `ImagesOK`: an image reaches the install step
  only after its digest was compared, and an update that succeeded is no longer on
  trial, so no later boot rolls it back.
* `NewerIsStrictOrder`: `isNewerVersion()` is irreflexive, asymmetric and transitive for
  versions of any length. `UpgradesOnlyNewer`: what an update installs is newer by that order,
  and any other change is the rollback of an image on trial. `UpgradesAlways` is the same by numeric value (`OnlyUpgrades`), for
  versions of up to three components below 100, which is what `Rank` can compare.
* `ShadowCorrect`: the action property `ShadowTruthful`, from `FlagKept`: the flag in RAM
  may be behind the store only by an onboarding, because a reset restarts.

`RingInputs_proofs`, for every range of the clock, thresholds and times between passes:

* `RingsApartAlways`: a lockout that does not stand any more is over, since an unsigned
  difference below half the range is a time that has passed (`LockoutPassed`).
* `OncePerPressAlways`, `ShortPulsesIgnoredAlways`, from `InputsOK`. While no pass misses a
  bounce, the controller's timer runs from the contact's change (`SeenOK`), its
  press begins within the contact's and ends one pass after it (`SameContact`), and its hold is no
  longer than the press (`HoldOK`).
* `PressObeyedAlways`, from `ObeyedOK`, which drops that condition where it can: a timer or a
  hold that has not caused its effect yet was below its threshold at the last pass
  (`TimerOK`, `FireOK`), and one pass more does not take it round the counter. This needs
  `PassAssumption`: a pass is shorter than half the range of the counter, 24 days.

`Benches_proofs`, for the components that share a bench with nothing (`EachComponent`: a
behaviour of `Benches` is one of each of them):

* `SocketsCorrect`, from `PointersOK`, which says what each statement of `connect()` finds.
* `DriverNeverDoubled`, `NoDriverLost` and `SpiOnlyAfterSettle`, from `ClockOK` (a driver is there only while
  the clock runs, inside `start()`, or behind a failed release, which bars the next start) and from
  `WaitsLongEnough`, the arithmetic of a wait rounded up to microseconds.
* `InventsOnlyTornAlways`, from `Covered`, the books of a counter: what was reported, what is
  in the sample and what may yet be counted is covered by the edges there were and by a
  full counter for each torn overflow.
* `ParserCorrect`: by the order of the checks in `parseCommand()`. It says nothing of the
  payloads on which the documents and the code disagree (finding 5, and times that are no integers).

The proofs corrected two statements that held only because the instance was
small. With a debounce of three units, passes of two miss a bounce: `late` now means a gap of
more than one unit (the instance has a debounce of two, where it is the same). And
`HoldObeyed` claimed that a long hold always causes its own reset: past the horizon of the run,
a controller that misses a release keeps `resetFired_` from the press before, and the next
hold does nothing.

Model-checked only: liveness (`SettlesOnline`, `QueuedIsAnswered`, `BacklogDrains`,
`AttemptEnds`, `ReachesOnline`, `OnboardingEnds`), since
TLAPS does not handle ENABLED, on which fairness rests.

## 5. Not modelled

* The JSON that is built, topics, log lines, diagnostics, the status LED: wording.
  The parser is modelled, its JSON library is not.
* The persistent store: `NvsStore` is a stub, and the models take the contract of
  `IPersistentStore`, a single write being atomic.
* `Esp32ButtonInput`, `Esp32JobsClient`, the OTA platform and the SPI transfer are stubs in
  the source; the code above them is modelled.
* The version text of an update (`parseVersionComponents()`): versions are lists of numbers.
* The window inside the client library's `subscribe()` between SUBACK and the
  installation of the callback (`mqtt_transport.cpp:245`): the model delivers in
  `poll()` only.
* Which network the radio reports right after `begin()` with new credentials
  (`wifi.cpp:22`), and the `WifiConnected` event that `ProvisioningManager` takes from
  `updateNetwork()` (`provisioning_manager.cpp:121`): the state machine ignores that event.
* The measurement images other than the meter (signal generator, pin probes): a fixed
  sequence of calls.

## 6. Plan

1. Safety lemmas towards the liveness properties: that the ranking each argument counts down
   (messages in the queue, time left, faults left) never grows but by a fault.
2. The type invariant of `Benches` as a theorem of its own; bounds of the queue and of the
   cache (`RemoteCommandProcessor`, `CommandCache`) as theorems.
