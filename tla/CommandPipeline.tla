-------------------------- MODULE CommandPipeline --------------------------
(***************************************************************************)
(* The path of a remote command through the device: updateNetwork() of     *)
(* src/src/main.cpp, which loop() runs forever, RemoteCommandProcessor     *)
(* (src/src/protocol/remote_command_processor.cpp), CommandHandler with    *)
(* its dedup cache (CommandProtocol) and the MQTT session (MqttTransport), *)
(* against an environment in which Wi-Fi and sessions are lost, the broker *)
(* delivers a command more than once, PUBACKs go missing and the device    *)
(* restarts.                                                               *)
(*                                                                         *)
(* One pass of updateNetwork() is cut where the outside world can step in: *)
(* phase is the call the loop executes next.  What a backed-off pass does  *)
(* not do (now < nextConnectAttemptAtMs) is a stuttering step.             *)
(***************************************************************************)
EXTENDS CommandProtocol, MqttTransport, FiniteSets

CONSTANTS
    Garbage,             \* a payload that parseCommand() refuses
    Oversized,           \* a payload above kMaxJsonPayloadBytes, or off-topic
    MaxPendingCommands,  \* kMaxPendingCommands
    MaxOutboxSize,       \* kMaxOutboxSize
    Durable,             \* the dedup cache is a PersistentDedupCache
    MaxTime,             \* bound on the wall clock
    MaxSends,            \* bound on deliveries by the broker
    MaxFaults,           \* bound on failures of the network
    MaxRestarts          \* bound on restarts

ASSUME PipelineAssumption ==
    /\ Garbage # Oversized /\ Garbage \notin Cmd /\ Oversized \notin Cmd
    /\ MaxPendingCommands \in Nat \ {0}
    /\ MaxOutboxSize \in Nat /\ MaxOutboxSize >= 2
    /\ Durable \in BOOLEAN
    /\ {MaxTime, MaxSends, MaxFaults, MaxRestarts} \subseteq Nat

VARIABLES
    wifi,        \* wifiManager.isConnected()
    subscribed,  \* subscribedToCommands
    phase,       \* the call of updateNetwork() that runs next
    pending,     \* pendingPayloads_
    outbox,      \* outbox_
    lastResult,  \* lastResult_
    cache,       \* the rows of the dedup cache in RAM
    store,       \* the rows of the dedup cache in the persistent store
    heard,       \* heard[c]: the answers to c that reached the broker since
                 \* c was last decided, in order, a repetition of the last
                 \* one not counted
    since,       \* since[c]: the commands decided since c was last decided
    now,         \* wall clock
    sends, faults, restarts   \* environment events so far

deviceVars == <<subscribed, phase, pending, outbox, lastResult, cache, store>>
envVars == <<wifi, now, sends, restarts>>
vars == <<transportVars, deviceVars, envVars, heard, since, faults>>

Payload == Cmd \cup {Garbage, Oversized}
Answer == {"ACCEPTED"} \cup Verdict
Response == [cmd : Cmd, answer : Answer]
Result == [parsed : BOOLEAN, accepted : BOOLEAN, terminal : BOOLEAN]
NoResult == [parsed |-> FALSE, accepted |-> FALSE, terminal |-> FALSE]

IsTerminal(r) == r.answer # "ACCEPTED"

TypeOK ==
    /\ TransportTypeOK
    /\ wifi \in BOOLEAN /\ subscribed \in BOOLEAN
    /\ phase \in {"link", "poll", "process", "subscribe", "publish"}
    /\ pending \in Seq(Payload) /\ outbox \in Seq(Response)
    /\ lastResult \in Result
    /\ cache \in Seq(Row) /\ store \in Seq(Row)
    /\ heard \in [Cmd -> Seq(Answer)] /\ since \in [Cmd -> SUBSET Cmd]
    /\ {now, sends, faults, restarts} \subseteq Nat

Init ==
    /\ TransportInit
    /\ wifi = FALSE /\ subscribed = FALSE
    /\ phase = "link"
    /\ pending = <<>> /\ outbox = <<>> /\ lastResult = NoResult
    /\ cache = <<>> /\ store = <<>>
    /\ heard = [c \in Cmd |-> <<>>] /\ since = [c \in Cmd |-> {}]
    /\ now = 0 /\ sends = 0 /\ faults = 0 /\ restarts = 0

----------------------------------------------------------------------------
(* The network.  A failure is counted, except one that a missing Wi-Fi     *)
(* link explains.                                                          *)
NetworkFails ==
    /\ wifi => faults < MaxFaults
    /\ faults' = IF wifi THEN faults + 1 ELSE faults

(* What the broker has heard after r, if it had heard before until then.   *)
Hear(before, r) ==
    LET told == before[r.cmd]
    IN  IF told # <<>> /\ told[Len(told)] = r.answer THEN before
        ELSE [before EXCEPT ![r.cmd] = Append(@, r.answer)]

(* transport.publish() of a QoS 1 response.                                *)
Published(before, r) ==
    /\ wifi
    /\ PublishAcknowledged
    /\ heard' = Hear(before, r)
    /\ UNCHANGED faults

NotPublished(before, r) ==
    \/ PublishRefused /\ heard' = before /\ UNCHANGED faults
    \/ /\ PublishFails /\ NetworkFails
       /\ heard' \in {before, IF wifi THEN Hear(before, r) ELSE before}

----------------------------------------------------------------------------
(* RemoteCommandProcessor.                                                 *)

(* enqueue(): at capacity the new response is refused, never an old one.   *)
Enqueue(queue, r) ==
    IF Len(queue) >= MaxOutboxSize THEN queue ELSE Append(queue, r)

(* The callback that subscribe() installs, run by client_->poll().         *)
Receive(p) ==
    /\ phase = "poll"
    /\ wifi /\ IsConnected /\ brokerSub /\ callbackSet
    /\ sends < MaxSends
    /\ sends' = sends + 1
    /\ \/ /\ p = Oversized
          /\ lastResult' = NoResult
          /\ UNCHANGED pending
       \/ /\ p # Oversized
          /\ pending' = IF Len(pending) >= MaxPendingCommands THEN pending
                                                               ELSE Append(pending, p)
          /\ UNCHANGED lastResult
    /\ UNCHANGED <<transportVars, wifi, subscribed, phase, outbox, cache, store,
                   heard, since, now, faults, restarts>>

(* processPending() with a response still undelivered: drainOutbox().      *)
DrainOutbox ==
    /\ phase = "process"
    /\ outbox # <<>>
    /\ LET r == Head(outbox)
       IN  \/ /\ Published(heard, r)
              /\ outbox' = Tail(outbox)
              /\ lastResult' = IF IsTerminal(r) THEN [lastResult EXCEPT !.terminal = TRUE]
                                                ELSE [lastResult EXCEPT !.accepted = TRUE]
           \/ /\ NotPublished(heard, r)
              /\ UNCHANGED <<outbox, lastResult>>
    /\ phase' = "subscribe"
    /\ UNCHANGED <<subscribed, pending, cache, store, envVars, since>>

NothingPending ==
    /\ phase = "process"
    /\ outbox = <<>> /\ pending = <<>>
    /\ phase' = "subscribe"
    /\ UNCHANGED <<transportVars, subscribed, pending, outbox, lastResult, cache, store,
                   envVars, heard, since, faults>>

(* Mutant of StartNext: a command may start while responses still wait.    *)
StartNextAnyway ==
    /\ phase = "process"
    /\ pending # <<>>
    /\ pending' = Tail(pending)
    /\ phase' = "subscribe"
    /\ UNCHANGED <<subscribed, envVars>>

(* processPending() starts a command: the front payload leaves the queue   *)
(* whatever becomes of it.                                                 *)
StartNext ==
    /\ phase = "process"
    /\ outbox = <<>> /\ pending # <<>>
    /\ pending' = Tail(pending)
    /\ phase' = "subscribe"
    /\ UNCHANGED <<subscribed, envVars>>

(* processPayload(): parseCommand() refuses the payload; nothing is sent.  *)
RejectGarbage ==
    /\ StartNext
    /\ Head(pending) = Garbage
    /\ lastResult' = NoResult
    /\ UNCHANGED <<transportVars, outbox, cache, store, heard, since, faults>>

(* Mutant of AnswerTerminal: a failed publish is not queued for a retry.   *)
AnswerTerminalOnce(before, r) ==
    /\ Published(before, r) \/ NotPublished(before, r)
    /\ lastResult' = [parsed |-> TRUE, accepted |-> FALSE, terminal |-> TRUE]
    /\ UNCHANGED outbox

(* processPayload() with a terminal response only: one publish attempt.    *)
AnswerTerminal(before, r) ==
    \/ /\ Published(before, r)
       /\ lastResult' = [parsed |-> TRUE, accepted |-> FALSE, terminal |-> TRUE]
       /\ UNCHANGED outbox
    \/ /\ NotPublished(before, r)
       /\ lastResult' = [parsed |-> TRUE, accepted |-> FALSE, terminal |-> FALSE]
       /\ outbox' = Enqueue(outbox, r)

(* Mutant of AnswerAccepted: a refused ACCEPTED is queued behind the       *)
(* terminal response.                                                      *)
AnswerAcceptedSwapped(before, r) ==
    LET accepted == [cmd |-> r.cmd, answer |-> "ACCEPTED"]
    IN  \/ /\ Published(before, accepted)
           /\ lastResult' = [parsed |-> TRUE, accepted |-> TRUE, terminal |-> FALSE]
           /\ outbox' = Enqueue(outbox, r)
        \/ /\ NotPublished(before, accepted)
           /\ lastResult' = [parsed |-> TRUE, accepted |-> FALSE, terminal |-> FALSE]
           /\ outbox' = Enqueue(Enqueue(outbox, r), accepted)

(* processPayload() with ACCEPTED: the terminal response is never          *)
(* attempted in the same call, it always goes through the outbox.          *)
AnswerAccepted(before, r) ==
    LET accepted == [cmd |-> r.cmd, answer |-> "ACCEPTED"]
    IN  \/ /\ Published(before, accepted)
           /\ lastResult' = [parsed |-> TRUE, accepted |-> TRUE, terminal |-> FALSE]
           /\ outbox' = Enqueue(outbox, r)
        \/ /\ NotPublished(before, accepted)
           /\ lastResult' = [parsed |-> TRUE, accepted |-> FALSE, terminal |-> FALSE]
           /\ outbox' = Enqueue(Enqueue(outbox, accepted), r)

(* handle() finds the command_id in the cache: the old answer again.       *)
Replay(c) ==
    /\ StartNext
    /\ Head(pending) = c
    /\ Known(cache, c)
    /\ AnswerTerminal(heard, [cmd |-> c, answer |-> VerdictOf(cache, c)])
    /\ UNCHANGED <<cache, store, since>>

(* What unixTimeSeconds() may return: the time while the clock is trusted  *)
(* on both sides of the sample, anything at all across a transition.       *)
ClockSamples(trustBefore, trustAfter) ==
    IF trustBefore /\ trustAfter THEN {now} ELSE (-1)..MaxTime

(* handle() decides; hasValidTime() is read twice around the clock sample  *)
(* and may change in between.  recordAndReturn() saves before the answer   *)
(* leaves handle().  A command that was decided before and forgotten since *)
(* is decided anew, and its story starts again.                            *)
Decide(c) ==
    /\ StartNext
    /\ Head(pending) = c
    /\ ~Known(cache, c)
    /\ since' = [d \in Cmd |-> IF d = c THEN {} ELSE since[d] \cup {c}]
    /\ \E trustBefore, trustAfter \in BOOLEAN :
       \E sample \in ClockSamples(trustBefore, trustAfter) :
         LET v == Decision(c, trustBefore, trustAfter, sample)
             r == [cmd |-> c, answer |-> v]
             untold == [heard EXCEPT ![c] = <<>>]
         IN  /\ cache' = Record(cache, c, v)
             /\ store' = IF Durable THEN cache' ELSE store
             /\ \/ HasAccepted(v) /\ AnswerAccepted(untold, r)
                \/ ~HasAccepted(v) /\ AnswerTerminal(untold, r)

----------------------------------------------------------------------------
(* The other calls of updateNetwork().                                     *)

LinkLost ==
    /\ phase = "link"
    /\ ~wifi /\ IsConnected
    /\ Disconnect
    /\ subscribed' = FALSE
    /\ UNCHANGED <<phase, pending, outbox, lastResult, cache, store, envVars, heard, since,
                   faults>>

LinkUp ==
    /\ phase = "link"
    /\ wifi /\ IsConnected
    /\ phase' = "poll"
    /\ UNCHANGED <<transportVars, subscribed, pending, outbox, lastResult, cache, store,
                   envVars, heard, since, faults>>

(* Mutant of Connect: subscribedToCommands survives into the new session.  *)
ConnectStillSubscribed ==
    /\ phase = "link"
    /\ wifi /\ ~IsConnected
    /\ \/ ConnectSucceeds /\ UNCHANGED subscribed /\ phase' = "poll" /\ UNCHANGED faults
       \/ ConnectFails /\ NetworkFails /\ UNCHANGED <<subscribed, phase>>
    /\ UNCHANGED <<pending, outbox, lastResult, cache, store, envVars, heard, since>>

Connect ==
    /\ phase = "link"
    /\ wifi /\ ~IsConnected
    /\ \/ ConnectSucceeds /\ subscribed' = FALSE /\ phase' = "poll" /\ UNCHANGED faults
       \/ ConnectFails /\ NetworkFails /\ UNCHANGED <<subscribed, phase>>
    /\ UNCHANGED <<pending, outbox, lastResult, cache, store, envVars, heard, since>>

(* transport.poll() returns, having found the session alive or broken.     *)
PollReturns ==
    /\ phase = "poll"
    /\ phase' = "process"
    /\ \/ UNCHANGED <<transportVars, faults>>
       \/ PollFindsBroken /\ NetworkFails
    /\ UNCHANGED <<subscribed, pending, outbox, lastResult, cache, store, envVars, heard, since>>

AlreadySubscribed ==
    /\ phase = "subscribe"
    /\ subscribed
    /\ phase' = "publish"
    /\ UNCHANGED <<transportVars, subscribed, pending, outbox, lastResult, cache, store,
                   envVars, heard, since, faults>>

Subscribe ==
    /\ phase = "subscribe"
    /\ ~subscribed
    /\ phase' = "publish"
    /\ \/ wifi /\ SubscribeSucceeds /\ subscribed' = TRUE /\ UNCHANGED faults
       \/ SubscribeRefused /\ subscribed' = FALSE /\ UNCHANGED faults
       \/ SubscribeFails /\ NetworkFails /\ subscribed' = FALSE
    /\ UNCHANGED <<pending, outbox, lastResult, cache, store, envVars, heard, since>>

(* The queued events, the health report and the shadow update: all that    *)
(* matters here is that any of these publishes may end the session.        *)
PublishOthers ==
    /\ phase = "publish"
    /\ phase' = "link"
    /\ \/ UNCHANGED <<transportVars, faults>>
       \/ PublishFails /\ NetworkFails
    /\ UNCHANGED <<subscribed, pending, outbox, lastResult, cache, store, envVars, heard, since>>

LoopStep ==
    \/ LinkLost \/ LinkUp \/ Connect
    \/ PollReturns
    \/ DrainOutbox \/ NothingPending \/ RejectGarbage
    \/ \E c \in Cmd : Replay(c) \/ Decide(c)
    \/ AlreadySubscribed \/ Subscribe
    \/ PublishOthers

----------------------------------------------------------------------------
(* The environment.                                                        *)

WifiDown ==
    /\ wifi /\ NetworkFails
    /\ wifi' = FALSE
    /\ UNCHANGED <<transportVars, deviceVars, now, sends, restarts, heard, since>>

WifiUp ==
    /\ ~wifi
    /\ wifi' = TRUE
    /\ UNCHANGED <<transportVars, deviceVars, now, sends, restarts, heard, since, faults>>

SessionDrops ==
    /\ ClientDrops /\ NetworkFails
    /\ UNCHANGED <<deviceVars, envVars, heard, since>>

Tick ==
    /\ now < MaxTime
    /\ now' = now + 1
    /\ UNCHANGED <<transportVars, deviceVars, wifi, sends, restarts, heard, since, faults>>

(* Mutant of Restart: the dedup cache does not load what was saved.        *)
RestartEmpty ==
    /\ restarts < MaxRestarts
    /\ restarts' = restarts + 1
    /\ clientUp' = FALSE /\ sessionValid' = FALSE
    /\ callbackSet' = FALSE /\ brokerSub' = FALSE
    /\ subscribed' = FALSE /\ phase' = "link"
    /\ pending' = <<>> /\ outbox' = <<>> /\ lastResult' = NoResult
    /\ cache' = <<>>
    /\ UNCHANGED <<store, wifi, now, sends, heard, since, faults>>

(* Power loss or restart(): RAM is gone; setup() constructs the dedup      *)
(* cache anew, which loads what was saved.                                 *)
Restart ==
    /\ restarts < MaxRestarts
    /\ restarts' = restarts + 1
    /\ clientUp' = FALSE /\ sessionValid' = FALSE
    /\ callbackSet' = FALSE /\ brokerSub' = FALSE
    /\ subscribed' = FALSE /\ phase' = "link"
    /\ pending' = <<>> /\ outbox' = <<>> /\ lastResult' = NoResult
    /\ cache' = store
    /\ UNCHANGED <<store, wifi, now, sends, heard, since, faults>>

Next ==
    \/ LoopStep
    \/ \E p \in Payload : Receive(p)
    \/ WifiDown \/ WifiUp \/ SessionDrops \/ Tick \/ Restart

Spec == Init /\ [][Next]_vars

(* loop() is called forever, and the access point comes back.              *)
FairSpec == Spec /\ WF_vars(LoopStep) /\ WF_vars(WifiUp)

----------------------------------------------------------------------------
(* Properties.                                                             *)

(* What waits in the response outbox is the remainder of one command's     *)
(* story, in order, and it says what the dedup cache remembers: the        *)
(* premise on which kMaxOutboxSize rests (remote_command_processor.h,      *)
(* 65-76), so enqueue() never refuses a response.                          *)
OutboxIsOneStory ==
    outbox # <<>> =>
        \E c \in Cmd :
            /\ Known(cache, c)
            /\ LET v == VerdictOf(cache, c)
                   terminal == [cmd |-> c, answer |-> v]
               IN  \/ outbox = <<terminal>>
                   \/ /\ HasAccepted(v)
                      /\ outbox = <<[cmd |-> c, answer |-> "ACCEPTED"], terminal>>

(* main.cpp skips subscribe() while subscribedToCommands is set: on a live *)
(* session that must mean that the broker delivers and somebody listens.   *)
NeverDeaf == subscribed /\ IsConnected => brokerSub /\ callbackSet

(* A command that an outage held in the queue past its window is never     *)
(* accepted when the loop gets to it (checkTimeSafety() runs then, not on  *)
(* arrival), nor one from the future, nor one with a malformed window.     *)
StaleNeverAccepted ==
    [][\A c \in Cmd :
          /\ ~Known(cache, c)
          /\ Known(cache', c) /\ HasAccepted(VerdictOf(cache', c))
          => /\ now <= Expires[c] /\ Issued[c] <= now + SkewTolerance
             /\ Issued[c] < Expires[c] /\ Expires[c] - Issued[c] <= MaxValidity]_vars

(* The device forgets a command it answered only when as many others were  *)
(* decided since as the dedup cache has rows, or in a restart without a    *)
(* persistent cache: never early, never out of order, never with the power.*)
ForgottenOnlyWhenCrowded ==
    \A c \in Cmd :
        heard[c] # <<>> /\ ~Known(cache, c) =>
            Cardinality(since[c]) >= CacheCapacity \/ (~Durable /\ restarts > 0)

(* "For production, the recent-command cache for OPEN_DOOR must survive    *)
(* reboot for at least the maximum command-validity window"                *)
(* (docs/communication-protocol.md, 1099-1100; command_cache.h, 59-63):    *)
(* what record() evicts by count may still be valid.                       *)
RememberedWhileValid ==
    \A c \in Cmd :
        Kind[c] = "OPEN_DOOR" /\ heard[c] # <<>> /\ now <= Expires[c] => Known(cache, c)

(* With an empty outbox, a parsed command has had its terminal response    *)
(* published: lastResult() has converged.                                  *)
LastResultConverges == lastResult.parsed /\ outbox = <<>> => lastResult.terminal

(* The pipeline does what CommandContract promises, the dedup cache being  *)
(* the record of the decisions: it forgets as the contract allows, and     *)
(* until then no command is decided twice.                                 *)
Contract == INSTANCE CommandContract WITH
    Verdicts <- Verdict,
    Announced <- {v \in Verdict : HasAccepted(v)},
    Capacity <- CacheCapacity,
    Volatile <- ~Durable,
    decided <- [c \in Cmd |-> IF Known(cache, c) THEN VerdictOf(cache, c) ELSE "undecided"],
    told <- heard

ImplementsContract == Contract!Spec

(* Once the network stops failing, the loop settles in a session that is   *)
(* alive at both ends and subscribed, whatever it believed meanwhile.      *)
SettlesOnline == <>[](subscribed /\ sessionValid /\ clientUp /\ brokerSub)

(* A queued command is answered: its terminal response reaches the broker  *)
(* however often publishing fails before that, unless a restart comes      *)
(* first, which loses the queue (RemoteCommandProcessor keeps it in RAM).  *)
QueuedIsAnswered ==
    \A c \in Cmd, n \in 0..MaxRestarts :
        (restarts = n /\ \E i \in DOMAIN pending : pending[i] = c)
            ~> (restarts > n \/ \E i \in DOMAIN heard[c] : heard[c][i] \in Verdict)
=============================================================================
