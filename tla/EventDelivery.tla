--------------------------- MODULE EventDelivery ---------------------------
(***************************************************************************)
(* The outbox of device events and the loop that flushes it over MQTT:     *)
(* MemoryEventOutbox and PersistentEventOutbox                             *)
(* (src/src/protocol/event_outbox.cpp), publishProtocolEvent() and the     *)
(* flush of updateNetwork() in src/src/main.cpp, and publishPendingEvents()*)
(* of the DEV images (src/src/dev/dev_ring_event.cpp).                     *)
(*                                                                         *)
(* The flush walks a COPY of the queue (pending() returns a vector), one   *)
(* publish and one dequeue at a time; the connection may die, a PUBACK may *)
(* be lost and the device may restart between any two of them.  The        *)
(* backend ingests idempotently by event id                                *)
(* (src/docs/communication-protocol.md section 17).                        *)
(***************************************************************************)
EXTENDS Naturals, Sequences, FiniteSets, MqttTransport

CONSTANTS
    OutboxCapacity,  \* kDefaultEventOutboxCapacity
    MaxEvents,       \* bound on the events created
    MaxFaults,       \* bound on failures of the network
    MaxRestarts      \* bound on restarts

ASSUME DeliveryAssumption ==
    /\ OutboxCapacity \in Nat \ {0}
    /\ {MaxEvents, MaxFaults, MaxRestarts} \subseteq Nat

VARIABLES
    image,     \* the firmware image that runs: "production" or "dev"
    memory,    \* entries_: the queued events, oldest first
    store,     \* the queue as the persistent store holds it
    batch,     \* what is left of the copy that the flush walks
    phase,     \* "produce": outside the flush; "flush": publish the head of
               \* batch next; "dequeue": it was published, remove it next
    made,      \* number of events created so far; an event's id is its number
    seen,      \* the events the backend has ingested, in order of arrival
    evicted,   \* ids dropped by a full outbox
    faults, restarts   \* environment events so far

deliveryVars == <<memory, store, batch, phase, made, seen, evicted>>
vars == <<image, transportVars, deliveryVars, faults, restarts>>

(* The outbox is a PersistentEventOutbox; a failed publish ends the flush. *)
Durable == image = "production"
StopAtFailure == image = "dev"

EventName == {"RING_DETECTED", "RING_ENDED", "OTHER"}
Entry == [id : Nat, name : EventName, call : Nat]

Ids(queue) == {queue[i].id : i \in 1..Len(queue)}

TypeOK ==
    /\ image \in {"production", "dev"}
    /\ TransportTypeOK
    /\ {memory, store, batch, seen} \subseteq Seq(Entry)
    /\ Len(memory) <= OutboxCapacity
    /\ phase \in {"produce", "flush", "dequeue"}
    /\ evicted \subseteq 1..made
    /\ {made, faults, restarts} \subseteq Nat

Init ==
    /\ image \in {"production", "dev"}
    /\ TransportInit
    /\ memory = <<>> /\ store = <<>> /\ batch = <<>>
    /\ phase = "produce"
    /\ made = 0 /\ seen = <<>> /\ evicted = {}
    /\ faults = 0 /\ restarts = 0

----------------------------------------------------------------------------
(* The outbox.                                                             *)

(* Mutant of Enqueued: a full queue drops its newest entry.                *)
EnqueuedOverNewest(queue, e) ==
    Append(IF Len(queue) >= OutboxCapacity THEN SubSeq(queue, 1, Len(queue) - 1)
                                           ELSE queue, e)

(* MemoryEventOutbox::enqueue(): an id that is queued already is replaced  *)
(* in place; a full queue drops its oldest entry.                          *)
Enqueued(queue, e) ==
    IF e.id \in Ids(queue)
    THEN [i \in 1..Len(queue) |-> IF queue[i].id = e.id THEN e ELSE queue[i]]
    ELSE Append(IF Len(queue) >= OutboxCapacity THEN Tail(queue) ELSE queue, e)

(* MemoryEventOutbox::dequeue(): enqueue() keeps ids unique, so remove_if  *)
(* finds at most one entry.                                                *)
Dequeued(queue, id) ==
    IF id \in Ids(queue)
    THEN LET at == CHOOSE i \in 1..Len(queue) : queue[i].id = id
         IN  SubSeq(queue, 1, at - 1) \o SubSeq(queue, at + 1, Len(queue))
    ELSE queue

(* save(): the whole queue is written after each change.                   *)
Saved(queue) == IF Durable THEN queue ELSE store

(* enqueue() of a new event under an id of its own.                        *)
Produce(name, call) ==
    LET e == [id |-> made + 1, name |-> name, call |-> call]
    IN  /\ phase = "produce"
        /\ made < MaxEvents
        /\ made' = made + 1
        /\ memory' = Enqueued(memory, e)
        /\ store' = Saved(memory')
        /\ evicted' = evicted \cup (Ids(memory) \ Ids(memory'))
        /\ UNCHANGED <<image, transportVars, batch, phase, seen, faults, restarts>>

(* publishProtocolEvent(), called by updateButton(), updateProvisioning(), *)
(* updateIntercom() and after an OTA job: never during a flush.            *)
Report == image = "production" /\ Produce("OTHER", 0)

----------------------------------------------------------------------------
(* The link.                                                               *)

NetworkFails == faults < MaxFaults /\ faults' = faults + 1

Reconnect ==
    /\ phase = "produce"
    /\ ~IsConnected
    /\ \/ ConnectSucceeds /\ UNCHANGED faults
       \/ ConnectFails /\ NetworkFails
    /\ UNCHANGED <<image, deliveryVars, restarts>>

(* Wi-Fi is gone: the session is torn down; or poll() finds it broken.     *)
LinkLost ==
    /\ phase = "produce"
    /\ IsConnected
    /\ Disconnect \/ PollFindsBroken
    /\ NetworkFails
    /\ UNCHANGED <<image, deliveryVars, restarts>>

(* The connection dies unnoticed, between any two calls of the loop.       *)
SessionDrops ==
    /\ ClientDrops
    /\ NetworkFails
    /\ UNCHANGED <<image, deliveryVars, restarts>>

----------------------------------------------------------------------------
(* The flush.                                                              *)

Ingested(e) == IF e.id \in Ids(seen) THEN seen ELSE Append(seen, e)

StartFlush ==
    /\ phase = "produce"
    /\ IsConnected
    /\ memory # <<>>
    /\ batch' = memory
    /\ phase' = "flush"
    /\ UNCHANGED <<image, transportVars, memory, store, made, seen, evicted, faults, restarts>>

EndFlush ==
    /\ phase = "flush"
    /\ batch = <<>>
    /\ phase' = "produce"
    /\ UNCHANGED <<image, transportVars, memory, store, batch, made, seen, evicted, faults, restarts>>

PublishConfirmed ==
    /\ phase = "flush"
    /\ batch # <<>>
    /\ PublishAcknowledged
    /\ seen' = Ingested(Head(batch))
    /\ phase' = "dequeue"
    /\ UNCHANGED <<image, memory, store, batch, made, evicted, faults, restarts>>

(* Mutant of PublishNotConfirmed: the entry is dequeued all the same.      *)
PublishTakenOnTrust ==
    /\ phase = "flush"
    /\ batch # <<>>
    /\ PublishFails /\ NetworkFails
    /\ phase' = "dequeue"
    /\ UNCHANGED <<image, memory, store, batch, made, seen, evicted, restarts>>

(* Refused without a session; or no PUBACK came back, which says nothing   *)
(* of whether the event arrived.  The DEV images stop here; main.cpp goes  *)
(* on to the next entry.                                                   *)
PublishNotConfirmed ==
    /\ phase = "flush"
    /\ batch # <<>>
    /\ \/ PublishRefused /\ UNCHANGED <<seen, faults>>
       \/ PublishFails /\ NetworkFails /\ seen' \in {seen, Ingested(Head(batch))}
    /\ batch' = IF StopAtFailure THEN <<>> ELSE Tail(batch)
    /\ UNCHANGED <<image, memory, store, phase, made, evicted, restarts>>

DequeuePublished ==
    /\ phase = "dequeue"
    /\ memory' = Dequeued(memory, Head(batch).id)
    /\ store' = Saved(memory')
    /\ batch' = Tail(batch)
    /\ phase' = "flush"
    /\ UNCHANGED <<image, transportVars, made, seen, evicted, faults, restarts>>

(* Mutant of Restart: load() is forgotten.                                 *)
RestartUnloaded ==
    /\ restarts < MaxRestarts
    /\ restarts' = restarts + 1
    /\ Disconnect
    /\ memory' = <<>> /\ batch' = <<>> /\ phase' = "produce"
    /\ UNCHANGED <<image, store, made, seen, evicted, faults>>

(* The device restarts without a session; load() puts the saved queue back.*)
Restart ==
    /\ restarts < MaxRestarts
    /\ restarts' = restarts + 1
    /\ Disconnect
    /\ memory' = store
    /\ batch' = <<>>
    /\ phase' = "produce"
    /\ UNCHANGED <<image, store, made, seen, evicted, faults>>

Deliver ==
    \/ Reconnect \/ StartFlush \/ EndFlush
    \/ PublishConfirmed \/ PublishNotConfirmed \/ DequeuePublished

----------------------------------------------------------------------------
(* Properties.                                                             *)

(* The backend ingests events in the order in which the device created     *)
(* them, whatever failed in between.  The flush of main.cpp does not stop  *)
(* at a failed publish: that a younger event cannot overtake it rests on   *)
(* publish() having given up the session.                                  *)
InOrder == \A i, j \in 1..Len(seen) : i < j => seen[i].id < seen[j].id

(* An event of the durable outbox is ingested, still stored, or was dropped*)
(* by a full queue; no failed publish and no restart loses it.             *)
NothingLost == Durable => 1..made = Ids(seen) \cup Ids(store) \cup evicted

(* The queue keeps the newest events, in order: what a full outbox drops is*)
(* older than everything it still holds.                                   *)
BacklogIsNewest ==
    /\ \A i, j \in 1..Len(memory) : i < j => memory[i].id < memory[j].id
    /\ \A i \in 1..Len(memory), n \in evicted : n < memory[i].id

(* Every queued event reaches the backend or is dropped by a full queue,   *)
(* through any bounded number of failures; only the volatile outbox of the *)
(* DEV images loses it to a restart.                                       *)
BacklogDrains ==
    \A n \in 1..MaxEvents, r \in 0..MaxRestarts :
        (n \in Ids(memory) /\ restarts = r)
            ~> (n \in Ids(seen) \cup evicted \/ (~Durable /\ restarts > r))
=============================================================================
