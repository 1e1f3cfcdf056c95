------------------------- MODULE RingSession_proofs -------------------------
(***************************************************************************)
(* Theorems about EventDelivery as RingSession drives it, for both images, *)
(* every capacity of the outbox and every bound on events, failures and    *)
(* restarts.                                                               *)
(*                                                                         *)
(* The argument: while the session lives, what the flush has left to send  *)
(* is the queue itself (BatchIsQueue), because the session dies with the   *)
(* first publish that fails and no publish succeeds without one.  Hence    *)
(* only the oldest queued event can have reached the backend, and every    *)
(* event the backend ingests is younger than all it has.                   *)
(***************************************************************************)
EXTENDS RingSession, TLAPS, SequenceTheorems

Entries(queue) == {queue[i] : i \in 1..Len(queue)}

Ordered(queue) == \A i, j \in 1..Len(queue) : i < j => queue[i].id < queue[j].id

----------------------------------------------------------------------------
(* The inductive invariant.                                                *)

(* Volatile queues are never saved, durable ones always.                   *)
StoreIsQueue ==
    /\ Durable => store = memory
    /\ ~Durable => store = <<>>

(* The flush sends the queue itself for as long as the session lives.      *)
BatchIsQueue ==
    /\ phase = "flush" /\ IsConnected => batch = memory
    /\ phase = "dequeue" => /\ memory # <<>> /\ batch = memory
                            /\ Head(memory) \in Entries(seen)

(* Ids are given out in order, the backend's events are at most as young   *)
(* as the oldest queued one, and an event that is at both ends is the same.*)
IdsInOrder ==
    /\ Ordered(memory) /\ Ordered(seen)
    /\ \A e \in Entries(memory) \cup Entries(seen) : e.id \in 1..made
    /\ \A e \in Entries(memory), s \in Entries(seen) : s.id <= e.id /\ (s.id = e.id => s = e)
    /\ \A e \in Entries(memory), n \in evicted : n < e.id

(* The ring of call c was announced by an event that is not lost.          *)
Announced(c, queue) ==
    \/ c \in evicted
    \/ \E e \in Entries(queue) : e.name = "RING_DETECTED" /\ e.call = c /\ e.id = c

CallsAnnounced ==
    /\ \A e \in Entries(memory) : e.name = "RING_ENDED" =>
          e.call < e.id /\ (Announced(e.call, memory) \/ Announced(e.call, seen))
    /\ \A e \in Entries(seen) : e.name = "RING_ENDED" =>
          e.call < e.id /\ Announced(e.call, seen)
    /\ state = "RINGING" =>
          /\ activeCall \in 1..made
          /\ Announced(activeCall, memory) \/ Announced(activeCall, seen)

SessionTypeOK ==
    /\ image \in {"production", "dev"}
    /\ memory \in Seq(Entry) /\ store \in Seq(Entry)
    /\ batch \in Seq(Entry) /\ seen \in Seq(Entry)
    /\ Len(memory) <= OutboxCapacity
    /\ phase \in {"produce", "flush", "dequeue"}
    /\ evicted \subseteq 1..made
    /\ made \in Nat /\ faults \in Nat /\ restarts \in Nat
    /\ state \in {"IDLE", "RINGING"} /\ activeCall \in Nat

IInv ==
    /\ SessionTypeOK /\ StoreIsQueue /\ BatchIsQueue /\ IdsInOrder
    /\ CallsAnnounced /\ NothingLost

----------------------------------------------------------------------------
(* Queues of entries.                                                      *)

(* A queue holds entries, and its ids are theirs.                          *)
LEMMA EntriesAndIds ==
    ASSUME NEW queue \in Seq(Entry)
    PROVE  /\ Entries(queue) \subseteq Entry
           /\ \A e \in Entries(queue) : e.id \in Nat /\ e.call \in Nat
           /\ \A n : n \in Ids(queue) <=> \E e \in Entries(queue) : e.id = n
           /\ Entries(<<>>) = {} /\ Ordered(<<>>)
<1>1. \A i \in 1..Len(queue) : queue[i] \in Entry
  OBVIOUS
<1>2. Entries(queue) \subseteq Entry
  BY <1>1 DEF Entries
<1>3. \A e \in Entries(queue) : e.id \in Nat /\ e.call \in Nat
  BY <1>2 DEF Entry
<1>4. \A n : n \in Ids(queue) <=> \E e \in Entries(queue) : e.id = n
  BY DEF Ids, Entries
<1>5. Entries(<<>>) = {} /\ Ordered(<<>>)
  BY DEF Entries, Ordered
<1> QED
  BY <1>2, <1>3, <1>4, <1>5

(* An entry younger than all of a queue goes to its end.                   *)
LEMMA AppendYoungest ==
    ASSUME NEW queue \in Seq(Entry), NEW e \in Entry, Ordered(queue),
           \A x \in Entries(queue) : x.id < e.id
    PROVE  /\ Append(queue, e) \in Seq(Entry)
           /\ Len(Append(queue, e)) = Len(queue) + 1
           /\ Entries(Append(queue, e)) = Entries(queue) \cup {e}
           /\ Ordered(Append(queue, e))
<1> DEFINE new == Append(queue, e)
<1>1. /\ new \in Seq(Entry) /\ Len(new) = Len(queue) + 1 /\ Len(queue) \in Nat
      /\ \A i \in 1..Len(queue) : new[i] = queue[i]
      /\ new[Len(queue) + 1] = e
  OBVIOUS
<1>2. 1..Len(new) = 1..Len(queue) \cup {Len(queue) + 1}
  BY <1>1
<1>3. Entries(new) = Entries(queue) \cup {e}
  BY <1>1, <1>2 DEF Entries
<1>4. \A i \in 1..Len(queue) : queue[i].id < e.id
  BY DEF Entries
<1>5. Ordered(new)
  BY <1>1, <1>2, <1>4 DEF Ordered
<1> QED
  BY <1>1, <1>3, <1>5

(* The head of an ordered queue is its oldest entry; the tail is the rest. *)
LEMMA HeadIsOldest ==
    ASSUME NEW queue \in Seq(Entry), queue # <<>>, Ordered(queue)
    PROVE  /\ Head(queue) \in Entries(queue) /\ Head(queue) \in Entry
           /\ \A x \in Entries(queue) : x = Head(queue) \/ Head(queue).id < x.id
           /\ Tail(queue) \in Seq(Entry)
           /\ Len(Tail(queue)) = Len(queue) - 1
           /\ Entries(Tail(queue)) = Entries(queue) \ {Head(queue)}
           /\ Ordered(Tail(queue))
<1> DEFINE rest == Tail(queue)
<1>1. /\ Len(queue) \in Nat /\ Len(queue) >= 1 /\ Head(queue) = queue[1]
      /\ rest \in Seq(Entry) /\ Len(rest) = Len(queue) - 1
      /\ \A i \in 1..Len(rest) : rest[i] = queue[i + 1]
      /\ \A i \in 1..Len(queue) : queue[i] \in Entry
  OBVIOUS
<1>2. \A i \in 2..Len(queue) : queue[1].id < queue[i].id
  BY <1>1 DEF Ordered
<1>3. \A i \in 1..Len(queue) : i = 1 \/ i \in 2..Len(queue)
  BY <1>1
<1>4. \A x \in Entries(queue) : x = queue[1] \/ queue[1].id < x.id
  BY <1>2, <1>3 DEF Entries
<1>5. \A i \in 2..Len(queue) : queue[i] # queue[1]
  <2> SUFFICES ASSUME NEW i \in 2..Len(queue), queue[i] = queue[1] PROVE FALSE
    OBVIOUS
  <2>1. queue[1].id \in Nat
    BY <1>1 DEF Entry
  <2>2. queue[1].id < queue[1].id
    BY <1>2
  <2> QED
    BY <2>1, <2>2
<1>6. Entries(rest) = {queue[i] : i \in 2..Len(queue)}
  <2>1. \A i \in 1..Len(rest) : i + 1 \in 2..Len(queue)
    BY <1>1
  <2>2. \A i \in 2..Len(queue) : i - 1 \in 1..Len(rest) /\ rest[i - 1] = queue[i]
    BY <1>1
  <2> QED
    BY <1>1, <2>1, <2>2 DEF Entries
<1>7. Entries(rest) = Entries(queue) \ {queue[1]}
  <2>1. Entries(queue) = {queue[i] : i \in 2..Len(queue)} \cup {queue[1]}
    BY <1>1, <1>3 DEF Entries
  <2>2. queue[1] \notin {queue[i] : i \in 2..Len(queue)}
    BY <1>5
  <2> QED
    BY <1>6, <2>1, <2>2
<1>8. Ordered(rest)
  <2> SUFFICES ASSUME NEW i \in 1..Len(rest), NEW j \in 1..Len(rest), i < j
               PROVE  rest[i].id < rest[j].id
    BY DEF Ordered
  <2>1. i + 1 \in 1..Len(queue) /\ j + 1 \in 1..Len(queue) /\ i + 1 < j + 1
    BY <1>1
  <2> QED
    BY <1>1, <2>1 DEF Ordered
<1>9. queue[1] \in Entries(queue)
  BY <1>1 DEF Entries
<1> QED
  BY <1>1, <1>4, <1>7, <1>8, <1>9

(* dequeue() of the oldest entry leaves the others as they were.           *)
LEMMA DequeueOldest ==
    ASSUME NEW queue \in Seq(Entry), queue # <<>>, Ordered(queue)
    PROVE  Dequeued(queue, Head(queue).id) = Tail(queue)
<1> DEFINE at == CHOOSE i \in 1..Len(queue) : queue[i].id = Head(queue).id
<1>1. /\ Len(queue) \in Nat /\ Len(queue) >= 1 /\ Head(queue) = queue[1]
      /\ \A i \in 1..Len(queue) : queue[i] \in Entry
  OBVIOUS
<1>2. 1 \in 1..Len(queue) /\ queue[1].id = Head(queue).id
  BY <1>1
<1>3. \A i \in 1..Len(queue) : i = 1 \/ 1 < i
  BY <1>1
<1>4. \A i \in 1..Len(queue) : queue[i].id = Head(queue).id => i = 1
  <2> SUFFICES ASSUME NEW i \in 1..Len(queue), queue[i].id = queue[1].id, i # 1
               PROVE  FALSE
    BY <1>1
  <2>1. queue[1].id < queue[i].id
    BY <1>2, <1>3 DEF Ordered
  <2>2. queue[1].id \in Nat
    BY <1>1, <1>2 DEF Entry
  <2> QED
    BY <2>1, <2>2
<1>5. at = 1
  <2>1. at \in 1..Len(queue) /\ queue[at].id = Head(queue).id
    BY <1>2
  <2> QED
    BY <1>4, <2>1
<1>6. Head(queue).id \in Ids(queue)
  BY <1>2 DEF Ids
<1>7. SubSeq(queue, 1, 1 - 1) = <<>>
  BY SubSeqEmpty
<1>8. SubSeq(queue, 1 + 1, Len(queue)) = Tail(queue)
  BY TailIsSubSeq
<1>9. <<>> \o Tail(queue) = Tail(queue)
  BY ConcatEmptySeq
<1>10. Dequeued(queue, Head(queue).id) = SubSeq(queue, 1, at - 1) \o SubSeq(queue, at + 1, Len(queue))
  BY <1>6 DEF Dequeued
<1> HIDE DEF at
<1> QED
  BY <1>5, <1>7, <1>8, <1>9, <1>10

(* enqueue() of a new event keeps the queue within its capacity; the only  *)
(* entry it may drop is the oldest.                                        *)
LEMMA EnqueueNew ==
    ASSUME NEW queue \in Seq(Entry), Len(queue) <= OutboxCapacity,
           NEW e \in Entry, Ordered(queue),
           \A x \in Entries(queue) : x.id < e.id
    PROVE  /\ Enqueued(queue, e) \in Seq(Entry)
           /\ Len(Enqueued(queue, e)) <= OutboxCapacity
           /\ Ordered(Enqueued(queue, e))
           /\ \/ Entries(Enqueued(queue, e)) = Entries(queue) \cup {e}
              \/ /\ queue # <<>>
                 /\ Entries(Enqueued(queue, e)) = (Entries(queue) \ {Head(queue)}) \cup {e}
<1> DEFINE kept == IF Len(queue) >= OutboxCapacity THEN Tail(queue) ELSE queue
<1>1. e.id \notin Ids(queue)
  <2>1. e.id \in Nat
    BY DEF Entry
  <2> QED
    BY <2>1, EntriesAndIds
<1>2. Enqueued(queue, e) = Append(kept, e)
  BY <1>1 DEF Enqueued
<1>3. Len(queue) \in Nat /\ OutboxCapacity \in Nat /\ OutboxCapacity >= 1
  BY DeliveryAssumption DEF DeliveryAssumption
<1>4. CASE Len(queue) >= OutboxCapacity
  <2>1. queue # <<>>
    BY <1>3, <1>4
  <2>2. kept \in Seq(Entry) /\ Ordered(kept) /\ Len(kept) = Len(queue) - 1
        /\ Entries(kept) = Entries(queue) \ {Head(queue)}
    BY <1>4, <2>1, HeadIsOldest
  <2>3. \A x \in Entries(kept) : x.id < e.id
    BY <2>2
  <2>4. /\ Append(kept, e) \in Seq(Entry) /\ Ordered(Append(kept, e))
        /\ Len(Append(kept, e)) = Len(kept) + 1
        /\ Entries(Append(kept, e)) = Entries(kept) \cup {e}
    BY <2>2, <2>3, AppendYoungest
  <2> HIDE DEF kept
  <2> QED
    BY <1>2, <1>3, <2>1, <2>2, <2>4
<1>5. CASE ~(Len(queue) >= OutboxCapacity)
  <2>1. kept = queue
    BY <1>5
  <2>2. /\ Append(queue, e) \in Seq(Entry) /\ Ordered(Append(queue, e))
        /\ Len(Append(queue, e)) = Len(queue) + 1
        /\ Entries(Append(queue, e)) = Entries(queue) \cup {e}
    BY AppendYoungest
  <2> QED
    BY <1>2, <1>3, <1>5, <2>1, <2>2
<1> QED
  BY <1>4, <1>5

(* Ingesting an event that is at least as young as all the backend has     *)
(* keeps the backend's record in order, with every event once.             *)
LEMMA IngestYoungest ==
    ASSUME seen \in Seq(Entry), NEW e \in Entry, Ordered(seen),
           \A s \in Entries(seen) : s.id <= e.id /\ (s.id = e.id => s = e)
    PROVE  /\ Ingested(e) \in Seq(Entry)
           /\ Ordered(Ingested(e))
           /\ Entries(Ingested(e)) = Entries(seen) \cup {e}
<1>1. CASE e.id \in Ids(seen)
  <2>1. e \in Entries(seen)
    BY <1>1, EntriesAndIds
  <2>2. Ingested(e) = seen
    BY <1>1 DEF Ingested
  <2> QED
    BY <2>1, <2>2
<1>2. CASE e.id \notin Ids(seen)
  <2>1. \A s \in Entries(seen) : s.id # e.id /\ s.id \in Nat
    BY <1>2, EntriesAndIds
  <2>2. \A s \in Entries(seen) : s.id < e.id
    BY <2>1 DEF Entry
  <2>3. Ingested(e) = Append(seen, e)
    BY <1>2 DEF Ingested
  <2> QED
    BY <2>2, <2>3, AppendYoungest
<1> QED
  BY <1>1, <1>2

----------------------------------------------------------------------------
(* The steps that change the queue or the backend's record.                *)

(* A new event: it is the youngest, and what it pushes out of a full       *)
(* outbox was the oldest.                                                  *)
LEMMA ProduceKeeps ==
    ASSUME IInv, NEW name \in EventName, NEW call \in Nat, Produce(name, call),
           state' \in {"IDLE", "RINGING"}, activeCall' \in Nat,
           name = "RING_ENDED" =>
               call \in 1..made /\ (Announced(call, memory) \/ Announced(call, seen)),
           state' = "RINGING" =>
               \/ name = "RING_DETECTED" /\ call = made + 1 /\ activeCall' = made + 1
               \/ state = "RINGING" /\ activeCall' = activeCall
    PROVE  IInv'
<1> DEFINE e == [id |-> made + 1, name |-> name, call |-> call]
           dropped == {x \in Entries(memory) : x \notin Entries(memory')}
<1> USE DEF IInv
<1>1. /\ phase = "produce" /\ made' = made + 1 /\ memory' = Enqueued(memory, e)
      /\ store' = Saved(memory')
      /\ evicted' = evicted \cup (Ids(memory) \ Ids(memory'))
      /\ UNCHANGED <<image, batch, phase, seen, faults, restarts>>
  BY DEF Produce
<1>2. /\ made \in Nat /\ e \in Entry /\ e.id = made + 1 /\ e.name = name /\ e.call = call
      /\ memory \in Seq(Entry) /\ seen \in Seq(Entry)
  BY DEF SessionTypeOK, Entry
<1> HIDE DEF e
<1>3. \A x \in Entries(memory) \cup Entries(seen) : x.id \in 1..made /\ x.id < e.id
  BY <1>2 DEF IdsInOrder
<1>4. /\ memory' \in Seq(Entry) /\ Len(memory') <= OutboxCapacity /\ Ordered(memory')
      /\ \/ Entries(memory') = Entries(memory) \cup {e}
         \/ /\ memory # <<>>
            /\ Entries(memory') = (Entries(memory) \ {Head(memory)}) \cup {e}
  BY <1>1, <1>2, <1>3, EnqueueNew DEF SessionTypeOK, IdsInOrder
<1>5. e \notin Entries(memory)
  BY <1>2, <1>3
<1>6. /\ Entries(memory') = (Entries(memory) \ dropped) \cup {e}
      /\ \A d \in dropped, x \in Entries(memory) : x \in dropped \/ d.id < x.id
  <2>1. CASE Entries(memory') = Entries(memory) \cup {e}
    BY <2>1
  <2>2. CASE memory # <<>> /\ Entries(memory') = (Entries(memory) \ {Head(memory)}) \cup {e}
    <3>1. Head(memory) \in Entries(memory)
          /\ \A x \in Entries(memory) : x = Head(memory) \/ Head(memory).id < x.id
      BY <1>2, <2>2, HeadIsOldest DEF IdsInOrder
    <3>2. dropped = {Head(memory)}
      BY <2>2, <3>1, <1>5
    <3> QED
      BY <2>2, <3>1, <3>2
  <2> QED
    BY <1>4, <2>1, <2>2
<1>7. \A x \in dropped : x \in Entries(memory) /\ x \notin Entries(memory')
  OBVIOUS
<1> HIDE DEF dropped
<1>8. evicted' = evicted \cup {x.id : x \in dropped}
  <2>1. \A n : n \in Ids(memory) <=> \E x \in Entries(memory) : x.id = n
    BY <1>2, EntriesAndIds
  <2>2. \A n : n \in Ids(memory') <=> \E x \in Entries(memory') : x.id = n
    BY <1>4, EntriesAndIds
  <2>3. \A d \in dropped, x \in Entries(memory') : d.id # x.id
    <3> SUFFICES ASSUME NEW d \in dropped, NEW x \in Entries(memory'), d.id = x.id
                 PROVE  FALSE
      OBVIOUS
    <3>1. CASE x = e
      BY <3>1, <1>3, <1>7, <1>2
    <3>2. CASE x # e
      <4>1. x \in Entries(memory) /\ x \notin dropped
        BY <3>2, <1>6
      <4>2. d.id < x.id /\ x.id \in Nat
        BY <4>1, <1>6, <1>3
      <4> QED
        BY <4>2
    <3> QED
      BY <3>1, <3>2
  <2>4. \A n : n \in Ids(memory) \ Ids(memory') <=> \E x \in dropped : x.id = n
    BY <2>1, <2>2, <2>3, <1>6, <1>7
  <2> QED
    BY <1>1, <2>4
<1>9. SessionTypeOK'
  <2>1. evicted' \subseteq 1..made'
    <3>1. {x.id : x \in dropped} \subseteq 1..made
      BY <1>3, <1>7
    <3>2. evicted \subseteq 1..made
      BY DEF SessionTypeOK
    <3>3. evicted' \subseteq 1..made
      BY <1>8, <3>1, <3>2
    <3>4. 1..made \subseteq 1..made'
      BY <1>1, <1>2
    <3> QED
      BY <3>3, <3>4
  <2>2. store' \in Seq(Entry)
    BY <1>1, <1>4 DEF SessionTypeOK, Saved
  <2> QED
    BY <1>1, <1>2, <1>4, <2>1, <2>2 DEF SessionTypeOK
<1>10. StoreIsQueue'
  BY <1>1 DEF StoreIsQueue, Saved, Durable
<1>11. BatchIsQueue'
  BY <1>1 DEF BatchIsQueue
<1>12. IdsInOrder'
  <2>1. \A x \in Entries(memory') \cup Entries(seen) : x.id \in 1..made'
    BY <1>1, <1>2, <1>3, <1>6
  <2>2. \A x \in Entries(memory'), s \in Entries(seen) :
            s.id <= x.id /\ (s.id = x.id => s = x)
    BY <1>2, <1>3, <1>6 DEF IdsInOrder
  <2>3. \A x \in Entries(memory'), n \in evicted' : n < x.id
    <3> SUFFICES ASSUME NEW x \in Entries(memory'), NEW n \in evicted' PROVE n < x.id
      OBVIOUS
    <3>1. CASE n \in evicted
      <4>1. n \in 1..made
        BY <3>1 DEF SessionTypeOK
      <4> QED
        BY <3>1, <4>1, <1>2, <1>6 DEF IdsInOrder
    <3>2. ASSUME NEW d \in dropped, n = d.id PROVE n < x.id
      BY <3>2, <1>2, <1>3, <1>6, <1>7
    <3> QED
      BY <3>1, <3>2, <1>8
  <2> QED
    BY <1>1, <1>4, <2>1, <2>2, <2>3 DEF IdsInOrder
<1>13. \A c : Announced(c, memory) => Announced(c, memory)'
  BY <1>6, <1>8 DEF Announced
<1>14. \A c : Announced(c, seen) => Announced(c, seen)'
  BY <1>1, <1>8 DEF Announced
<1>15. CallsAnnounced'
  <2>1. \A x \in Entries(memory') : x.name = "RING_ENDED" =>
            x.call < x.id /\ (Announced(x.call, memory)' \/ Announced(x.call, seen)')
    <3> SUFFICES ASSUME NEW x \in Entries(memory'), x.name = "RING_ENDED"
                 PROVE  x.call < x.id /\ (Announced(x.call, memory)' \/ Announced(x.call, seen)')
      OBVIOUS
    <3>1. CASE x = e
      BY <3>1, <1>2, <1>13, <1>14
    <3>2. CASE x # e
      <4>1. x \in Entries(memory)
        BY <3>2, <1>6
      <4> QED
        BY <4>1, <1>13, <1>14 DEF CallsAnnounced
    <3> QED
      BY <3>1, <3>2
  <2>2. \A x \in Entries(seen) : x.name = "RING_ENDED" =>
            x.call < x.id /\ Announced(x.call, seen)'
    BY <1>14 DEF CallsAnnounced
  <2>3. state' = "RINGING" =>
            activeCall' \in 1..made' /\ (Announced(activeCall, memory)' \/ Announced(activeCall, seen)')
    <3>1. CASE name = "RING_DETECTED" /\ call = made + 1 /\ activeCall' = made + 1
      <4>1. e \in Entries(memory')
        BY <1>6
      <4> QED
        BY <3>1, <4>1, <1>1, <1>2 DEF Announced
    <3>2. CASE state = "RINGING" /\ activeCall' = activeCall
      BY <3>2, <1>1, <1>2, <1>13, <1>14 DEF CallsAnnounced
    <3> QED
      BY <3>1, <3>2
  <2> QED
    BY <1>1, <2>1, <2>2, <2>3 DEF CallsAnnounced
<1>16. NothingLost'
  <2> SUFFICES ASSUME Durable PROVE 1..made' = Ids(seen') \cup Ids(store') \cup evicted'
    BY <1>1 DEF NothingLost, Durable
  <2>1. store = memory /\ store' = memory' /\ 1..made = Ids(seen) \cup Ids(store) \cup evicted
    BY <1>1 DEF StoreIsQueue, Saved, NothingLost
  <2>2. \A n : n \in Ids(memory) <=> \E x \in Entries(memory) : x.id = n
    BY <1>2, EntriesAndIds
  <2>3. \A n : n \in Ids(memory') <=> \E x \in Entries(memory') : x.id = n
    BY <1>4, EntriesAndIds
  <2>4. Ids(memory') \cup evicted' = Ids(memory) \cup evicted \cup {made + 1}
    BY <1>2, <1>6, <1>7, <1>8, <2>2, <2>3
  <2>5. 1..made' = 1..made \cup {made + 1}
    BY <1>1, <1>2
  <2> QED
    BY <1>1, <2>1, <2>4, <2>5
<1> QED
  BY <1>9, <1>10, <1>11, <1>12, <1>15, <1>16

(* What the flush publishes is the oldest queued event.                    *)
LEMMA PublishesOldest ==
    ASSUME IInv, phase = "flush", IsConnected, batch # <<>>
    PROVE  /\ memory # <<>> /\ batch = memory
           /\ Head(batch) = Head(memory) /\ Head(memory) \in Entries(memory)
           /\ Ingested(Head(batch)) \in Seq(Entry)
           /\ Ordered(Ingested(Head(batch)))
           /\ Entries(Ingested(Head(batch))) = Entries(seen) \cup {Head(memory)}
<1> USE DEF IInv
<1>1. batch = memory /\ memory # <<>>
  BY DEF BatchIsQueue
<1>2. Head(memory) \in Entries(memory) /\ Head(memory) \in Entry
  BY <1>1, HeadIsOldest DEF SessionTypeOK, IdsInOrder
<1>3. \A s \in Entries(seen) : s.id <= Head(memory).id /\ (s.id = Head(memory).id => s = Head(memory))
  BY <1>2 DEF IdsInOrder
<1> QED
  BY <1>1, <1>2, <1>3, IngestYoungest DEF SessionTypeOK, IdsInOrder

(* The backend takes in the oldest queued event, or nothing: whatever the  *)
(* device learns of it, the order and the announcements stand.             *)
LEMMA BackendTakesOldest ==
    ASSUME IInv, memory # <<>>, seen' \in Seq(Entry), Ordered(seen'),
           \/ Entries(seen') = Entries(seen)
           \/ Entries(seen') = Entries(seen) \cup {Head(memory)},
           UNCHANGED <<image, memory, store, made, evicted, sessionVars>>
    PROVE  IdsInOrder' /\ CallsAnnounced' /\ NothingLost'
<1> USE DEF IInv
<1>1. /\ Head(memory) \in Entries(memory)
      /\ \A x \in Entries(memory) : x = Head(memory) \/ Head(memory).id < x.id
      /\ memory \in Seq(Entry) /\ seen \in Seq(Entry)
  BY HeadIsOldest DEF IdsInOrder, SessionTypeOK
<1>2. \A x \in Entries(memory) : x.id \in Nat
  BY <1>1, EntriesAndIds
<1>3. Entries(seen) \subseteq Entries(seen')
  OBVIOUS
<1>4. IdsInOrder'
  <2>1. \A x \in Entries(memory), s \in Entries(seen') : s.id <= x.id /\ (s.id = x.id => s = x)
    <3>1. \A x \in Entries(memory) :
              Head(memory).id <= x.id /\ (Head(memory).id = x.id => Head(memory) = x)
      BY <1>1, <1>2
    <3>2. \A x \in Entries(memory), s \in Entries(seen) : s.id <= x.id /\ (s.id = x.id => s = x)
      BY DEF IdsInOrder
    <3> QED
      BY <3>1, <3>2
  <2>2. \A x \in Entries(memory) \cup Entries(seen') : x.id \in 1..made
    BY <1>1 DEF IdsInOrder
  <2> QED
    BY <2>1, <2>2 DEF IdsInOrder
<1>5. CallsAnnounced'
  <2>1. \A c : Announced(c, seen) => Announced(c, seen)'
    BY <1>3 DEF Announced
  <2>2. \A c : Announced(c, memory) => Announced(c, memory)'
    BY DEF Announced
  <2>3. ASSUME Head(memory).name = "RING_ENDED"
        PROVE  Head(memory).call < Head(memory).id /\ Announced(Head(memory).call, seen)'
    <3>1. /\ Head(memory).call < Head(memory).id
          /\ Announced(Head(memory).call, memory) \/ Announced(Head(memory).call, seen)
      BY <2>3, <1>1 DEF CallsAnnounced
    <3>2. CASE Announced(Head(memory).call, seen)
      BY <3>1, <3>2, <2>1
    <3>3. CASE Announced(Head(memory).call, memory)
      <4>1. CASE Head(memory).call \in evicted
        BY <3>1, <4>1 DEF Announced
      <4>2. ASSUME NEW x \in Entries(memory), x.name = "RING_DETECTED", x.id = Head(memory).call
            PROVE  FALSE
        <5>1. x # Head(memory)
          BY <4>2, <2>3
        <5>2. Head(memory).id < x.id /\ x.id < Head(memory).id
          BY <5>1, <4>2, <1>1, <3>1
        <5>3. Head(memory).id \in Nat /\ x.id \in Nat
          BY <1>1, <1>2
        <5> QED
          BY <5>2, <5>3
      <4> QED
        BY <3>3, <4>1, <4>2 DEF Announced
    <3> QED
      BY <3>1, <3>2, <3>3
  <2>4. \A x \in Entries(seen') : x.name = "RING_ENDED" =>
            x.call < x.id /\ Announced(x.call, seen)'
    BY <2>1, <2>3 DEF CallsAnnounced
  <2>5. \A x \in Entries(memory) : x.name = "RING_ENDED" =>
            x.call < x.id /\ (Announced(x.call, memory)' \/ Announced(x.call, seen)')
    BY <2>1, <2>2 DEF CallsAnnounced
  <2>6. state' = "RINGING" =>
            /\ activeCall' \in 1..made'
            /\ Announced(activeCall, memory)' \/ Announced(activeCall, seen)'
    BY <2>1, <2>2 DEF CallsAnnounced, sessionVars
  <2> QED
    BY <2>4, <2>5, <2>6 DEF CallsAnnounced
<1>6. NothingLost'
  <2>1. Ids(seen') \subseteq Ids(seen) \cup Ids(memory) /\ Ids(seen) \subseteq Ids(seen')
    <3>1. \A n : n \in Ids(seen) <=> \E x \in Entries(seen) : x.id = n
      BY <1>1, EntriesAndIds
    <3>2. \A n : n \in Ids(seen') <=> \E x \in Entries(seen') : x.id = n
      BY EntriesAndIds
    <3>3. \A n : n \in Ids(memory) <=> \E x \in Entries(memory) : x.id = n
      BY <1>1, EntriesAndIds
    <3> QED
      BY <1>1, <3>1, <3>2, <3>3
  <2> QED
    BY <2>1 DEF NothingLost, StoreIsQueue, Durable
<1> QED
  BY <1>4, <1>5, <1>6

(* publish() is acknowledged.                                              *)
LEMMA PublishConfirmedKeeps ==
    ASSUME IInv, PublishConfirmed, UNCHANGED sessionVars
    PROVE  IInv'
<1> USE DEF IInv
<1>1. /\ phase = "flush" /\ batch # <<>> /\ IsConnected
      /\ seen' = Ingested(Head(batch)) /\ phase' = "dequeue"
      /\ UNCHANGED <<image, memory, store, batch, made, evicted, faults, restarts>>
  BY DEF PublishConfirmed, PublishAcknowledged
<1>2. /\ memory # <<>> /\ batch = memory /\ Head(memory) \in Entries(memory)
      /\ seen' \in Seq(Entry) /\ Ordered(seen')
      /\ Entries(seen') = Entries(seen) \cup {Head(memory)}
  BY <1>1, PublishesOldest
<1>3. IdsInOrder' /\ CallsAnnounced' /\ NothingLost'
  BY <1>1, <1>2, BackendTakesOldest
<1>4. SessionTypeOK'
  BY <1>1, <1>2 DEF SessionTypeOK, sessionVars
<1>5. StoreIsQueue'
  BY <1>1 DEF StoreIsQueue, Durable
<1>6. BatchIsQueue'
  BY <1>1, <1>2 DEF BatchIsQueue
<1> QED
  BY <1>3, <1>4, <1>5, <1>6

(* publish() fails: the session is gone, and with it the right to publish  *)
(* the younger events of the batch.                                        *)
LEMMA PublishNotConfirmedKeeps ==
    ASSUME IInv, PublishNotConfirmed, UNCHANGED sessionVars
    PROVE  IInv'
<1> USE DEF IInv
<1>1. /\ phase = "flush" /\ batch # <<>>
      /\ batch' = IF StopAtFailure THEN <<>> ELSE Tail(batch)
      /\ UNCHANGED <<image, memory, store, phase, made, evicted, restarts>>
  BY DEF PublishNotConfirmed
<1>2. batch' \in Seq(Entry)
  <2>1. batch \in Seq(Entry)
    BY DEF SessionTypeOK
  <2> QED
    BY <1>1, <2>1
<1>3. StoreIsQueue'
  BY <1>1 DEF StoreIsQueue, Durable
<1>4. CASE PublishRefused /\ UNCHANGED <<seen, faults>>
  <2>1. ~IsConnected'
    BY <1>4 DEF PublishRefused, IsConnected, transportVars
  <2>2. BatchIsQueue'
    BY <1>1, <2>1 DEF BatchIsQueue
  <2>3. IdsInOrder'
    BY <1>1, <1>4 DEF IdsInOrder
  <2>4. CallsAnnounced'
    BY <1>1, <1>4 DEF CallsAnnounced, Announced, sessionVars
  <2>5. NothingLost'
    BY <1>1, <1>4 DEF NothingLost, Durable
  <2>6. SessionTypeOK'
    BY <1>1, <1>2, <1>4 DEF SessionTypeOK, sessionVars
  <2> QED
    BY <1>3, <2>2, <2>3, <2>4, <2>5, <2>6
<1>5. CASE PublishFails /\ NetworkFails /\ seen' \in {seen, Ingested(Head(batch))}
  <2>1. IsConnected /\ ~IsConnected'
    BY <1>5 DEF PublishFails, IsConnected
  <2>2. faults' \in Nat
    BY <1>5 DEF NetworkFails, SessionTypeOK
  <2>3. /\ memory # <<>> /\ batch = memory /\ Head(memory) \in Entries(memory)
        /\ Ingested(Head(batch)) \in Seq(Entry) /\ Ordered(Ingested(Head(batch)))
        /\ Entries(Ingested(Head(batch))) = Entries(seen) \cup {Head(memory)}
    BY <1>1, <2>1, PublishesOldest
  <2>4. /\ seen' \in Seq(Entry) /\ Ordered(seen')
        /\ Entries(seen') = Entries(seen) \/ Entries(seen') = Entries(seen) \cup {Head(memory)}
    BY <1>5, <2>3 DEF SessionTypeOK, IdsInOrder
  <2>5. IdsInOrder' /\ CallsAnnounced' /\ NothingLost'
    BY <1>1, <2>3, <2>4, BackendTakesOldest
  <2>6. BatchIsQueue'
    BY <1>1, <2>1 DEF BatchIsQueue
  <2>7. SessionTypeOK'
    BY <1>1, <1>2, <2>2, <2>4 DEF SessionTypeOK, sessionVars
  <2> QED
    BY <1>3, <2>5, <2>6, <2>7
<1> QED
  BY <1>4, <1>5 DEF PublishNotConfirmed

(* The published event leaves the queue; the backend has it.               *)
LEMMA DequeuePublishedKeeps ==
    ASSUME IInv, DequeuePublished, UNCHANGED sessionVars
    PROVE  IInv'
<1> USE DEF IInv
<1>1. /\ phase = "dequeue" /\ phase' = "flush"
      /\ memory' = Dequeued(memory, Head(batch).id)
      /\ store' = Saved(memory') /\ batch' = Tail(batch)
      /\ UNCHANGED <<image, made, seen, evicted, faults, restarts>>
  BY DEF DequeuePublished
<1>2. /\ memory \in Seq(Entry) /\ seen \in Seq(Entry) /\ Ordered(memory)
      /\ memory # <<>> /\ batch = memory /\ Head(memory) \in Entries(seen)
  BY <1>1 DEF SessionTypeOK, IdsInOrder, BatchIsQueue
<1>3. memory' = Tail(memory) /\ batch' = memory'
  BY <1>1, <1>2, DequeueOldest
<1>4. /\ Head(memory) \in Entries(memory) /\ memory' \in Seq(Entry)
      /\ Len(memory') = Len(memory) - 1 /\ Ordered(memory')
      /\ Entries(memory') = Entries(memory) \ {Head(memory)}
  BY <1>2, <1>3, HeadIsOldest
<1>5. SessionTypeOK'
  <2>1. Len(memory) \in Nat /\ OutboxCapacity \in Nat
    BY <1>2, DeliveryAssumption DEF DeliveryAssumption
  <2>2. Len(memory') <= OutboxCapacity
    BY <1>4, <2>1 DEF SessionTypeOK
  <2>3. store' \in Seq(Entry)
    BY <1>1, <1>4 DEF SessionTypeOK, Saved
  <2> QED
    BY <1>1, <1>3, <1>4, <2>2, <2>3 DEF SessionTypeOK, sessionVars
<1>6. StoreIsQueue'
  BY <1>1 DEF StoreIsQueue, Saved, Durable
<1>7. BatchIsQueue'
  BY <1>1, <1>3 DEF BatchIsQueue
<1>8. IdsInOrder'
  BY <1>1, <1>4 DEF IdsInOrder
<1>9. CallsAnnounced'
  <2>1. \A c : Announced(c, seen) => Announced(c, seen)'
    BY <1>1 DEF Announced
  <2>2. \A c : Announced(c, memory) => Announced(c, memory)' \/ Announced(c, seen)'
    BY <1>1, <1>2, <1>4 DEF Announced
  <2>3. \A x \in Entries(memory') : x.name = "RING_ENDED" =>
            x.call < x.id /\ (Announced(x.call, memory)' \/ Announced(x.call, seen)')
    BY <1>4, <2>1, <2>2 DEF CallsAnnounced
  <2>4. \A x \in Entries(seen') : x.name = "RING_ENDED" =>
            x.call < x.id /\ Announced(x.call, seen)'
    BY <1>1, <2>1 DEF CallsAnnounced
  <2>5. state' = "RINGING" =>
            /\ activeCall' \in 1..made'
            /\ Announced(activeCall, memory)' \/ Announced(activeCall, seen)'
    BY <1>1, <2>1, <2>2 DEF CallsAnnounced, sessionVars
  <2> QED
    BY <2>3, <2>4, <2>5 DEF CallsAnnounced
<1>10. NothingLost'
  <2> SUFFICES ASSUME Durable PROVE 1..made = Ids(seen) \cup Ids(memory') \cup evicted
    BY <1>1 DEF NothingLost, Durable, Saved
  <2>1. 1..made = Ids(seen) \cup Ids(memory) \cup evicted
    BY DEF NothingLost, StoreIsQueue
  <2>2. \A n : n \in Ids(seen) <=> \E x \in Entries(seen) : x.id = n
    BY <1>2, EntriesAndIds
  <2>3. \A n : n \in Ids(memory) <=> \E x \in Entries(memory) : x.id = n
    BY <1>2, EntriesAndIds
  <2>4. \A n : n \in Ids(memory') <=> \E x \in Entries(memory') : x.id = n
    BY <1>4, EntriesAndIds
  <2>5. Ids(seen) \cup Ids(memory') = Ids(seen) \cup Ids(memory)
    BY <1>2, <1>4, <2>2, <2>3, <2>4
  <2> QED
    BY <2>1, <2>5
<1> QED
  BY <1>5, <1>6, <1>7, <1>8, <1>9, <1>10

----------------------------------------------------------------------------
(* The other steps.                                                        *)

(* A restart brings back what was saved: all of a durable queue, none of a *)
(* volatile one; an open call session is forgotten.                        *)
LEMMA RestartSessionKeeps ==
    ASSUME IInv, RestartSession
    PROVE  IInv'
<1> USE DEF IInv
<1>1. /\ memory' = store /\ batch' = <<>> /\ phase' = "produce"
      /\ restarts' = restarts + 1 /\ state' = "IDLE" /\ activeCall' = 0
      /\ UNCHANGED <<image, store, made, seen, evicted, faults>>
  BY DEF RestartSession, Restart
<1>2. memory' = memory \/ memory' = <<>>
  BY <1>1 DEF StoreIsQueue
<1>3. Entries(<<>>) = {} /\ Ordered(<<>>) /\ Entries(memory') \subseteq Entries(memory)
  BY <1>2, EntriesAndIds DEF SessionTypeOK
<1>4. SessionTypeOK'
  <2>1. Len(memory') <= OutboxCapacity
    <3>1. Len(<<>>) <= OutboxCapacity
      BY DeliveryAssumption DEF DeliveryAssumption
    <3> QED
      BY <1>2, <3>1 DEF SessionTypeOK
  <2> QED
    BY <1>1, <2>1 DEF SessionTypeOK
<1>5. StoreIsQueue'
  BY <1>1 DEF StoreIsQueue, Durable
<1>6. BatchIsQueue'
  BY <1>1 DEF BatchIsQueue
<1>7. IdsInOrder'
  BY <1>1, <1>2, <1>3 DEF IdsInOrder
<1>8. CallsAnnounced'
  <2>1. CASE memory' = memory
    BY <1>1, <2>1 DEF CallsAnnounced, Announced
  <2>2. CASE memory' = <<>>
    BY <1>1, <1>3, <2>2 DEF CallsAnnounced, Announced
  <2> QED
    BY <1>2, <2>1, <2>2
<1>9. NothingLost'
  BY <1>1 DEF NothingLost, Durable
<1> QED
  BY <1>4, <1>5, <1>6, <1>7, <1>8, <1>9

(* The flush starts with a copy of the queue and ends with none of it left.*)
LEMMA FlushKeeps ==
    ASSUME IInv, StartFlush \/ EndFlush, UNCHANGED sessionVars
    PROVE  IInv'
<1> USE DEF IInv
<1>1. UNCHANGED <<image, memory, store, made, seen, evicted, faults, restarts>>
  BY DEF StartFlush, EndFlush
<1>2. SessionTypeOK'
  BY <1>1 DEF StartFlush, EndFlush, SessionTypeOK, sessionVars
<1>3. BatchIsQueue'
  BY DEF StartFlush, EndFlush, BatchIsQueue
<1>4. StoreIsQueue' /\ IdsInOrder' /\ NothingLost'
  BY <1>1 DEF StoreIsQueue, IdsInOrder, NothingLost, Durable
<1>5. CallsAnnounced'
  BY <1>1 DEF CallsAnnounced, Announced, sessionVars
<1> QED
  BY <1>2, <1>3, <1>4, <1>5

(* The network acts on the session alone, and it never revives one during  *)
(* a flush.                                                                *)
LEMMA NetworkKeeps ==
    ASSUME IInv, UNCHANGED <<image, deliveryVars, restarts, sessionVars>>, faults' \in Nat,
           phase = "flush" /\ IsConnected' => IsConnected
    PROVE  IInv'
<1> USE DEF IInv
<1>1. UNCHANGED <<image, memory, store, batch, phase, made, seen, evicted, restarts, state, activeCall>>
  BY DEF deliveryVars, sessionVars
<1>2. SessionTypeOK'
  BY <1>1 DEF SessionTypeOK
<1>3. BatchIsQueue'
  BY <1>1 DEF BatchIsQueue
<1>4. StoreIsQueue' /\ IdsInOrder' /\ NothingLost'
  BY <1>1 DEF StoreIsQueue, IdsInOrder, NothingLost, Durable
<1>5. CallsAnnounced'
  BY <1>1 DEF CallsAnnounced, Announced
<1> QED
  BY <1>2, <1>3, <1>4, <1>5

----------------------------------------------------------------------------
(* The theorems.                                                           *)

(* The invariant holds whatever the sources, the network and the power do. *)
THEOREM Invariance == Spec => []IInv
<1>1. SessionInit => IInv
  <2> SUFFICES ASSUME SessionInit PROVE IInv
    OBVIOUS
  <2>1. /\ image \in {"production", "dev"} /\ phase = "produce" /\ made = 0
        /\ memory = <<>> /\ store = <<>> /\ batch = <<>> /\ seen = <<>> /\ evicted = {}
        /\ faults = 0 /\ restarts = 0 /\ state = "IDLE" /\ activeCall = 0
    BY DEF SessionInit, Init
  <2>2. Entries(<<>>) = {} /\ Ordered(<<>>) /\ Ids(<<>>) = {} /\ 1..0 = {}
    BY DEF Entries, Ordered, Ids
  <2>3. SessionTypeOK
    BY <2>1, DeliveryAssumption DEF SessionTypeOK, DeliveryAssumption
  <2>4. StoreIsQueue /\ BatchIsQueue
    BY <2>1 DEF StoreIsQueue, BatchIsQueue
  <2>5. IdsInOrder /\ CallsAnnounced /\ NothingLost
    BY <2>1, <2>2 DEF IdsInOrder, CallsAnnounced, NothingLost
  <2> QED
    BY <2>3, <2>4, <2>5 DEF IInv
<1>2. IInv /\ [Next]_allVars => IInv'
  <2> SUFFICES ASSUME IInv, [Next]_allVars PROVE IInv'
    OBVIOUS
  <2>1. /\ made \in Nat /\ made + 1 \in Nat /\ faults \in Nat /\ faults + 1 \in Nat
        /\ activeCall \in Nat /\ state \in {"IDLE", "RINGING"}
        /\ state = "RINGING" => /\ activeCall \in 1..made
                                /\ Announced(activeCall, memory) \/ Announced(activeCall, seen)
    BY DEF IInv, SessionTypeOK, CallsAnnounced
  <2>2. CASE StartRinging
    <3>1. PICK call \in Nat : call = made + 1
      BY <2>1
    <3>2. /\ Produce("RING_DETECTED", call) /\ activeCall' = call /\ state' = "RINGING"
      BY <2>2, <3>1 DEF StartRinging
    <3>3. /\ "RING_DETECTED" \in EventName /\ "RING_DETECTED" # "RING_ENDED"
          /\ state' \in {"IDLE", "RINGING"} /\ activeCall' \in Nat
      BY <3>1, <3>2 DEF EventName
    <3> QED
      BY <3>1, <3>2, <3>3, ProduceKeeps
  <2>3. CASE EndRinging
    <3>1. /\ state = "RINGING" /\ Produce("RING_ENDED", activeCall)
          /\ state' = "IDLE" /\ activeCall' = 0
      BY <2>3 DEF EndRinging
    <3> QED
      BY <2>1, <3>1, ProduceKeeps DEF EventName
  <2>4. CASE Report /\ UNCHANGED sessionVars
    <3>1. Produce("OTHER", 0) /\ state' = state /\ activeCall' = activeCall
      BY <2>4 DEF Report, sessionVars
    <3> QED
      BY <2>1, <3>1, ProduceKeeps DEF EventName
  <2>5. CASE RestartSession
    BY <2>5, RestartSessionKeeps
  <2>6. CASE (StartFlush \/ EndFlush) /\ UNCHANGED sessionVars
    BY <2>6, FlushKeeps
  <2>7. CASE PublishConfirmed /\ UNCHANGED sessionVars
    BY <2>7, PublishConfirmedKeeps
  <2>8. CASE PublishNotConfirmed /\ UNCHANGED sessionVars
    BY <2>8, PublishNotConfirmedKeeps
  <2>9. CASE DequeuePublished /\ UNCHANGED sessionVars
    BY <2>9, DequeuePublishedKeeps
  <2>10. CASE (Reconnect \/ LinkLost \/ SessionDrops) /\ UNCHANGED sessionVars
    <3>1. UNCHANGED <<image, deliveryVars, restarts, sessionVars>>
      BY <2>10 DEF Reconnect, LinkLost, SessionDrops
    <3>2. faults' \in Nat
      BY <2>1, <2>10 DEF Reconnect, LinkLost, SessionDrops, NetworkFails
    <3>3. phase = "flush" /\ IsConnected' => IsConnected
      BY <2>10 DEF Reconnect, LinkLost, SessionDrops, ClientDrops, IsConnected
    <3> QED
      BY <3>1, <3>2, <3>3, NetworkKeeps
  <2>11. CASE UNCHANGED allVars
    <3>1. /\ UNCHANGED <<image, deliveryVars, restarts, sessionVars>> /\ faults' \in Nat
          /\ IsConnected' = IsConnected
      BY <2>1, <2>11 DEF allVars, vars, transportVars, IsConnected
    <3> QED
      BY <3>1, NetworkKeeps
  <2> QED
    BY <2>2, <2>3, <2>4, <2>5, <2>6, <2>7, <2>8, <2>9, <2>10, <2>11 DEF Next, Deliver
<1> QED
  BY <1>1, <1>2, PTL DEF Spec

(* Every variable keeps its type.                                          *)
THEOREM TypeCorrect == Spec => []TypeOK
<1>1. SessionInit => TransportTypeOK
  BY DEF SessionInit, Init, TransportInit, TransportTypeOK
<1>2. TransportTypeOK /\ [Next]_allVars => TransportTypeOK'
  <2> SUFFICES ASSUME TransportTypeOK, [Next]_allVars PROVE TransportTypeOK'
    OBVIOUS
  <2> USE DEF TransportTypeOK
  <2>1. CASE UNCHANGED transportVars
    BY <2>1 DEF transportVars
  <2>2. CASE Reconnect
    BY <2>2 DEF Reconnect, ConnectSucceeds, ConnectFails
  <2>3. CASE LinkLost
    BY <2>3 DEF LinkLost, Disconnect, PollFindsBroken
  <2>4. CASE SessionDrops
    BY <2>4 DEF SessionDrops, ClientDrops
  <2>5. CASE PublishFails
    BY <2>5 DEF PublishFails
  <2>6. CASE Disconnect
    BY <2>6 DEF Disconnect
  <2>7. StartRinging \/ EndRinging \/ Report \/ StartFlush \/ EndFlush \/ DequeuePublished
            => UNCHANGED transportVars
    BY DEF StartRinging, EndRinging, Report, Produce, StartFlush, EndFlush, DequeuePublished
  <2>8. PublishConfirmed => UNCHANGED transportVars
    BY DEF PublishConfirmed, PublishAcknowledged
  <2>9. PublishNotConfirmed => UNCHANGED transportVars \/ PublishFails
    BY DEF PublishNotConfirmed, PublishRefused
  <2>10. RestartSession => Disconnect
    BY DEF RestartSession, Restart
  <2>11. UNCHANGED allVars => UNCHANGED transportVars
    BY DEF allVars, vars
  <2> QED
    BY <2>1, <2>2, <2>3, <2>4, <2>5, <2>6, <2>7, <2>8, <2>9, <2>10, <2>11 DEF Next, Deliver
<1>3. IInv /\ TransportTypeOK => TypeOK
  BY DEF IInv, SessionTypeOK, TypeOK
<1> QED
  BY <1>1, <1>2, <1>3, Invariance, PTL DEF Spec

(* The backend ingests the events in the order of their creation.          *)
THEOREM InOrderAlways == Spec => []InOrder
<1>1. IInv => InOrder
  BY DEF IInv, IdsInOrder, Ordered, InOrder
<1> QED
  BY <1>1, Invariance, PTL

(* No event of the durable outbox vanishes without having been ingested,   *)
(* stored or pushed out by a full queue.                                   *)
THEOREM NothingLostEver == Spec => []NothingLost
<1>1. IInv => NothingLost
  BY DEF IInv
<1> QED
  BY <1>1, Invariance, PTL

(* The queue is ordered, and what a full outbox dropped is older than all  *)
(* of it.                                                                  *)
THEOREM BacklogAlwaysNewest == Spec => []BacklogIsNewest
<1>1. IInv => BacklogIsNewest
  <2> SUFFICES ASSUME IInv PROVE BacklogIsNewest
    OBVIOUS
  <2>1. \A i \in 1..Len(memory) : memory[i] \in Entries(memory)
    BY DEF Entries
  <2>2. Ordered(memory) /\ \A e \in Entries(memory), n \in evicted : n < e.id
    BY DEF IInv, IdsInOrder
  <2> QED
    BY <2>1, <2>2 DEF BacklogIsNewest, Ordered
<1> QED
  BY <1>1, Invariance, PTL

(* The backend never hears the end of a call before its ring.              *)
THEOREM EndedAfterDetectedAlways == Spec => []EndedAfterDetected
<1>1. IInv => EndedAfterDetected
  <2> SUFFICES ASSUME IInv, NEW i \in 1..Len(seen), seen[i].name = "RING_ENDED",
                      seen[i].call \notin evicted
               PROVE  \E j \in 1..(i - 1) : seen[j].name = "RING_DETECTED" /\ seen[j].call = seen[i].call
    BY DEF EndedAfterDetected
  <2>1. seen[i] \in Entries(seen) /\ seen \in Seq(Entry)
    BY DEF Entries, IInv, SessionTypeOK
  <2>2. seen[i].call < seen[i].id /\ Announced(seen[i].call, seen)
    BY <2>1 DEF IInv, CallsAnnounced
  <2>3. PICK e \in Entries(seen) : e.name = "RING_DETECTED" /\ e.call = seen[i].call /\ e.id = seen[i].call
    BY <2>2 DEF Announced
  <2>4. PICK j \in 1..Len(seen) : seen[j] = e
    BY DEF Entries
  <2>5. seen[j].id < seen[i].id
    BY <2>2, <2>3, <2>4
  <2>6. seen[j].id \in Nat /\ seen[i].id \in Nat /\ Len(seen) \in Nat
    BY <2>1, <2>4, EntriesAndIds
  <2>7. j < i
    <3>1. ~(i < j)
      BY <2>5, <2>6 DEF IInv, IdsInOrder, Ordered
    <3>2. i # j
      BY <2>5, <2>6
    <3> QED
      BY <2>6, <3>1, <3>2
  <2>8. j \in 1..(i - 1)
    BY <2>6, <2>7
  <2> QED
    BY <2>3, <2>4, <2>8
<1> QED
  BY <1>1, Invariance, PTL
=============================================================================
