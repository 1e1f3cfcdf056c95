----------------------- MODULE CommandPipeline_proofs -----------------------
(***************************************************************************)
(* Theorems about CommandPipeline for every set of commands, every         *)
(* capacity and every bound on the environment, with Durable or without.   *)
(***************************************************************************)
EXTENDS CommandPipeline, TLAPS, SequenceTheorems, FiniteSetTheorems

----------------------------------------------------------------------------
(* The dedup cache.                                                        *)

(* A known command has a verdict.                                          *)
LEMMA VerdictOfKnown ==
    ASSUME NEW rows \in Seq(Row), NEW c \in Cmd, Known(rows, c)
    PROVE  VerdictOf(rows, c) \in Verdict
<1> DEFINE i == CHOOSE j \in DOMAIN rows : rows[j].id = c
<1>1. i \in DOMAIN rows
  BY DEF Known
<1>2. rows[i] \in Row
  BY <1>1
<1> QED
  BY <1>2 DEF VerdictOf, Row

(* record() keeps a table a table.                                         *)
LEMMA RecordType ==
    ASSUME NEW rows \in Seq(Row), NEW c \in Cmd, NEW v \in Verdict
    PROVE  Record(rows, c, v) \in Seq(Row)
<1>1. CASE Known(rows, c)
  <2>1. \A i \in DOMAIN rows : rows[i] \in Row
    OBVIOUS
  <2>2. \A i \in DOMAIN rows : [rows[i] EXCEPT !.verdict = v] \in Row
    BY <2>1 DEF Row
  <2>3. Overwrite(rows, c, v) \in [1..Len(rows) -> Row]
    BY <2>1, <2>2 DEF Overwrite
  <2>4. Overwrite(rows, c, v) \in Seq(Row)
    BY <2>3
  <2> QED
    BY <1>1, <2>4 DEF Record
<1>2. CASE ~Known(rows, c)
  <2>1. [id |-> c, verdict |-> v] \in Row
    BY DEF Row
  <2>2. CASE Len(rows) >= CacheCapacity
    <3>1. rows # <<>> /\ Tail(rows) \in Seq(Row)
      BY <2>2, CommandAssumption DEF CommandAssumption
    <3> QED
      BY <1>2, <2>1, <2>2, <3>1 DEF Record
  <2>3. CASE ~(Len(rows) >= CacheCapacity)
    BY <1>2, <2>1, <2>3 DEF Record
  <2> QED
    BY <2>2, <2>3
<1> QED
  BY <1>1, <1>2

(* Recording a command for the first time makes it known, with exactly the *)
(* recorded verdict, and makes no other command known.                     *)
LEMMA RecordNew ==
    ASSUME NEW rows \in Seq(Row), NEW c \in Cmd, NEW v \in Verdict, ~Known(rows, c)
    PROVE  /\ Known(Record(rows, c, v), c)
           /\ VerdictOf(Record(rows, c, v), c) = v
           /\ \A d \in Cmd : Known(Record(rows, c, v), d) => d = c \/ Known(rows, d)
<1> DEFINE kept == IF Len(rows) >= CacheCapacity THEN Tail(rows) ELSE rows
           row  == [id |-> c, verdict |-> v]
           new  == Append(kept, row)
<1>1. Record(rows, c, v) = new
  BY DEF Record
<1>2. /\ kept \in Seq(Row)
      /\ \A i \in 1..Len(kept) : \E j \in 1..Len(rows) : kept[i] = rows[j]
  <2>1. CASE Len(rows) >= CacheCapacity
    <3>1. rows # <<>>
      BY <2>1, CommandAssumption DEF CommandAssumption
    <3>2. Tail(rows) \in Seq(Row) /\ Len(Tail(rows)) = Len(rows) - 1
          /\ \A i \in 1..Len(Tail(rows)) : Tail(rows)[i] = rows[i+1]
      BY <3>1
    <3>3. \A i \in 1..Len(Tail(rows)) : i+1 \in 1..Len(rows)
      BY <3>1, <3>2
    <3> QED
      BY <2>1, <3>2, <3>3
  <2>2. CASE ~(Len(rows) >= CacheCapacity)
    BY <2>2
  <2> QED
    BY <2>1, <2>2
<1>3. row \in Row
  BY DEF Row
<1>4. /\ Len(new) = Len(kept) + 1 /\ DOMAIN new = 1..(Len(kept) + 1)
      /\ new[Len(kept) + 1] = row
      /\ \A i \in 1..Len(kept) : new[i] = kept[i]
  BY <1>2, <1>3
<1> HIDE DEF kept, new, row
<1>5. \A i \in 1..Len(kept) : kept[i].id # c
  BY <1>2 DEF Known
<1>6. row.id = c /\ row.verdict = v
  BY DEF row
<1>7. Len(kept) \in Nat
  BY <1>2
<1>8. \A i \in DOMAIN new : new[i].id = c <=> i = Len(kept) + 1
  BY <1>4, <1>5, <1>6, <1>7
<1>9. Known(new, c)
  BY <1>4, <1>7, <1>8 DEF Known
<1>10. VerdictOf(new, c) = v
  BY <1>4, <1>6, <1>7, <1>8 DEF VerdictOf
<1>11. \A d \in Cmd : Known(new, d) => d = c \/ Known(rows, d)
  BY <1>2, <1>4, <1>6, <1>7 DEF Known
<1> QED
  BY <1>1, <1>9, <1>10, <1>11

(* handle() always comes to one of the known error codes.                  *)
LEMMA DecisionType ==
    ASSUME NEW c, NEW b1 \in BOOLEAN, NEW b2 \in BOOLEAN, NEW t
    PROVE  Decision(c, b1, b2, t) \in Verdict
BY DEF Decision, TimeSafety, Verdict

----------------------------------------------------------------------------
(* Type correctness.                                                       *)

(* What leaves the device for the broker is recorded as an answer.         *)
LEMMA HearType ==
    ASSUME NEW before \in [Cmd -> Seq(Answer)], NEW r \in Response
    PROVE  Hear(before, r) \in [Cmd -> Seq(Answer)]
<1>1. r.cmd \in Cmd /\ r.answer \in Answer
  BY DEF Response
<1>2. Append(before[r.cmd], r.answer) \in Seq(Answer)
  BY <1>1
<1> QED
  BY <1>1, <1>2 DEF Hear

(* A failure of the network is counted in Nat.                             *)
LEMMA NetworkFailsType ==
    ASSUME TypeOK, NetworkFails
    PROVE  faults' \in Nat
BY DEF NetworkFails, TypeOK

(* Neither outcome of publish() disturbs a type.                           *)
LEMMA PublishType ==
    ASSUME TypeOK, NEW before \in [Cmd -> Seq(Answer)], NEW r \in Response,
           Published(before, r) \/ NotPublished(before, r)
    PROVE  TransportTypeOK' /\ heard' \in [Cmd -> Seq(Answer)] /\ faults' \in Nat
<1>1. Hear(before, r) \in [Cmd -> Seq(Answer)]
  BY HearType
<1>2. TransportTypeOK /\ faults \in Nat
  BY DEF TypeOK
<1>3. CASE Published(before, r)
  BY <1>1, <1>2, <1>3 DEF Published, PublishAcknowledged, transportVars, TransportTypeOK
<1>4. CASE PublishRefused /\ heard' = before /\ UNCHANGED faults
  BY <1>1, <1>2, <1>4 DEF PublishRefused, transportVars, TransportTypeOK
<1>5. CASE PublishFails /\ NetworkFails /\ heard' \in {before, IF wifi THEN Hear(before, r) ELSE before}
  <2>1. faults' \in Nat
    BY <1>5, NetworkFailsType
  <2>2. heard' \in [Cmd -> Seq(Answer)]
    BY <1>1, <1>5
  <2>3. TransportTypeOK'
    BY <1>2, <1>5 DEF PublishFails, TransportTypeOK
  <2> QED
    BY <2>1, <2>2, <2>3
<1> QED
  BY <1>3, <1>4, <1>5 DEF NotPublished

(* What processPayload() returns.                                          *)
LEMMA ResultType ==
    ASSUME NEW p \in BOOLEAN, NEW a \in BOOLEAN, NEW t \in BOOLEAN
    PROVE  [parsed |-> p, accepted |-> a, terminal |-> t] \in Result
BY DEF Result

(* enqueue() keeps the outbox a sequence of responses.                     *)
LEMMA EnqueueType ==
    ASSUME NEW q \in Seq(Response), NEW r \in Response
    PROVE  Enqueue(q, r) \in Seq(Response)
BY DEF Enqueue

(* One terminal answer, published or queued.                               *)
LEMMA AnswerTerminalType ==
    ASSUME TypeOK, NEW before \in [Cmd -> Seq(Answer)], NEW r \in Response,
           AnswerTerminal(before, r)
    PROVE  /\ TransportTypeOK' /\ heard' \in [Cmd -> Seq(Answer)] /\ faults' \in Nat
           /\ outbox' \in Seq(Response) /\ lastResult' \in Result
<1>1. Published(before, r) \/ NotPublished(before, r)
  BY DEF AnswerTerminal
<1>2. outbox \in Seq(Response) /\ Enqueue(outbox, r) \in Seq(Response)
  BY EnqueueType DEF TypeOK
<1>3. outbox' \in Seq(Response)
  BY <1>2 DEF AnswerTerminal
<1>4. lastResult' \in Result
  BY ResultType DEF AnswerTerminal
<1> QED
  BY <1>1, <1>3, <1>4, PublishType

(* ACCEPTED, published or queued, with the terminal answer behind it.      *)
LEMMA AnswerAcceptedType ==
    ASSUME TypeOK, NEW before \in [Cmd -> Seq(Answer)], NEW r \in Response,
           AnswerAccepted(before, r)
    PROVE  /\ TransportTypeOK' /\ heard' \in [Cmd -> Seq(Answer)] /\ faults' \in Nat
           /\ outbox' \in Seq(Response) /\ lastResult' \in Result
<1> DEFINE accepted == [cmd |-> r.cmd, answer |-> "ACCEPTED"]
<1>1. accepted \in Response
  BY DEF Response, Answer
<1>2. Published(before, accepted) \/ NotPublished(before, accepted)
  BY DEF AnswerAccepted
<1>3. /\ Enqueue(outbox, r) \in Seq(Response)
      /\ Enqueue(Enqueue(outbox, accepted), r) \in Seq(Response)
  BY <1>1, EnqueueType DEF TypeOK
<1>4. outbox' \in Seq(Response)
  BY <1>3 DEF AnswerAccepted
<1>5. lastResult' \in Result
  BY ResultType DEF AnswerAccepted
<1> HIDE DEF accepted
<1> QED
  BY <1>1, <1>2, <1>4, <1>5, PublishType

(* TypeOK is inductive.                                                    *)
LEMMA TypeStep == TypeOK /\ [Next]_vars => TypeOK'
<1> SUFFICES ASSUME TypeOK, [Next]_vars PROVE TypeOK'
  OBVIOUS
<1>0. /\ phase \in {"link", "poll", "process", "subscribe", "publish"}
      /\ pending \in Seq(Payload) /\ outbox \in Seq(Response)
      /\ cache \in Seq(Row) /\ store \in Seq(Row)
      /\ heard \in [Cmd -> Seq(Answer)] /\ since \in [Cmd -> SUBSET Cmd]
      /\ TransportTypeOK /\ wifi \in BOOLEAN /\ subscribed \in BOOLEAN
      /\ lastResult \in Result
      /\ now \in Nat /\ sends \in Nat /\ faults \in Nat /\ restarts \in Nat
  BY DEF TypeOK
<1>1. CASE UNCHANGED vars
  BY <1>0, <1>1 DEF TypeOK, TransportTypeOK, vars, transportVars, deviceVars, envVars
<1>2. CASE LinkLost
  BY <1>0, <1>2 DEF LinkLost, Disconnect, TypeOK, TransportTypeOK, envVars
<1>3. CASE LinkUp
  BY <1>0, <1>3 DEF LinkUp, TypeOK, TransportTypeOK, transportVars, envVars
<1>4. CASE Connect
  <2>1. faults' \in Nat
    BY <1>0, <1>4, NetworkFailsType DEF Connect
  <2>2. TransportTypeOK' /\ phase' \in {"link", "poll"} /\ subscribed' \in BOOLEAN
    BY <1>0, <1>4 DEF Connect, ConnectSucceeds, ConnectFails, TransportTypeOK
  <2> QED
    BY <1>0, <1>4, <2>1, <2>2 DEF Connect, TypeOK, envVars
<1>5. CASE PollReturns
  <2>1. faults' \in Nat
    BY <1>0, <1>5, NetworkFailsType DEF PollReturns
  <2>2. TransportTypeOK'
    BY <1>0, <1>5 DEF PollReturns, PollFindsBroken, TransportTypeOK, transportVars
  <2> QED
    BY <1>0, <1>5, <2>1, <2>2 DEF PollReturns, TypeOK, envVars
<1>6. CASE DrainOutbox
  <2>1. Head(outbox) \in Response /\ Tail(outbox) \in Seq(Response)
    BY <1>0, <1>6 DEF DrainOutbox
  <2>2. Published(heard, Head(outbox)) \/ NotPublished(heard, Head(outbox))
    BY <1>6 DEF DrainOutbox
  <2>3. TransportTypeOK' /\ heard' \in [Cmd -> Seq(Answer)] /\ faults' \in Nat
    BY <1>0, <2>1, <2>2, PublishType
  <2>4. outbox' \in Seq(Response) /\ lastResult' \in Result
    BY <1>0, <1>6, <2>1 DEF DrainOutbox, Result
  <2> QED
    BY <1>0, <1>6, <2>3, <2>4 DEF DrainOutbox, TypeOK, envVars
<1>7. CASE NothingPending
  BY <1>0, <1>7 DEF NothingPending, TypeOK, TransportTypeOK, transportVars, envVars
<1>8. ASSUME StartNext
      PROVE  /\ pending' \in Seq(Payload) /\ phase' = "subscribe"
             /\ UNCHANGED <<subscribed, wifi, now, sends, restarts>>
  BY <1>0, <1>8 DEF StartNext, envVars
<1>9. CASE RejectGarbage
  <2>1. StartNext
    BY <1>9 DEF RejectGarbage
  <2> QED
    BY <1>0, <1>8, <1>9, <2>1
    DEF RejectGarbage, NoResult, Result, TypeOK, TransportTypeOK, transportVars
<1>10. ASSUME NEW c \in Cmd, Replay(c) PROVE TypeOK'
  <2>1. StartNext /\ Known(cache, c) /\ UNCHANGED <<cache, store, since>>
    BY <1>10 DEF Replay
  <2>2. [cmd |-> c, answer |-> VerdictOf(cache, c)] \in Response
    BY <1>0, <2>1, VerdictOfKnown DEF Response, Answer
  <2>3. /\ TransportTypeOK' /\ heard' \in [Cmd -> Seq(Answer)] /\ faults' \in Nat
        /\ outbox' \in Seq(Response) /\ lastResult' \in Result
    BY <1>0, <1>10, <2>2, AnswerTerminalType DEF Replay
  <2> QED
    BY <1>0, <1>8, <2>1, <2>3 DEF TypeOK
<1>11. ASSUME NEW c \in Cmd, Decide(c) PROVE TypeOK'
  <2>1. StartNext
    BY <1>11 DEF Decide
  <2>2. PICK b1, b2, t :
          /\ b1 \in BOOLEAN /\ b2 \in BOOLEAN /\ t \in ClockSamples(b1, b2)
          /\ LET v == Decision(c, b1, b2, t)
                 r == [cmd |-> c, answer |-> v]
                 untold == [heard EXCEPT ![c] = <<>>]
             IN  /\ cache' = Record(cache, c, v)
                 /\ store' = IF Durable THEN cache' ELSE store
                 /\ \/ HasAccepted(v) /\ AnswerAccepted(untold, r)
                    \/ ~HasAccepted(v) /\ AnswerTerminal(untold, r)
    BY <1>11 DEF Decide
  <2> DEFINE v == Decision(c, b1, b2, t)
             r == [cmd |-> c, answer |-> v]
             untold == [heard EXCEPT ![c] = <<>>]
  <2>3. v \in Verdict
    BY <2>2, DecisionType
  <2>4. r \in Response
    BY <2>3 DEF Response, Answer
  <2>5. cache' \in Seq(Row) /\ store' \in Seq(Row)
    BY <1>0, <2>2, <2>3, RecordType
  <2>6. AnswerAccepted(untold, r) \/ AnswerTerminal(untold, r)
    BY <2>2
  <2>7. untold \in [Cmd -> Seq(Answer)]
    BY <1>0
  <2> HIDE DEF r, untold
  <2>8. /\ TransportTypeOK' /\ heard' \in [Cmd -> Seq(Answer)] /\ faults' \in Nat
        /\ outbox' \in Seq(Response) /\ lastResult' \in Result
    BY <2>4, <2>6, <2>7, AnswerTerminalType, AnswerAcceptedType
  <2>9. since' \in [Cmd -> SUBSET Cmd]
    BY <1>0, <1>11 DEF Decide
  <2> QED
    BY <1>0, <1>8, <2>1, <2>5, <2>8, <2>9 DEF TypeOK
<1>12. CASE AlreadySubscribed
  BY <1>0, <1>12 DEF AlreadySubscribed, TypeOK, TransportTypeOK, transportVars, envVars
<1>13. CASE Subscribe
  <2>1. faults' \in Nat
    BY <1>0, <1>13, NetworkFailsType DEF Subscribe
  <2>2. TransportTypeOK' /\ subscribed' \in BOOLEAN
    BY <1>0, <1>13
    DEF Subscribe, SubscribeSucceeds, SubscribeRefused, SubscribeFails, TransportTypeOK
  <2> QED
    BY <1>0, <1>13, <2>1, <2>2 DEF Subscribe, TypeOK, envVars
<1>14. CASE PublishOthers
  <2>1. faults' \in Nat
    BY <1>0, <1>14, NetworkFailsType DEF PublishOthers
  <2>2. TransportTypeOK'
    BY <1>0, <1>14 DEF PublishOthers, PublishFails, TransportTypeOK, transportVars
  <2> QED
    BY <1>0, <1>14, <2>1, <2>2 DEF PublishOthers, TypeOK, envVars
<1>15. ASSUME NEW p \in Payload, Receive(p) PROVE TypeOK'
  <2> DEFINE q == IF Len(pending) >= MaxPendingCommands THEN pending ELSE Append(pending, p)
  <2>1. q \in Seq(Payload)
    BY <1>0
  <2>2. pending' = pending \/ pending' = q
    BY <1>15 DEF Receive
  <2> HIDE DEF q
  <2>3. pending' \in Seq(Payload)
    BY <1>0, <2>1, <2>2
  <2>4. lastResult' = NoResult \/ lastResult' = lastResult
    BY <1>15 DEF Receive
  <2>5. lastResult' \in Result
    BY <1>0, <2>4, ResultType DEF NoResult
  <2>6. TransportTypeOK' /\ sends' \in Nat
    BY <1>0, <1>15 DEF Receive, TransportTypeOK, transportVars
  <2> QED
    BY <1>0, <1>15, <2>3, <2>5, <2>6 DEF Receive, TypeOK
<1>16. CASE WifiDown
  BY <1>0, <1>16, NetworkFailsType DEF WifiDown, TypeOK, TransportTypeOK, transportVars, deviceVars
<1>17. CASE WifiUp
  BY <1>0, <1>17 DEF WifiUp, TypeOK, TransportTypeOK, transportVars, deviceVars
<1>18. CASE SessionDrops
  BY <1>0, <1>18, NetworkFailsType
  DEF SessionDrops, ClientDrops, TypeOK, TransportTypeOK, deviceVars, envVars
<1>19. CASE Tick
  BY <1>0, <1>19 DEF Tick, TypeOK, TransportTypeOK, transportVars, deviceVars
<1>20. CASE Restart
  <2>1. pending' \in Seq(Payload) /\ outbox' \in Seq(Response)
    BY <1>20 DEF Restart
  <2>2. TransportTypeOK' /\ lastResult' \in Result
    BY <1>20 DEF Restart, NoResult, Result, TransportTypeOK
  <2>3. wifi' \in BOOLEAN /\ heard' \in [Cmd -> Seq(Answer)] /\ since' \in [Cmd -> SUBSET Cmd]
        /\ cache' \in Seq(Row) /\ store' \in Seq(Row)
    BY <1>0, <1>20 DEF Restart
  <2>4. {now, sends, faults, restarts}' \subseteq Nat
    BY <1>0, <1>20 DEF Restart
  <2> QED
    BY <1>20, <2>1, <2>2, <2>3, <2>4 DEF Restart, TypeOK
<1> QED
  BY <1>1, <1>2, <1>3, <1>4, <1>5, <1>6, <1>7, <1>9, <1>10, <1>11, <1>12, <1>13,
     <1>14, <1>15, <1>16, <1>17, <1>18, <1>19, <1>20 DEF Next, LoopStep

(* Every variable of the pipeline keeps its type: in particular the dedup  *)
(* table never records anything but a terminal verdict.                    *)
THEOREM TypeCorrect == Spec => []TypeOK
<1>1. Init => TypeOK
  <2> SUFFICES ASSUME Init PROVE TypeOK
    OBVIOUS
  <2>1. TransportTypeOK /\ lastResult \in Result
    BY DEF Init, TransportInit, TransportTypeOK, NoResult, Result
  <2>2. /\ pending \in Seq(Payload) /\ outbox \in Seq(Response)
        /\ cache \in Seq(Row) /\ store \in Seq(Row)
    BY DEF Init
  <2>3. heard \in [Cmd -> Seq(Answer)]
    <3>1. <<>> \in Seq(Answer)
      OBVIOUS
    <3> QED
      BY <3>1 DEF Init
  <2>4. {now, sends, faults, restarts} \subseteq Nat /\ since \in [Cmd -> SUBSET Cmd]
    BY DEF Init
  <2> QED
    BY <2>1, <2>2, <2>3, <2>4 DEF Init, TypeOK
<1> QED
  BY <1>1, TypeStep, PTL DEF Spec

----------------------------------------------------------------------------
(* The response outbox.                                                    *)

StoryOK == OutboxIsOneStory /\ LastResultConverges

(* A sequence of one, and a second element.                                *)
LEMMA AppendToOne ==
    ASSUME NEW S, NEW a \in S, NEW b \in S
    PROVE  Append(<<a>>, b) = <<a, b>>
<1>1. Len(<<a>>) = 1 /\ <<a>> \in Seq(S) /\ <<a, b>> \in Seq(S)
  OBVIOUS
<1>2. /\ Append(<<a>>, b) \in Seq(S)
      /\ Len(Append(<<a>>, b)) = 2
      /\ Append(<<a>>, b)[1] = a /\ Append(<<a>>, b)[2] = b
  BY <1>1, AppendProperties
<1>3. Len(<<a, b>>) = 2 /\ <<a, b>>[1] = a /\ <<a, b>>[2] = b
  OBVIOUS
<1>4. \A i \in 1..2 : Append(<<a>>, b)[i] = <<a, b>>[i]
  BY <1>2, <1>3
<1> QED
  BY <1>1, <1>2, <1>3, <1>4, SeqEqual

(* An empty outbox has room for the two responses of one command.          *)
LEMMA EnqueueRoom ==
    ASSUME NEW a \in Response, NEW r \in Response
    PROVE  Enqueue(<<>>, r) = <<r>> /\ Enqueue(Enqueue(<<>>, a), r) = <<a, r>>
<1>1. Enqueue(<<>>, r) = <<r>> /\ Enqueue(<<>>, a) = <<a>>
  BY PipelineAssumption DEF PipelineAssumption, Enqueue
<1>2. Enqueue(<<a>>, r) = <<a, r>>
  <2>1. Len(<<a>>) = 1
    OBVIOUS
  <2>2. Append(<<a>>, r) = <<a, r>>
    BY AppendToOne
  <2> QED
    BY <2>1, <2>2, PipelineAssumption DEF PipelineAssumption, Enqueue
<1> QED
  BY <1>1, <1>2

(* A step that touches neither the outbox nor the cache nor lastResult.    *)
LEMMA StoryUnchanged ==
    ASSUME StoryOK, UNCHANGED <<outbox, cache, lastResult>>
    PROVE  StoryOK'
BY DEF StoryOK, OutboxIsOneStory, LastResultConverges, Known, VerdictOf

(* A terminal answer that agrees with the cache starts, or ends, a story.  *)
LEMMA StoryTerminal ==
    ASSUME NEW c \in Cmd, NEW v \in Verdict, outbox = <<>>, NEW before,
           Known(cache', c), VerdictOf(cache', c) = v,
           AnswerTerminal(before, [cmd |-> c, answer |-> v])
    PROVE  StoryOK'
<1> DEFINE r == [cmd |-> c, answer |-> v]
<1>1. r \in Response
  BY DEF Response, Answer
<1>2. Enqueue(outbox, r) = <<r>>
  BY <1>1, EnqueueRoom
<1>3. \/ outbox' = <<>> /\ lastResult'.terminal
      \/ outbox' = <<r>>
  BY <1>2 DEF AnswerTerminal
<1>4. <<r>> # <<>>
  OBVIOUS
<1>5. OutboxIsOneStory'
  BY <1>3 DEF OutboxIsOneStory
<1>6. LastResultConverges'
  <2> HIDE DEF r
  <2> QED
    BY <1>3, <1>4 DEF LastResultConverges
<1> QED
  BY <1>5, <1>6 DEF StoryOK

(* A story that begins with ACCEPTED leaves its end in the outbox.         *)
LEMMA StoryAccepted ==
    ASSUME NEW c \in Cmd, NEW v \in Verdict, outbox = <<>>, NEW before,
           Known(cache', c), VerdictOf(cache', c) = v, HasAccepted(v),
           AnswerAccepted(before, [cmd |-> c, answer |-> v])
    PROVE  StoryOK'
<1> DEFINE r == [cmd |-> c, answer |-> v]
           a == [cmd |-> c, answer |-> "ACCEPTED"]
<1>1. r \in Response /\ a \in Response
  BY DEF Response, Answer
<1>2. Enqueue(outbox, r) = <<r>> /\ Enqueue(Enqueue(outbox, a), r) = <<a, r>>
  BY <1>1, EnqueueRoom
<1>3. outbox' = <<r>> \/ outbox' = <<a, r>>
  BY <1>2 DEF AnswerAccepted
<1>4. <<r>> # <<>> /\ <<a, r>> # <<>>
  OBVIOUS
<1>5. OutboxIsOneStory'
  BY <1>3 DEF OutboxIsOneStory
<1>6. LastResultConverges'
  <2> HIDE DEF r, a
  <2> QED
    BY <1>3, <1>4 DEF LastResultConverges
<1> QED
  BY <1>5, <1>6 DEF StoryOK

(* Publishing the front of the outbox leaves the rest of the story.        *)
LEMMA StoryDrain ==
    ASSUME TypeOK, StoryOK, DrainOutbox
    PROVE  StoryOK'
<1>1. cache' = cache /\ outbox # <<>>
  BY DEF DrainOutbox
<1>2. PICK c \in Cmd :
        /\ Known(cache, c)
        /\ \/ outbox = <<[cmd |-> c, answer |-> VerdictOf(cache, c)]>>
           \/ /\ HasAccepted(VerdictOf(cache, c))
              /\ outbox = <<[cmd |-> c, answer |-> "ACCEPTED"],
                            [cmd |-> c, answer |-> VerdictOf(cache, c)]>>
  BY <1>1 DEF StoryOK, OutboxIsOneStory
<1> DEFINE r == [cmd |-> c, answer |-> VerdictOf(cache, c)]
           a == [cmd |-> c, answer |-> "ACCEPTED"]
<1>3. CASE UNCHANGED <<outbox, lastResult>>
  BY <1>1, <1>3, StoryUnchanged
<1>4. CASE outbox' = Tail(outbox) /\ outbox = <<r>>
  <2>1. IsTerminal(Head(outbox)) /\ outbox' = <<>>
    <3>1. VerdictOf(cache, c) \in Verdict
      BY <1>2, VerdictOfKnown DEF TypeOK
    <3>2. r.answer # "ACCEPTED"
      BY <3>1 DEF Verdict
    <3> HIDE DEF r
    <3> QED
      BY <1>4, <3>2 DEF IsTerminal
  <2>2. Tail(outbox) # outbox
    BY <1>4, <2>1
  <2>3. lastResult' = [lastResult EXCEPT !.terminal = TRUE]
    BY <1>4, <2>1, <2>2 DEF DrainOutbox
  <2>4. lastResult'.terminal
    BY <2>3 DEF TypeOK, Result
  <2> QED
    BY <2>1, <2>4 DEF StoryOK, OutboxIsOneStory, LastResultConverges
<1>5. CASE outbox' = Tail(outbox) /\ outbox = <<a, r>>
  <2>1. outbox' = <<r>> /\ <<r>> # <<>>
    BY <1>5
  <2>2. OutboxIsOneStory'
    BY <1>1, <1>2, <2>1 DEF OutboxIsOneStory, Known, VerdictOf
  <2>3. LastResultConverges'
    BY <2>1 DEF LastResultConverges
  <2> QED
    BY <2>2, <2>3 DEF StoryOK
<1>6. outbox' = Tail(outbox) \/ UNCHANGED <<outbox, lastResult>>
  BY DEF DrainOutbox
<1> QED
  BY <1>2, <1>3, <1>4, <1>5, <1>6

(* A decision starts the story of one command.                             *)
LEMMA StoryDecide ==
    ASSUME TypeOK, NEW c \in Cmd, Decide(c)
    PROVE  StoryOK'
<1>1. outbox = <<>> /\ ~Known(cache, c) /\ cache \in Seq(Row)
  BY DEF Decide, StartNext, TypeOK
<1>2. PICK b1, b2, t :
        /\ b1 \in BOOLEAN /\ b2 \in BOOLEAN /\ t \in ClockSamples(b1, b2)
        /\ LET v == Decision(c, b1, b2, t)
               r == [cmd |-> c, answer |-> v]
               untold == [heard EXCEPT ![c] = <<>>]
           IN  /\ cache' = Record(cache, c, v)
               /\ \/ HasAccepted(v) /\ AnswerAccepted(untold, r)
                  \/ ~HasAccepted(v) /\ AnswerTerminal(untold, r)
  BY DEF Decide
<1> DEFINE v == Decision(c, b1, b2, t)
           untold == [heard EXCEPT ![c] = <<>>]
<1>3. v \in Verdict
  BY <1>2, DecisionType
<1>4. \/ HasAccepted(v) /\ AnswerAccepted(untold, [cmd |-> c, answer |-> v])
      \/ AnswerTerminal(untold, [cmd |-> c, answer |-> v])
  BY <1>2
<1>5. cache' = Record(cache, c, v)
  BY <1>2
<1> HIDE DEF v, untold
<1>6. Known(cache', c) /\ VerdictOf(cache', c) = v
  BY <1>1, <1>3, <1>5, RecordNew
<1> QED
  BY <1>1, <1>3, <1>4, <1>6, StoryTerminal, StoryAccepted

(* StoryOK is inductive relative to TypeOK.                                *)
LEMMA StoryStep == TypeOK /\ StoryOK /\ [Next]_vars => StoryOK'
<1> SUFFICES ASSUME TypeOK, StoryOK, [Next]_vars PROVE StoryOK'
  OBVIOUS
<1>1. CASE UNCHANGED vars
  BY <1>1, StoryUnchanged DEF vars, deviceVars
<1>2. CASE LinkLost \/ LinkUp \/ Connect \/ PollReturns \/ NothingPending
           \/ AlreadySubscribed \/ Subscribe \/ PublishOthers
  BY <1>2, StoryUnchanged
  DEF LinkLost, LinkUp, Connect, PollReturns, NothingPending, AlreadySubscribed,
      Subscribe, PublishOthers
<1>3. CASE WifiDown \/ WifiUp \/ SessionDrops \/ Tick
  BY <1>3, StoryUnchanged DEF WifiDown, WifiUp, SessionDrops, Tick, deviceVars
<1>4. CASE DrainOutbox
  BY <1>4, StoryDrain
<1>5. CASE RejectGarbage
  BY <1>5 DEF RejectGarbage, StartNext, NoResult, StoryOK, OutboxIsOneStory, LastResultConverges
<1>6. ASSUME NEW c \in Cmd, Replay(c) PROVE StoryOK'
  <2>1. outbox = <<>> /\ Known(cache, c) /\ cache' = cache /\ cache \in Seq(Row)
    BY <1>6 DEF Replay, StartNext, TypeOK
  <2>2. VerdictOf(cache, c) \in Verdict
    BY <2>1, VerdictOfKnown
  <2>3. AnswerTerminal(heard, [cmd |-> c, answer |-> VerdictOf(cache, c)])
    BY <1>6 DEF Replay
  <2>4. Known(cache', c) /\ VerdictOf(cache', c) = VerdictOf(cache, c)
    BY <2>1
  <2> QED
    BY <2>1, <2>2, <2>3, <2>4, StoryTerminal
<1>7. ASSUME NEW c \in Cmd, Decide(c) PROVE StoryOK'
  BY <1>7, StoryDecide
<1>8. ASSUME NEW p \in Payload, Receive(p) PROVE StoryOK'
  <2>1. UNCHANGED <<outbox, cache>> /\ (lastResult' = NoResult \/ lastResult' = lastResult)
    BY <1>8 DEF Receive
  <2>2. CASE lastResult' = lastResult
    BY <2>1, <2>2, StoryUnchanged
  <2>3. CASE lastResult' = NoResult
    BY <2>1, <2>3
    DEF NoResult, StoryOK, OutboxIsOneStory, LastResultConverges, Known, VerdictOf
  <2> QED
    BY <2>1, <2>2, <2>3
<1>9. CASE Restart
  BY <1>9 DEF Restart, NoResult, StoryOK, OutboxIsOneStory, LastResultConverges
<1> QED
  BY <1>1, <1>2, <1>3, <1>4, <1>5, <1>6, <1>7, <1>8, <1>9 DEF Next, LoopStep

(* The outbox never holds responses of two commands, never out of order,   *)
(* and never one that disagrees with what the device remembers.            *)
THEOREM OutboxCorrect == Spec => []OutboxIsOneStory
<1>1. Init => StoryOK
  BY DEF Init, NoResult, StoryOK, OutboxIsOneStory, LastResultConverges
<1>2. StoryOK => OutboxIsOneStory
  BY DEF StoryOK
<1> QED
  BY <1>1, <1>2, StoryStep, TypeCorrect, PTL DEF Spec

(* Whenever nothing is left to send, lastResult() has converged.           *)
THEOREM LastResultCorrect == Spec => []LastResultConverges
<1>1. Init => StoryOK
  BY DEF Init, NoResult, StoryOK, OutboxIsOneStory, LastResultConverges
<1>2. StoryOK => LastResultConverges
  BY DEF StoryOK
<1> QED
  BY <1>1, <1>2, StoryStep, TypeCorrect, PTL DEF Spec

----------------------------------------------------------------------------
(* The subscription.                                                       *)

(* While main.cpp takes the device for subscribed on a live session, it is *)
(* subscribed: no failure or reconnection leaves it silently deaf.         *)
THEOREM NeverDeafAlways == Spec => []NeverDeaf
<1>1. Init => NeverDeaf
  BY DEF Init, NeverDeaf
<1>2. NeverDeaf /\ [Next]_vars => NeverDeaf'
  <2> SUFFICES ASSUME NeverDeaf, [Next]_vars PROVE NeverDeaf'
    OBVIOUS
  <2> USE DEF NeverDeaf, IsConnected
  <2>1. CASE UNCHANGED <<transportVars, subscribed>>
    BY <2>1 DEF transportVars
  <2>2. CASE LinkLost
    BY <2>2 DEF LinkLost
  <2>3. CASE Connect
    BY <2>3 DEF Connect, ConnectSucceeds, ConnectFails
  <2>4. CASE PollReturns
    BY <2>4 DEF PollReturns, PollFindsBroken, transportVars
  <2>5. CASE Subscribe
    BY <2>5 DEF Subscribe, SubscribeSucceeds, SubscribeRefused, SubscribeFails
  <2>6. ASSUME NEW before, NEW r, Published(before, r) \/ NotPublished(before, r),
               UNCHANGED subscribed
        PROVE  NeverDeaf'
    BY <2>6 DEF Published, NotPublished, PublishAcknowledged, PublishRefused, PublishFails,
                transportVars
  <2>7. CASE DrainOutbox
    BY <2>6, <2>7 DEF DrainOutbox
  <2>8. ASSUME NEW c \in Cmd, Replay(c) PROVE NeverDeaf'
    BY <2>6, <2>8 DEF Replay, StartNext, AnswerTerminal
  <2>9. ASSUME NEW c \in Cmd, Decide(c) PROVE NeverDeaf'
    BY <2>6, <2>9 DEF Decide, StartNext, AnswerTerminal, AnswerAccepted
  <2>10. CASE PublishOthers
    BY <2>10 DEF PublishOthers, PublishFails, transportVars
  <2>11. CASE SessionDrops
    BY <2>11 DEF SessionDrops, ClientDrops, deviceVars
  <2>12. CASE Restart
    BY <2>12 DEF Restart
  <2>13. CASE LinkUp \/ NothingPending \/ RejectGarbage \/ AlreadySubscribed
              \/ WifiDown \/ WifiUp \/ Tick \/ UNCHANGED vars
    BY <2>1, <2>13
    DEF LinkUp, NothingPending, RejectGarbage, StartNext, AlreadySubscribed, WifiDown, WifiUp,
        Tick, vars, deviceVars
  <2>14. ASSUME NEW p \in Payload, Receive(p) PROVE NeverDeaf'
    BY <2>1, <2>14 DEF Receive
  <2> QED
    BY <2>2, <2>3, <2>4, <2>5, <2>7, <2>8, <2>9, <2>10, <2>11, <2>12, <2>13, <2>14
    DEF Next, LoopStep
<1> QED
  BY <1>1, <1>2, PTL DEF Spec

----------------------------------------------------------------------------
(* Time safety.                                                            *)

(* The store holds what the cache holds, or nothing when there is no       *)
(* persistent cache: a restart never brings a decision back that the       *)
(* device had not in RAM.                                                  *)
StoreMirrors == store = IF Durable THEN cache ELSE <<>>

LEMMA MirrorStep == StoreMirrors /\ [Next]_vars => StoreMirrors'
<1> SUFFICES ASSUME StoreMirrors, [Next]_vars PROVE StoreMirrors'
  OBVIOUS
<1>1. CASE UNCHANGED <<cache, store>>
  BY <1>1 DEF StoreMirrors
<1>2. ASSUME NEW c \in Cmd, Decide(c) PROVE StoreMirrors'
  BY <1>2 DEF Decide, StoreMirrors
<1>3. CASE Restart
  BY <1>3 DEF Restart, StoreMirrors
<1>4. ASSUME NEW c \in Cmd, Replay(c) PROVE StoreMirrors'
  BY <1>1, <1>4 DEF Replay
<1>5. ASSUME NEW p \in Payload, Receive(p) PROVE StoreMirrors'
  BY <1>1, <1>5 DEF Receive
<1>6. CASE UNCHANGED vars \/ WifiDown \/ WifiUp \/ SessionDrops \/ Tick
  BY <1>1, <1>6 DEF vars, deviceVars, WifiDown, WifiUp, SessionDrops, Tick
<1>7. CASE LinkLost \/ LinkUp \/ Connect \/ PollReturns \/ DrainOutbox \/ NothingPending
           \/ RejectGarbage \/ AlreadySubscribed \/ Subscribe \/ PublishOthers
  BY <1>1, <1>7
  DEF LinkLost, LinkUp, Connect, PollReturns, DrainOutbox, NothingPending, RejectGarbage,
      AlreadySubscribed, Subscribe, PublishOthers
<1> QED
  BY <1>2, <1>3, <1>4, <1>5, <1>6, <1>7 DEF Next, LoopStep

AcceptsOnlyFresh ==
    \A c \in Cmd :
        /\ ~Known(cache, c)
        /\ Known(cache', c) /\ HasAccepted(VerdictOf(cache', c))
        => /\ now <= Expires[c] /\ Issued[c] <= now + SkewTolerance
           /\ Issued[c] < Expires[c] /\ Expires[c] - Issued[c] <= MaxValidity

LEMMA FreshStep == TypeOK /\ StoreMirrors /\ [Next]_vars => AcceptsOnlyFresh
<1> SUFFICES ASSUME TypeOK, StoreMirrors, [Next]_vars PROVE AcceptsOnlyFresh
  OBVIOUS
<1>1. CASE cache' = cache
  BY <1>1 DEF AcceptsOnlyFresh
<1>2. ASSUME NEW d \in Cmd, Decide(d) PROVE AcceptsOnlyFresh
  <2>1. ~Known(cache, d) /\ cache \in Seq(Row) /\ now \in Nat
    BY <1>2 DEF Decide, TypeOK
  <2>2. PICK b1, b2, t :
          /\ b1 \in BOOLEAN /\ b2 \in BOOLEAN /\ t \in ClockSamples(b1, b2)
          /\ cache' = Record(cache, d, Decision(d, b1, b2, t))
    BY <1>2 DEF Decide
  <2> DEFINE v == Decision(d, b1, b2, t)
  <2>3. v \in Verdict
    BY <2>2, DecisionType
  <2>4. /\ VerdictOf(cache', d) = v
        /\ \A c \in Cmd : Known(cache', c) => c = d \/ Known(cache, c)
    <3> HIDE DEF v
    <3> QED
      BY <2>1, <2>2, <2>3, RecordNew DEF v
  <2>5. ASSUME HasAccepted(v)
        PROVE  /\ now <= Expires[d] /\ Issued[d] <= now + SkewTolerance
               /\ Issued[d] < Expires[d] /\ Expires[d] - Issued[d] <= MaxValidity
    <3>1. TimeSafety(d, b1, b2, now) = "OK"
      <4>1. TimeSafety(d, b1, b2, t) = "OK"
        BY <2>5 DEF HasAccepted, Decision, TimeSafety
      <4>2. b1 /\ b2
        BY <4>1 DEF TimeSafety
      <4> QED
        BY <2>2, <4>1, <4>2 DEF ClockSamples
    <3>2. /\ Issued[d] \in Int /\ Expires[d] \in Int
          /\ SkewTolerance \in Int /\ now \in Int
      BY <2>1, CommandAssumption DEF CommandAssumption
    <3>3. WellFormedWindow(d) /\ ~(Issued[d] > now + SkewTolerance) /\ ~(now > Expires[d])
      BY <3>1 DEF TimeSafety
    <3> QED
      BY <3>2, <3>3 DEF WellFormedWindow
  <2> QED
    BY <2>4, <2>5 DEF AcceptsOnlyFresh
<1>3. CASE Restart
  <2>1. cache' = cache \/ cache' = <<>>
    BY <1>3 DEF Restart, StoreMirrors
  <2>2. \A c \in Cmd : ~Known(<<>>, c)
    BY DEF Known
  <2> QED
    BY <1>1, <2>1, <2>2 DEF AcceptsOnlyFresh
<1>4. ASSUME NEW c \in Cmd, Replay(c) PROVE cache' = cache
  BY <1>4 DEF Replay
<1>5. ASSUME NEW p \in Payload, Receive(p) PROVE cache' = cache
  BY <1>5 DEF Receive
<1>6. CASE UNCHANGED vars \/ WifiDown \/ WifiUp \/ SessionDrops \/ Tick
  BY <1>1, <1>6 DEF vars, deviceVars, WifiDown, WifiUp, SessionDrops, Tick
<1>7. CASE LinkLost \/ LinkUp \/ Connect \/ PollReturns \/ DrainOutbox \/ NothingPending
           \/ RejectGarbage \/ AlreadySubscribed \/ Subscribe \/ PublishOthers
  BY <1>1, <1>7
  DEF LinkLost, LinkUp, Connect, PollReturns, DrainOutbox, NothingPending, RejectGarbage,
      AlreadySubscribed, Subscribe, PublishOthers
<1> QED
  BY <1>1, <1>2, <1>3, <1>4, <1>5, <1>6, <1>7 DEF Next, LoopStep

(* However long a command waited in the queue or in the network, only one  *)
(* inside its window is ever accepted.                                     *)
THEOREM OnlyFreshAccepted == Spec => StaleNeverAccepted
<1>1. Init => StoreMirrors
  BY DEF Init, StoreMirrors
<1>2. Spec => []StoreMirrors
  BY <1>1, MirrorStep, PTL DEF Spec
<1>3. Spec => [][AcceptsOnlyFresh]_vars
  BY <1>2, TypeCorrect, FreshStep, PTL DEF Spec
<1> QED
  BY <1>3 DEF StaleNeverAccepted, AcceptsOnlyFresh

----------------------------------------------------------------------------
(* The contract.  What the device remembers is a record of its decisions.  *)
(* The rows of the dedup cache are in the order of the decisions, so the   *)
(* rows behind one are commands decided since, and the row that record()   *)
(* evicts has a whole table of them behind it.                             *)

Distinct(rows) == \A i, j \in DOMAIN rows : rows[i].id = rows[j].id => i = j

InOrder(rows, after) ==
    \A i, j \in DOMAIN rows : i < j => rows[j].id \in after[rows[i].id]

SinceFinite == \A c \in Cmd : IsFiniteSet(since[c])

Decided(rows) == [c \in Cmd |-> IF Known(rows, c) THEN VerdictOf(rows, c) ELSE "undecided"]

(* What the broker has heard of a command, the decision being v.           *)
Stories(v) == {<<v>>} \cup (IF HasAccepted(v) THEN {<<"ACCEPTED">>, <<"ACCEPTED", v>>} ELSE {})

HeardAgrees ==
    \A c \in Cmd :
        Known(cache, c) /\ heard[c] # <<>> => heard[c] \in Stories(VerdictOf(cache, c))

(* An ACCEPTED that waits precedes every other answer to its command.      *)
AcceptedFirst ==
    outbox # <<>> /\ Head(outbox).answer = "ACCEPTED" =>
        heard[Head(outbox).cmd] \in {<<>>, <<"ACCEPTED">>}

ContractInv ==
    /\ StoreMirrors /\ Distinct(cache) /\ InOrder(cache, since) /\ SinceFinite
    /\ HeardAgrees /\ AcceptedFirst /\ ForgottenOnlyWhenCrowded

(* The oldest of a full table of distinct commands was followed by a table *)
(* full of others, the one that crowds it out included.                    *)
LEMMA OldestIsCrowded ==
    ASSUME NEW rows \in Seq(Row), NEW after, Distinct(rows), InOrder(rows, after),
           Len(rows) >= CacheCapacity, rows # <<>>, IsFiniteSet(after[rows[1].id]),
           NEW c, ~Known(rows, c)
    PROVE  Cardinality(after[rows[1].id] \cup {c}) >= CacheCapacity
<1> DEFINE T == after[rows[1].id] \cup {c}
           f == [i \in 1..Len(rows) |-> IF i = 1 THEN c ELSE rows[i].id]
<1>1. Len(rows) \in Nat /\ DOMAIN rows = 1..Len(rows) /\ 1 \in 1..Len(rows)
  OBVIOUS
<1>2. \A i \in 1..Len(rows) : rows[i].id # c
  BY <1>1 DEF Known
<1>3. \A i \in 1..Len(rows) : i # 1 => rows[i].id \in T
  BY <1>1 DEF InOrder
<1>4. f \in Injection(1..Len(rows), T)
  <2>1. f \in [1..Len(rows) -> T]
    BY <1>3
  <2>2. \A a, b \in 1..Len(rows) : f[a] = f[b] => a = b
    BY <1>1, <1>2 DEF Distinct
  <2> QED
    BY <2>1, <2>2 DEF Injection, IsInjective
<1>5. IsFiniteSet(T)
  BY FS_AddElement
<1>6. Cardinality(1..Len(rows)) <= Cardinality(T)
  BY <1>4, <1>5, FS_Injection
<1>7. Cardinality(1..Len(rows)) = Len(rows)
  BY <1>1, FS_Interval
<1>8. Cardinality(T) \in Nat /\ CacheCapacity \in Nat
  BY <1>5, FS_CardinalityType, CommandAssumption DEF CommandAssumption
<1> HIDE DEF T
<1>9. Cardinality(T) >= CacheCapacity
  BY <1>1, <1>6, <1>7, <1>8
<1> QED
  BY <1>9 DEF T

(* In a table of distinct commands, the row of a command is the one.       *)
LEMMA VerdictOfRow ==
    ASSUME NEW rows \in Seq(Row), Distinct(rows), NEW i \in DOMAIN rows
    PROVE  Known(rows, rows[i].id) /\ VerdictOf(rows, rows[i].id) = rows[i].verdict
<1> DEFINE j == CHOOSE k \in DOMAIN rows : rows[k].id = rows[i].id
<1>1. j \in DOMAIN rows /\ rows[j].id = rows[i].id
  OBVIOUS
<1>2. j = i
  BY <1>1 DEF Distinct
<1> QED
  BY <1>2 DEF Known, VerdictOf

(* A decision is added behind the rows that stay, which are all but the    *)
(* first of a full table.                                                  *)
LEMMA RecordAdds ==
    ASSUME NEW rows \in Seq(Row), Distinct(rows),
           NEW c \in Cmd, NEW v \in Verdict, ~Known(rows, c)
    PROVE  LET new == Record(rows, c, v)
           IN  /\ Distinct(new)
               /\ Known(new, c) /\ VerdictOf(new, c) = v
               /\ \A d \in Cmd : Known(new, d) /\ d # c =>
                      Known(rows, d) /\ VerdictOf(new, d) = VerdictOf(rows, d)
               /\ \A d \in Cmd : Known(rows, d) /\ ~Known(new, d) =>
                      Len(rows) >= CacheCapacity /\ rows # <<>> /\ d = rows[1].id
               /\ \A i, j \in DOMAIN new : i < j =>
                      \/ new[j].id = c /\ new[i].id # c
                      \/ /\ new[j].id # c
                         /\ \E k, l \in DOMAIN rows :
                               k < l /\ new[i].id = rows[k].id /\ new[j].id = rows[l].id
<1> DEFINE off == IF Len(rows) >= CacheCapacity THEN 1 ELSE 0
           kept == IF Len(rows) >= CacheCapacity THEN Tail(rows) ELSE rows
           row == [id |-> c, verdict |-> v]
           new == Append(kept, row)
<1>1. Record(rows, c, v) = new
  BY DEF Record
<1>2. row \in Row /\ row.id = c /\ row.verdict = v
  BY DEF Row
<1> HIDE DEF row
<1>3. /\ off \in {0, 1} /\ Len(rows) \in Nat /\ DOMAIN rows = 1..Len(rows)
      /\ (off = 1) <=> (Len(rows) >= CacheCapacity)
      /\ off = 1 => rows # <<>>
      /\ kept \in Seq(Row) /\ Len(kept) = Len(rows) - off
      /\ \A i \in 1..(Len(rows) - off) : kept[i] = rows[i + off]
  <2>1. CASE Len(rows) >= CacheCapacity
    <3>1. rows # <<>>
      BY <2>1, CommandAssumption DEF CommandAssumption
    <3>2. Tail(rows) \in Seq(Row) /\ Len(Tail(rows)) = Len(rows) - 1
          /\ \A i \in 1..Len(Tail(rows)) : Tail(rows)[i] = rows[i+1]
      BY <3>1
    <3> QED
      BY <2>1, <3>1, <3>2
  <2>2. CASE ~(Len(rows) >= CacheCapacity)
    BY <2>2
  <2> QED
    BY <2>1, <2>2
<1> DEFINE n == Len(rows) - off
<1>4. n \in Nat
  BY <1>3
<1> HIDE DEF off, kept
<1>5. /\ new \in Seq(Row) /\ DOMAIN new = 1..(n + 1)
      /\ new[n + 1] = row
      /\ \A i \in 1..n : new[i] = rows[i + off] /\ i + off \in DOMAIN rows
  BY <1>2, <1>3, <1>4
<1> HIDE DEF new
<1>6. \A i \in DOMAIN new : i = n + 1 \/ i \in 1..n
  BY <1>4, <1>5
<1> HIDE DEF n
<1>7. \A i \in DOMAIN rows : rows[i].id # c
  BY DEF Known
<1>8. \A i \in 1..n : new[i].id # c
  BY <1>5, <1>7
<1>9. Distinct(new)
  <2> SUFFICES ASSUME NEW i \in DOMAIN new, NEW j \in DOMAIN new, new[i].id = new[j].id
               PROVE  i = j
    BY DEF Distinct
  <2>1. CASE i \in 1..n /\ j \in 1..n
    <3>1. rows[i + off].id = rows[j + off].id
      BY <1>5, <2>1
    <3>2. i + off = j + off
      BY <1>5, <2>1, <3>1 DEF Distinct
    <3> QED
      BY <1>3, <1>4, <2>1, <3>2
  <2> QED
    BY <1>2, <1>5, <1>6, <1>8, <2>1
<1>10. n + 1 \in DOMAIN new /\ \A i \in 1..n : i \in DOMAIN new
  BY <1>4, <1>5
<1>11. Known(new, c) /\ VerdictOf(new, c) = v
  BY <1>2, <1>5, <1>9, <1>10, VerdictOfRow
<1>12. ASSUME NEW d \in Cmd, Known(new, d), d # c
       PROVE  Known(rows, d) /\ VerdictOf(new, d) = VerdictOf(rows, d)
  <2>1. PICK i \in 1..n : new[i].id = d
    BY <1>2, <1>5, <1>6, <1>12 DEF Known
  <2>2. VerdictOf(new, d) = new[i].verdict
    BY <1>5, <1>9, <1>10, <2>1, VerdictOfRow
  <2>3. Known(rows, d) /\ VerdictOf(rows, d) = rows[i + off].verdict
    BY <1>5, <2>1, VerdictOfRow
  <2> QED
    BY <1>5, <2>1, <2>2, <2>3
<1>13. ASSUME NEW d \in Cmd, Known(rows, d), ~Known(new, d)
       PROVE  Len(rows) >= CacheCapacity /\ rows # <<>> /\ d = rows[1].id
  <2>1. PICK k \in DOMAIN rows : rows[k].id = d
    BY <1>13 DEF Known
  <2>2. k - off \notin 1..n
    <3>1. SUFFICES ASSUME k - off \in 1..n PROVE FALSE
      OBVIOUS
    <3>2. k - off + off = k
      BY <1>3, <2>1
    <3>3. new[k - off] = rows[k]
      BY <1>5, <3>1, <3>2
    <3> QED
      BY <1>10, <1>13, <2>1, <3>1, <3>3 DEF Known
  <2>3. off = 1 /\ k = 1
    BY <1>3, <2>1, <2>2 DEF n
  <2> QED
    BY <1>3, <2>1, <2>3
<1>14. ASSUME NEW i \in DOMAIN new, NEW j \in DOMAIN new, i < j
       PROVE  \/ new[j].id = c /\ new[i].id # c
              \/ /\ new[j].id # c
                 /\ \E k, l \in DOMAIN rows :
                       k < l /\ new[i].id = rows[k].id /\ new[j].id = rows[l].id
  <2>1. i \in 1..n
    BY <1>4, <1>5, <1>14
  <2>2. CASE j = n + 1
    BY <1>2, <1>5, <1>8, <2>1, <2>2
  <2>3. CASE j \in 1..n
    <3>1. i + off \in DOMAIN rows /\ j + off \in DOMAIN rows /\ i + off < j + off
      BY <1>3, <1>5, <1>14, <2>1, <2>3
    <3>2. new[i].id = rows[i + off].id /\ new[j].id = rows[j + off].id
      BY <1>5, <2>1, <2>3
    <3> QED
      BY <1>8, <2>3, <3>1, <3>2
  <2> QED
    BY <1>6, <2>2, <2>3
<1> QED
  BY <1>1, <1>9, <1>11, <1>12, <1>13, <1>14

(* Hearing a copy of the decision changes nothing, or ends the story.      *)
LEMMA HearTerminal ==
    ASSUME NEW c \in Cmd, NEW v \in Verdict,
           heard[c] = <<>> \/ heard[c] \in Stories(v)
    PROVE  \/ Hear(heard, [cmd |-> c, answer |-> v]) = heard
           \/ /\ heard[c] \in {<<>>, <<"ACCEPTED">>}
              /\ Hear(heard, [cmd |-> c, answer |-> v]) = [heard EXCEPT ![c] = Append(heard[c], v)]
<1> DEFINE r == [cmd |-> c, answer |-> v]
<1>1. r.cmd = c /\ r.answer = v
  OBVIOUS
<1> HIDE DEF r
<1>2. CASE heard[c] \in {<<v>>, <<"ACCEPTED", v>>}
  <2>1. heard[c] # <<>> /\ heard[c][Len(heard[c])] = v
    <3>1. CASE heard[c] = <<v>>
      BY <3>1
    <3>2. CASE heard[c] = <<"ACCEPTED", v>>
      BY <3>2
    <3> QED
      BY <1>2, <3>1, <3>2
  <2>2. Hear(heard, r) = heard
    BY <1>1, <2>1 DEF Hear
  <2> QED
    BY <2>2 DEF r
<1>3. CASE heard[c] \in {<<>>, <<"ACCEPTED">>}
  <2>1. ~(heard[c] # <<>> /\ heard[c][Len(heard[c])] = v)
    BY <1>3 DEF Verdict
  <2>2. Hear(heard, r) = [heard EXCEPT ![c] = Append(heard[c], v)]
    BY <1>1, <2>1 DEF Hear
  <2> QED
    BY <1>3, <2>2 DEF r
<1> QED
  BY <1>2, <1>3 DEF Stories

(* Hearing ACCEPTED begins the story, or was heard before.                 *)
LEMMA HearAccepted ==
    ASSUME NEW c \in Cmd, heard[c] \in {<<>>, <<"ACCEPTED">>}
    PROVE  \/ Hear(heard, [cmd |-> c, answer |-> "ACCEPTED"]) = heard
           \/ /\ heard[c] = <<>>
              /\ Hear(heard, [cmd |-> c, answer |-> "ACCEPTED"]) = [heard EXCEPT ![c] = <<"ACCEPTED">>]
<1> DEFINE r == [cmd |-> c, answer |-> "ACCEPTED"]
<1>1. r.cmd = c /\ r.answer = "ACCEPTED"
  OBVIOUS
<1> HIDE DEF r
<1>2. CASE heard[c] = <<"ACCEPTED">>
  <2>1. heard[c] # <<>> /\ heard[c][Len(heard[c])] = "ACCEPTED"
    BY <1>2
  <2> QED
    BY <1>1, <2>1 DEF Hear, r
<1>3. CASE heard[c] = <<>>
  <2>1. Hear(heard, r) = [heard EXCEPT ![c] = Append(heard[c], "ACCEPTED")]
    BY <1>1, <1>3 DEF Hear
  <2>2. Append(heard[c], "ACCEPTED") = <<"ACCEPTED">>
    BY <1>3
  <2> QED
    BY <1>3, <2>1, <2>2 DEF r
<1> QED
  BY <1>2, <1>3

(* A step of the contract, in the terms of the pipeline.                   *)
ContractStep == [Contract!Next]_<<Decided(cache), heard, since>>

(* Telling the terminal answer of a command that is known.                 *)
LEMMA TerminalTold ==
    ASSUME TypeOK, ContractInv, NEW c \in Cmd, Known(cache, c), UNCHANGED <<cache, since>>,
           heard' \in {heard, Hear(heard, [cmd |-> c, answer |-> VerdictOf(cache, c)])}
    PROVE  HeardAgrees' /\ ContractStep
<1> DEFINE v == VerdictOf(cache, c)
<1>1. v \in Verdict /\ heard \in [Cmd -> Seq(Answer)]
  BY VerdictOfKnown DEF TypeOK
<1>2. heard[c] = <<>> \/ heard[c] \in Stories(v)
  BY DEF ContractInv, HeardAgrees
<1>3. CASE heard' = heard
  BY <1>3 DEF ContractInv, HeardAgrees, ContractStep, Decided
<1>4. CASE heard[c] \in {<<>>, <<"ACCEPTED">>} /\ heard' = [heard EXCEPT ![c] = Append(heard[c], v)]
  <2>1. heard[c] = <<"ACCEPTED">> => HasAccepted(v)
    <3>1. <<"ACCEPTED">> # <<v>> /\ <<"ACCEPTED">> # <<>>
      BY <1>1 DEF Verdict
    <3> QED
      BY <1>2, <3>1 DEF Stories
  <2>2. Append(heard[c], v) \in Stories(v)
    <3>1. CASE heard[c] = <<>>
      BY <3>1 DEF Stories
    <3>2. CASE heard[c] = <<"ACCEPTED">>
      <4>1. Append(<<"ACCEPTED">>, v) = <<"ACCEPTED", v>>
        <5>1. "ACCEPTED" \in Answer /\ v \in Answer
          BY <1>1 DEF Answer
        <5> QED
          BY <5>1, AppendToOne
      <4> QED
        BY <2>1, <3>2, <4>1 DEF Stories
    <3> QED
      BY <1>4, <3>1, <3>2
  <2>3. HeardAgrees'
    <3>1. \A d \in Cmd : heard'[d] = IF d = c THEN Append(heard[c], v) ELSE heard[d]
      BY <1>1, <1>4
    <3> HIDE DEF v
    <3> QED
      BY <2>2, <3>1 DEF ContractInv, HeardAgrees, v
  <2>4. \A i \in DOMAIN heard[c] : heard[c][i] # v
    <3>1. CASE heard[c] = <<>>
      BY <3>1
    <3>2. CASE heard[c] = <<"ACCEPTED">>
      BY <1>1, <3>2 DEF Verdict
    <3> QED
      BY <1>4, <3>1, <3>2
  <2>5. Contract!TellTerminal(c)
    <3>1. Decided(cache)[c] = v /\ Decided(cache)' = Decided(cache)
      BY DEF Decided
    <3> HIDE DEF v
    <3> QED
      BY <1>1, <1>4, <2>4, <3>1 DEF Contract!TellTerminal, Decided
  <2> QED
    BY <2>3, <2>5 DEF ContractStep, Contract!Next
<1> QED
  BY <1>1, <1>2, <1>3, <1>4, HearTerminal

(* Telling ACCEPTED of a command that is known and accepted.               *)
LEMMA AcceptedTold ==
    ASSUME TypeOK, ContractInv, NEW c \in Cmd, Known(cache, c), UNCHANGED <<cache, since>>,
           HasAccepted(VerdictOf(cache, c)), heard[c] \in {<<>>, <<"ACCEPTED">>},
           heard' \in {heard, Hear(heard, [cmd |-> c, answer |-> "ACCEPTED"])}
    PROVE  HeardAgrees' /\ ContractStep /\ heard'[c] \in {<<>>, <<"ACCEPTED">>}
<1> DEFINE v == VerdictOf(cache, c)
<1>1. v \in Verdict /\ heard \in [Cmd -> Seq(Answer)]
  BY VerdictOfKnown DEF TypeOK
<1>2. CASE heard' = heard
  BY <1>2 DEF ContractInv, HeardAgrees, ContractStep, Decided
<1>3. CASE heard[c] = <<>> /\ heard' = [heard EXCEPT ![c] = <<"ACCEPTED">>]
  <2>1. \A d \in Cmd : heard'[d] = IF d = c THEN <<"ACCEPTED">> ELSE heard[d]
    BY <1>1, <1>3
  <2>2. HeardAgrees'
    BY <2>1 DEF ContractInv, HeardAgrees, Stories
  <2>3. Contract!TellAccepted(c)
    <3>1. Decided(cache)[c] = v /\ Decided(cache)' = Decided(cache)
      BY DEF Decided
    <3>2. v \in {w \in Verdict : HasAccepted(w)}
      BY <1>1
    <3> HIDE DEF v
    <3> QED
      BY <1>3, <3>1, <3>2 DEF Contract!TellAccepted, Decided
  <2> QED
    BY <2>1, <2>2, <2>3 DEF ContractStep, Contract!Next
<1> QED
  BY <1>2, <1>3, HearAccepted

(* The contract counts the way the pipeline does.                          *)
LEMMA ContractCounts ==
    ASSUME NEW S
    PROVE  Contract!Cardinality(S) = Cardinality(S)
BY DEF Contract!Cardinality, Cardinality

(* A decision, with the answer that goes out along with it, if any does.   *)
LEMMA DecisionTold ==
    ASSUME TypeOK, ContractInv, NEW c \in Cmd, NEW v \in Verdict,
           ~Known(cache, c), cache' = Record(cache, c, v),
           since' = [d \in Cmd |-> IF d = c THEN {} ELSE since[d] \cup {c}],
           NEW untold, untold = [heard EXCEPT ![c] = <<>>],
           heard' \in {untold,
                       Hear(untold, [cmd |-> c, answer |-> IF HasAccepted(v) THEN "ACCEPTED" ELSE v])},
           UNCHANGED restarts
    PROVE  /\ HeardAgrees' /\ ContractStep /\ Distinct(cache') /\ InOrder(cache', since')
           /\ SinceFinite' /\ ForgottenOnlyWhenCrowded'
           /\ HasAccepted(v) => heard'[c] \in {<<>>, <<"ACCEPTED">>}
<1> DEFINE first == IF HasAccepted(v) THEN "ACCEPTED" ELSE v
           Fits(d) == Cardinality(since'[d]) >= CacheCapacity
<1>1. /\ cache \in Seq(Row) /\ Distinct(cache) /\ InOrder(cache, since) /\ SinceFinite
      /\ HeardAgrees /\ ForgottenOnlyWhenCrowded
      /\ heard \in [Cmd -> Seq(Answer)] /\ restarts \in Nat
      /\ since \in [Cmd -> SUBSET Cmd]
  BY DEF TypeOK, ContractInv
<1>2. /\ Distinct(cache')
      /\ Known(cache', c) /\ VerdictOf(cache', c) = v
      /\ \A d \in Cmd : Known(cache', d) /\ d # c =>
             Known(cache, d) /\ VerdictOf(cache', d) = VerdictOf(cache, d)
      /\ \A d \in Cmd : Known(cache, d) /\ ~Known(cache', d) =>
             Len(cache) >= CacheCapacity /\ cache # <<>> /\ d = cache[1].id
      /\ \A i, j \in DOMAIN cache' : i < j =>
             \/ cache'[j].id = c /\ cache'[i].id # c
             \/ /\ cache'[j].id # c
                /\ \E k, l \in DOMAIN cache :
                      k < l /\ cache'[i].id = cache[k].id /\ cache'[j].id = cache[l].id
  BY <1>1, RecordAdds
<1>3. \A d \in Cmd : d # c => since'[d] = since[d] \cup {c}
  OBVIOUS
<1>4. SinceFinite'
  <2>1. ASSUME NEW d \in Cmd PROVE IsFiniteSet(since'[d])
    <3>1. CASE d = c
      BY <3>1, FS_EmptySet
    <3>2. CASE d # c
      BY <1>1, <1>3, <3>2, FS_AddElement DEF SinceFinite
    <3> QED
      BY <3>1, <3>2
  <2> QED
    BY <2>1 DEF SinceFinite
<1>5. ASSUME NEW d \in Cmd, Known(cache, d), ~Known(cache', d) PROVE Fits(d)
  <2>1. Len(cache) >= CacheCapacity /\ cache # <<>> /\ d = cache[1].id /\ d # c
    BY <1>2, <1>5
  <2>2. IsFiniteSet(since[cache[1].id])
    BY <1>1, <2>1 DEF SinceFinite
  <2>3. Cardinality(since[cache[1].id] \cup {c}) >= CacheCapacity
    BY <1>1, <2>1, <2>2, OldestIsCrowded
  <2> QED
    BY <1>3, <2>1, <2>3
<1>6. InOrder(cache', since')
  <2> SUFFICES ASSUME NEW i \in DOMAIN cache', NEW j \in DOMAIN cache', i < j
               PROVE  cache'[j].id \in since'[cache'[i].id]
    BY DEF InOrder
  <2>1. cache' \in Seq(Row)
    BY <1>1, RecordType
  <2>2. cache'[i].id \in Cmd /\ cache'[j].id \in Cmd
    <3>1. cache'[i] \in Row /\ cache'[j] \in Row
      BY <2>1
    <3> QED
      BY <3>1 DEF Row
  <2>3. CASE cache'[j].id = c /\ cache'[i].id # c
    BY <1>3, <2>2, <2>3
  <2>4. CASE cache'[j].id # c /\ \E k, l \in DOMAIN cache :
                 k < l /\ cache'[i].id = cache[k].id /\ cache'[j].id = cache[l].id
    <3>1. PICK k \in DOMAIN cache, l \in DOMAIN cache :
                 k < l /\ cache'[i].id = cache[k].id /\ cache'[j].id = cache[l].id
      BY <2>4
    <3>2. cache'[j].id \in since[cache'[i].id]
      BY <1>1, <3>1 DEF InOrder
    <3>3. cache'[i].id # c
      BY <3>1 DEF Known
    <3> QED
      BY <1>3, <2>2, <3>2, <3>3
  <2> QED
    BY <1>2, <2>3, <2>4
<1>7. untold \in [Cmd -> Seq(Answer)] /\ untold[c] = <<>> /\ \A d \in Cmd : d # c => untold[d] = heard[d]
  BY <1>1
<1>8. heard' = untold \/ heard' = [heard EXCEPT ![c] = <<first>>]
  <2> DEFINE r == [cmd |-> c, answer |-> first]
  <2>1. r.cmd = c /\ r.answer = first
    OBVIOUS
  <2> HIDE DEF r, first
  <2>2. Append(untold[c], first) = <<first>>
    BY <1>7
  <2>3. Hear(untold, r) = [untold EXCEPT ![c] = <<first>>]
    BY <1>7, <2>1, <2>2 DEF Hear
  <2>4. [untold EXCEPT ![c] = <<first>>] = [heard EXCEPT ![c] = <<first>>]
    BY <1>1
  <2> QED
    BY <2>3, <2>4 DEF r, first
<1>9. <<first>> \in Stories(v) /\ (HasAccepted(v) => <<first>> = <<"ACCEPTED">>)
  BY DEF Stories
<1>10. first = Contract!First(v)
  BY DEF Contract!First
<1> HIDE DEF first
<1>11. \A d \in Cmd : d # c => heard'[d] = heard[d]
  BY <1>1, <1>7, <1>8
<1>12. heard'[c] = <<>> \/ heard'[c] = <<first>>
  BY <1>1, <1>7, <1>8
<1>13. HeardAgrees'
  <2> SUFFICES ASSUME NEW d \in Cmd, Known(cache', d), heard'[d] # <<>>
               PROVE  heard'[d] \in Stories(VerdictOf(cache', d))
    BY DEF HeardAgrees
  <2>1. CASE d = c
    BY <1>2, <1>9, <1>12, <2>1
  <2>2. CASE d # c
    BY <1>1, <1>2, <1>11, <2>2 DEF HeardAgrees
  <2> QED
    BY <2>1, <2>2
<1>14. ForgottenOnlyWhenCrowded'
  <2> SUFFICES ASSUME NEW d \in Cmd, heard'[d] # <<>>, ~Known(cache', d)
               PROVE  Fits(d) \/ (~Durable /\ restarts' > 0)
    BY DEF ForgottenOnlyWhenCrowded
  <2>1. d # c /\ heard[d] # <<>>
    BY <1>2, <1>11
  <2>2. CASE Known(cache, d)
    BY <1>5, <2>2
  <2>3. CASE ~Known(cache, d) /\ Cardinality(since[d]) >= CacheCapacity
    <3>1. IsFiniteSet(since'[d]) /\ since[d] \in SUBSET since'[d]
      BY <1>3, <1>4, <2>1 DEF SinceFinite
    <3>2. /\ Cardinality(since[d]) <= Cardinality(since'[d])
          /\ Cardinality(since[d]) \in Nat /\ Cardinality(since'[d]) \in Nat
      BY <3>1, FS_Subset, FS_CardinalityType
    <3>3. CacheCapacity \in Nat
      BY CommandAssumption DEF CommandAssumption
    <3> QED
      BY <2>3, <3>2, <3>3
  <2> QED
    BY <1>1, <2>1, <2>2, <2>3 DEF ForgottenOnlyWhenCrowded
<1>15. ContractStep
  <2> DEFINE forgotten == {d \in Cmd : Known(cache, d) /\ ~Known(cache', d)}
  <2>1. forgotten \in SUBSET Contract!Crowded'
    BY <1>5, ContractCounts DEF Contract!Crowded
  <2>2. Decided(cache') = [d \in Cmd |-> IF d = c THEN v
                                ELSE IF d \in forgotten THEN "undecided" ELSE Decided(cache)[d]]
    <3>1. ASSUME NEW d \in Cmd
          PROVE  Decided(cache')[d] = IF d = c THEN v
                     ELSE IF d \in forgotten THEN "undecided" ELSE Decided(cache)[d]
      BY <1>2 DEF Decided
    <3> HIDE DEF forgotten
    <3> QED
      BY <3>1 DEF Decided
  <2> HIDE DEF forgotten
  <2>3. Decided(cache)[c] = "undecided"
    BY DEF Decided
  <2>4. heard' \in {[heard EXCEPT ![c] = <<>>], [heard EXCEPT ![c] = <<Contract!First(v)>>]}
    BY <1>8, <1>10
  <2>5. Contract!Decide(c, v)
    BY <2>1, <2>2, <2>3, <2>4 DEF Contract!Decide, Contract!Undecided, Decided
  <2> QED
    BY <2>5 DEF ContractStep, Contract!Next
<1> QED
  BY <1>2, <1>4, <1>6, <1>9, <1>12, <1>13, <1>14, <1>15

(* The outcome of a publish, as far as the broker is concerned.            *)
LEMMA PublishTells ==
    ASSUME NEW before, NEW r, Published(before, r) \/ NotPublished(before, r)
    PROVE  heard' \in {before, Hear(before, r)}
BY DEF Published, NotPublished

(* A step that leaves the cache, the store and the broker's view alone.    *)
LEMMA ContractUnchanged ==
    ASSUME TypeOK, ContractInv, UNCHANGED <<cache, store, heard, since>>,
           UNCHANGED restarts \/ restarts' = restarts + 1,
           UNCHANGED outbox \/ outbox' = <<>>
    PROVE  ContractInv' /\ ContractStep
<1>1. StoreMirrors' /\ Distinct(cache') /\ InOrder(cache', since') /\ SinceFinite'
  BY DEF ContractInv, StoreMirrors, SinceFinite
<1>2. HeardAgrees'
  BY DEF ContractInv, HeardAgrees
<1>3. AcceptedFirst'
  BY DEF ContractInv, AcceptedFirst
<1>4. ForgottenOnlyWhenCrowded'
  BY DEF TypeOK, ContractInv, ForgottenOnlyWhenCrowded
<1>5. ContractStep
  BY DEF ContractStep, Decided
<1> QED
  BY <1>1, <1>2, <1>3, <1>4, <1>5 DEF ContractInv

(* Telling a command that is known forgets nothing.                        *)
LEMMA TellingForgetsNothing ==
    ASSUME TypeOK, ContractInv, NEW c \in Cmd, Known(cache, c),
           UNCHANGED <<cache, store, since, restarts>>, NEW r, r.cmd = c, heard' \in {heard, Hear(heard, r)}
    PROVE  /\ StoreMirrors' /\ Distinct(cache') /\ InOrder(cache', since') /\ SinceFinite'
           /\ ForgottenOnlyWhenCrowded'
<1>1. StoreMirrors' /\ Distinct(cache') /\ InOrder(cache', since') /\ SinceFinite'
  BY DEF ContractInv, StoreMirrors, SinceFinite
<1>2. \A d \in Cmd : d # c => heard'[d] = heard[d]
  BY DEF Hear, TypeOK
<1>3. ForgottenOnlyWhenCrowded'
  BY <1>2 DEF ContractInv, ForgottenOnlyWhenCrowded
<1> QED
  BY <1>1, <1>3

LEMMA ContractDrain ==
    ASSUME TypeOK, StoryOK, ContractInv, DrainOutbox
    PROVE  ContractInv' /\ ContractStep
<1>1. outbox # <<>> /\ UNCHANGED <<cache, store, since, restarts>>
  BY DEF DrainOutbox, envVars
<1>2. PICK c \in Cmd :
        /\ Known(cache, c)
        /\ \/ outbox = <<[cmd |-> c, answer |-> VerdictOf(cache, c)]>>
           \/ /\ HasAccepted(VerdictOf(cache, c))
              /\ outbox = <<[cmd |-> c, answer |-> "ACCEPTED"],
                            [cmd |-> c, answer |-> VerdictOf(cache, c)]>>
  BY <1>1 DEF StoryOK, OutboxIsOneStory
<1> DEFINE r == [cmd |-> c, answer |-> VerdictOf(cache, c)]
           a == [cmd |-> c, answer |-> "ACCEPTED"]
<1>3. heard' \in {heard, Hear(heard, Head(outbox))} /\ outbox' \in {outbox, Tail(outbox)}
  BY PublishTells DEF DrainOutbox
<1>4. r.answer # "ACCEPTED" /\ a.answer = "ACCEPTED" /\ a.cmd = c
  <2>1. VerdictOf(cache, c) \in Verdict
    BY <1>2, VerdictOfKnown DEF TypeOK
  <2> QED
    BY <2>1 DEF Verdict
<1>5. r.cmd = c /\ Head(outbox).cmd = c
  BY <1>2
<1>6. /\ StoreMirrors' /\ Distinct(cache') /\ InOrder(cache', since') /\ SinceFinite'
      /\ ForgottenOnlyWhenCrowded'
  BY <1>1, <1>2, <1>3, <1>5, TellingForgetsNothing
<1>7. CASE outbox = <<r>>
  <2>1. Head(outbox) = r /\ (outbox' = <<r>> \/ outbox' = <<>>)
    BY <1>3, <1>7
  <2>2. HeardAgrees' /\ ContractStep
    BY <1>1, <1>2, <1>3, <2>1, TerminalTold
  <2>3. AcceptedFirst'
    <3> HIDE DEF r
    <3>1. Head(<<r>>) = r
      OBVIOUS
    <3> QED
      BY <1>4, <2>1, <3>1 DEF AcceptedFirst
  <2> QED
    BY <1>6, <2>2, <2>3 DEF ContractInv
<1>8. CASE HasAccepted(VerdictOf(cache, c)) /\ outbox = <<a, r>>
  <2>1. Head(outbox) = a /\ (outbox' = <<a, r>> \/ outbox' = <<r>>)
    BY <1>3, <1>8
  <2>2. heard[c] \in {<<>>, <<"ACCEPTED">>}
    <3> HIDE DEF a
    <3> QED
      BY <1>1, <1>4, <2>1 DEF ContractInv, AcceptedFirst
  <2>3. HeardAgrees' /\ ContractStep /\ heard'[c] \in {<<>>, <<"ACCEPTED">>}
    BY <1>1, <1>2, <1>3, <1>8, <2>1, <2>2, AcceptedTold
  <2>4. AcceptedFirst'
    <3> HIDE DEF r, a
    <3>1. Head(<<a, r>>) = a /\ Head(<<r>>) = r
      OBVIOUS
    <3> QED
      BY <1>4, <2>1, <2>3, <3>1 DEF AcceptedFirst
  <2> QED
    BY <1>6, <2>3, <2>4 DEF ContractInv
<1> QED
  BY <1>2, <1>7, <1>8

(* What one answer leaves in the outbox.                                   *)
LEMMA OutboxAfterTerminal ==
    ASSUME outbox = <<>>, NEW before, NEW c \in Cmd, NEW v \in Verdict,
           AnswerTerminal(before, [cmd |-> c, answer |-> v])
    PROVE  AcceptedFirst'
<1> DEFINE r == [cmd |-> c, answer |-> v]
<1>1. r \in Response /\ r.answer # "ACCEPTED"
  BY DEF Response, Answer, Verdict
<1>2. outbox' = <<>> \/ outbox' = Enqueue(<<>>, r)
  BY DEF AnswerTerminal
<1> HIDE DEF r
<1>3. outbox' = <<>> \/ outbox' = <<r>>
  BY <1>1, <1>2, EnqueueRoom
<1>4. Head(<<r>>) = r
  OBVIOUS
<1> QED
  BY <1>1, <1>3, <1>4 DEF AcceptedFirst

LEMMA OutboxAfterAccepted ==
    ASSUME outbox = <<>>, NEW before, NEW c \in Cmd, NEW v \in Verdict,
           AnswerAccepted(before, [cmd |-> c, answer |-> v]),
           heard'[c] \in {<<>>, <<"ACCEPTED">>}
    PROVE  AcceptedFirst'
<1> DEFINE r == [cmd |-> c, answer |-> v]
           a == [cmd |-> c, answer |-> "ACCEPTED"]
<1>1. /\ r \in Response /\ r.answer # "ACCEPTED"
      /\ a \in Response /\ a.cmd = c
  BY DEF Response, Answer, Verdict
<1>2. outbox' = Enqueue(<<>>, r) \/ outbox' = Enqueue(Enqueue(<<>>, a), r)
  BY DEF AnswerAccepted
<1> HIDE DEF r, a
<1>3. outbox' = <<r>> \/ outbox' = <<a, r>>
  BY <1>1, <1>2, EnqueueRoom
<1>4. Head(<<r>>) = r /\ Head(<<a, r>>) = a
  OBVIOUS
<1> QED
  BY <1>1, <1>3, <1>4 DEF AcceptedFirst

LEMMA ContractReplay ==
    ASSUME TypeOK, ContractInv, NEW c \in Cmd, Replay(c)
    PROVE  ContractInv' /\ ContractStep
<1> DEFINE r == [cmd |-> c, answer |-> VerdictOf(cache, c)]
<1>1. /\ outbox = <<>> /\ Known(cache, c) /\ UNCHANGED <<cache, store, since, restarts>>
      /\ AnswerTerminal(heard, r)
  BY DEF Replay, StartNext, envVars
<1>2. heard' \in {heard, Hear(heard, r)}
  BY <1>1, PublishTells DEF AnswerTerminal
<1>3. HeardAgrees' /\ ContractStep
  BY <1>1, <1>2, TerminalTold
<1>4. VerdictOf(cache, c) \in Verdict
  BY <1>1, VerdictOfKnown DEF TypeOK
<1>5. AcceptedFirst'
  BY <1>1, <1>4, OutboxAfterTerminal
<1>6. r.cmd = c
  OBVIOUS
<1> HIDE DEF r
<1>7. /\ StoreMirrors' /\ Distinct(cache') /\ InOrder(cache', since') /\ SinceFinite'
      /\ ForgottenOnlyWhenCrowded'
  BY <1>1, <1>2, <1>6, TellingForgetsNothing
<1> QED
  BY <1>3, <1>5, <1>7 DEF ContractInv

LEMMA ContractDecide ==
    ASSUME TypeOK, ContractInv, NEW c \in Cmd, Decide(c)
    PROVE  ContractInv' /\ ContractStep
<1> DEFINE untold == [heard EXCEPT ![c] = <<>>]
<1>1. /\ outbox = <<>> /\ ~Known(cache, c) /\ UNCHANGED restarts
      /\ since' = [d \in Cmd |-> IF d = c THEN {} ELSE since[d] \cup {c}]
  BY DEF Decide, StartNext, envVars
<1>2. PICK b1, b2, t :
        /\ b1 \in BOOLEAN /\ b2 \in BOOLEAN /\ t \in ClockSamples(b1, b2)
        /\ LET v == Decision(c, b1, b2, t)
               r == [cmd |-> c, answer |-> v]
           IN  /\ cache' = Record(cache, c, v)
               /\ store' = IF Durable THEN cache' ELSE store
               /\ \/ HasAccepted(v) /\ AnswerAccepted(untold, r)
                  \/ ~HasAccepted(v) /\ AnswerTerminal(untold, r)
  BY DEF Decide
<1> DEFINE v == Decision(c, b1, b2, t)
<1>3. v \in Verdict
  BY <1>2, DecisionType
<1>4. /\ cache' = Record(cache, c, v)
      /\ store' = IF Durable THEN cache' ELSE store
      /\ \/ HasAccepted(v) /\ AnswerAccepted(untold, [cmd |-> c, answer |-> v])
         \/ ~HasAccepted(v) /\ AnswerTerminal(untold, [cmd |-> c, answer |-> v])
  BY <1>2
<1> HIDE DEF v
<1>5. StoreMirrors'
  BY <1>4 DEF ContractInv, StoreMirrors
<1>6. heard' \in {untold,
                  Hear(untold, [cmd |-> c, answer |-> IF HasAccepted(v) THEN "ACCEPTED" ELSE v])}
  <2> HIDE DEF untold
  <2> QED
    BY <1>4, PublishTells DEF AnswerAccepted, AnswerTerminal
<1>7. /\ HeardAgrees' /\ ContractStep /\ Distinct(cache') /\ InOrder(cache', since')
      /\ SinceFinite' /\ ForgottenOnlyWhenCrowded'
      /\ HasAccepted(v) => heard'[c] \in {<<>>, <<"ACCEPTED">>}
  BY <1>1, <1>3, <1>4, <1>6, DecisionTold
<1> HIDE DEF untold
<1>8. AcceptedFirst'
  BY <1>1, <1>3, <1>4, <1>7, OutboxAfterTerminal, OutboxAfterAccepted
<1> QED
  BY <1>5, <1>7, <1>8 DEF ContractInv

(* A restart brings the table back whole, or, without a persistent cache,  *)
(* forgets it whole.                                                       *)
LEMMA ContractRestart ==
    ASSUME TypeOK, ContractInv, Restart
    PROVE  ContractInv' /\ ContractStep
<1>1. /\ cache' = store /\ restarts' = restarts + 1 /\ outbox' = <<>>
      /\ UNCHANGED <<store, heard, since>>
  BY DEF Restart
<1>2. CASE Durable
  <2>1. store = cache
    BY <1>2 DEF ContractInv, StoreMirrors
  <2> QED
    BY <1>1, <2>1, ContractUnchanged
<1>3. CASE ~Durable
  <2>1. cache' = <<>> /\ StoreMirrors'
    BY <1>1, <1>3 DEF ContractInv, StoreMirrors
  <2>2. \A c \in Cmd : ~Known(cache', c)
    BY <2>1 DEF Known
  <2>3. Distinct(cache') /\ InOrder(cache', since')
    BY <2>1 DEF Distinct, InOrder
  <2>4. SinceFinite' /\ HeardAgrees' /\ AcceptedFirst'
    BY <1>1, <2>2 DEF ContractInv, SinceFinite, HeardAgrees, AcceptedFirst
  <2>5. ForgottenOnlyWhenCrowded'
    BY <1>1, <1>3 DEF TypeOK, ForgottenOnlyWhenCrowded
  <2>6. Decided(cache') = [c \in Cmd |-> "undecided"]
    BY <2>2 DEF Decided
  <2>7. Contract!ForgetAll
    BY <1>1, <1>3, <2>6 DEF Contract!ForgetAll, Contract!Undecided, Decided
  <2> QED
    BY <2>1, <2>3, <2>4, <2>5, <2>7 DEF ContractInv, ContractStep, Contract!Next
<1> QED
  BY <1>2, <1>3

(* Every step of the device and of its environment is a step of the        *)
(* contract or none.                                                       *)
LEMMA ContractKept ==
    ASSUME TypeOK, StoryOK, ContractInv, [Next]_vars
    PROVE  ContractInv' /\ ContractStep
<1>1. CASE UNCHANGED vars
  BY <1>1, ContractUnchanged DEF vars, deviceVars, envVars
<1>2. CASE LinkLost \/ LinkUp \/ Connect \/ PollReturns \/ NothingPending
           \/ RejectGarbage \/ AlreadySubscribed \/ Subscribe \/ PublishOthers
  BY <1>2, ContractUnchanged
  DEF LinkLost, LinkUp, Connect, PollReturns, NothingPending, RejectGarbage, StartNext,
      AlreadySubscribed, Subscribe, PublishOthers, envVars
<1>3. CASE WifiDown \/ WifiUp \/ SessionDrops \/ Tick
  BY <1>3, ContractUnchanged DEF WifiDown, WifiUp, SessionDrops, Tick, deviceVars, envVars
<1>4. CASE DrainOutbox
  BY <1>4, ContractDrain
<1>5. ASSUME NEW c \in Cmd, Replay(c) PROVE ContractInv' /\ ContractStep
  BY <1>5, ContractReplay
<1>6. ASSUME NEW c \in Cmd, Decide(c) PROVE ContractInv' /\ ContractStep
  BY <1>6, ContractDecide
<1>7. ASSUME NEW p \in Payload, Receive(p) PROVE ContractInv' /\ ContractStep
  BY <1>7, ContractUnchanged DEF Receive
<1>8. CASE Restart
  BY <1>8, ContractRestart
<1> QED
  BY <1>1, <1>2, <1>3, <1>4, <1>5, <1>6, <1>7, <1>8 DEF Next, LoopStep

LEMMA ContractStart == Init => StoryOK /\ ContractInv
<1>1. Init => StoryOK
  BY DEF Init, NoResult, StoryOK, OutboxIsOneStory, LastResultConverges
<1>2. Init => ContractInv
  BY FS_EmptySet
  DEF Init, ContractInv, StoreMirrors, Distinct, InOrder, SinceFinite, HeardAgrees, AcceptedFirst,
      ForgottenOnlyWhenCrowded
<1> QED
  BY <1>1, <1>2

(* For any number of commands and any capacity, an answered command is     *)
(* forgotten only after as many others were decided as the cache has rows, *)
(* or in a restart without a persistent cache.                             *)
THEOREM ForgottenAlways == Spec => []ForgottenOnlyWhenCrowded
<1>1. TypeOK /\ StoryOK /\ ContractInv /\ [Next]_vars => StoryOK' /\ ContractInv'
  BY StoryStep, ContractKept
<1>2. ContractInv => ForgottenOnlyWhenCrowded
  BY DEF ContractInv
<1> QED
  BY <1>1, <1>2, ContractStart, TypeCorrect, PTL DEF Spec

(* The pipeline implements the contract with the backend: between two      *)
(* decisions on a command it is crowded out or its memory is lost, and     *)
(* each decision tells one story, whatever is lost, repeated or restarted. *)
THEOREM ContractImplemented == Spec => ImplementsContract
<1>1. TypeOK /\ StoryOK /\ ContractInv /\ [Next]_vars => StoryOK' /\ ContractInv'
  BY StoryStep, ContractKept
<1>2. Spec => [](TypeOK /\ StoryOK /\ ContractInv)
  BY <1>1, ContractStart, TypeCorrect, PTL DEF Spec
<1>3. Init => Contract!Init
  BY DEF Init, Contract!Init, Contract!Undecided, Known
<1>4. TypeOK /\ StoryOK /\ ContractInv /\ [Next]_vars =>
          [Contract!Next]_<<[c \in Cmd |-> IF Known(cache, c) THEN VerdictOf(cache, c)
                                                              ELSE "undecided"], heard, since>>
  BY ContractKept DEF ContractStep, Decided
<1> QED
  BY <1>2, <1>3, <1>4, PTL DEF Spec, ImplementsContract, Contract!Spec
=============================================================================
