------------------------ MODULE EventPipelineProofs ------------------------
(***************************************************************************)
(* Proofs of the safety properties of EventPipeline, for every capacity of *)
(* the ring, every set of malformed events and every bound.                *)
(*                                                                         *)
(* None of the properties is inductive alone.  That the server can have an *)
(* event twice only after an unconfirmed delivery rests on what the sensor *)
(* still holds of the events the server has, which in turn rests on the    *)
(* queue and the ring being disjoint windows of the acknowledged events    *)
(* and on the ring not changing while a request is under way.              *)
(*                                                                         *)
(* The last part proves that the pipeline implements EventDelivery, step   *)
(* by step.                                                                *)
(***************************************************************************)
EXTENDS EventPipelineProps, SequenceTheorems, TLAPS

USE CapacityAssumption, BoundsAssumption, MalformedAssumption

(***************************************************************************)
(* The queue is the newest part of the acknowledged events and the ring    *)
(* the part just before it.                                                *)
(***************************************************************************)
Windows ==
    /\ Len(ring) + Len(queue) <= produced
    /\ \A i \in 1..Len(queue) : queue[i] = produced - Len(queue) + i
    /\ \A i \in 1..Len(ring) : ring[i] = produced - Len(queue) - Len(ring) + i

(***************************************************************************)
(* A request is under way exactly while the thread waits for it, and it    *)
(* carries the whole ring; a confirmed request has been stored.            *)
(***************************************************************************)
RequestCarriesRing ==
    /\ pc = "post" <=> wire # "idle"
    /\ pc = "post" => send_cand = ring
    /\ pc = "init" => ring = <<>>
    /\ wire = "ok" => Elems(ring) \subseteq stored

(***************************************************************************)
(* The server, and the requests on their way to it, know only events that  *)
(* have left the queue.                                                    *)
(***************************************************************************)
Dequeued == 1..(produced - Len(queue))

OnlyDequeued ==
    /\ stored \subseteq Dequeued
    /\ \A batch \in late : batch \subseteq Dequeued

(***************************************************************************)
(* An event the server has is still held by the sensor only if the sensor  *)
(* has not been told, or is just being told.                               *)
(***************************************************************************)
HeldAndStored == wire # "ok" => Elems(ring) \cap stored \subseteq unconfirmed

IInv ==
    /\ TypeOK
    /\ Windows
    /\ RequestCarriesRing
    /\ OnlyDequeued
    /\ HeldAndStored
    /\ FullRingWasOffered
    /\ DuplicatesOnlyUnconfirmed


-----------------------------------------------------------------------------
(***************************************************************************)
(* Lemmas about the two operators on the ring.                             *)
(***************************************************************************)

\* deque.append keeps the sequence within its maximum length.
LEMMA DequeAppendType ==
    ASSUME NEW s \in Seq(EventId), NEW e \in EventId, Len(s) <= EVENT_CACHE_LENGTH
    PROVE  /\ DequeAppend(s, e) \in Seq(EventId)
           /\ Len(DequeAppend(s, e)) <= EVENT_CACHE_LENGTH
           /\ DequeAppend(s, e) # <<>>
<1>1. CASE Len(s) = EVENT_CACHE_LENGTH
  <2>1. s # <<>>
    BY <1>1
  <2>2. Tail(s) \in Seq(EventId) /\ Len(Tail(s)) = Len(s) - 1
    BY <2>1, HeadTailProperties
  <2>. QED  BY <1>1, <2>2, AppendProperties DEF DequeAppend
<1>2. CASE Len(s) # EVENT_CACHE_LENGTH
  BY <1>2, AppendProperties DEF DequeAppend
<1>. QED  BY <1>1, <1>2

\* Removing a copy of the whole ring empties it.
LEMMA RemoveAllSent ==
    ASSUME NEW s \in Seq(EventId)
    PROVE  RemoveSent(s, s) = <<>>
BY SubSeqEmpty DEF RemoveSent

LEMMA ElemsType ==
    ASSUME NEW s \in Seq(EventId)
    PROVE  Elems(s) \in SUBSET EventId
BY ElementOfSeq DEF Elems

-----------------------------------------------------------------------------
(***************************************************************************)
(* Type correctness (all variables of EventPipeline).                      *)
(***************************************************************************)

LEMMA TypeOKInit == Init => TypeOK
<1>. SUFFICES ASSUME Init PROVE TypeOK
  OBVIOUS
<1>1. <<>> \in Seq(EventId) /\ Len(<<>>) <= EVENT_CACHE_LENGTH
  BY EmptySeq
<1>2. produced \in 0..MaxEvents /\ restarts \in 0..MaxRestarts
  BY DEF Init
<1>3. last_poll \in {"none", "fresh", "stale"}
  BY DEF Init
<1>. QED  BY <1>1, <1>2, <1>3 DEF Init, TypeOK

LEMMA TypeOKNext == TypeOK /\ [Next]_vars => TypeOK'
<1>. SUFFICES ASSUME TypeOK, [Next]_vars PROVE TypeOK'
  OBVIOUS
<1>1. CASE Collect
  <2>1. produced + 1 \in EventId
    BY <1>1 DEF Collect, TypeOK, EventId
  <2>. QED  BY <1>1, <2>1, AppendProperties DEF Collect, TypeOK, server
<1>2. CASE StartProcessor
  BY <1>2 DEF StartProcessor, TypeOK, server, Terminated
<1>3. CASE CheckStop
  BY <1>3 DEF CheckStop, TypeOK, server, Terminated
<1>4. CASE GetEvent
  <2>1. Head(queue) \in EventId /\ Tail(queue) \in Seq(EventId)
    BY <1>4, HeadTailProperties DEF GetEvent, TypeOK
  <2>2. ring' \in Seq(EventId) /\ Len(ring') <= EVENT_CACHE_LENGTH
    BY <1>4, <2>1, DequeAppendType DEF GetEvent, TypeOK
  <2>. QED  BY <1>4, <2>1, <2>2 DEF GetEvent, TypeOK, server
<1>5. CASE GetTimeout
  BY <1>5 DEF GetTimeout, TypeOK, server
<1>6. CASE IsOnlineFirstRead
  BY <1>6 DEF IsOnlineFirstRead, TypeOK, server
<1>7. CASE IsOnlineSecondReadRaises
  BY <1>7 DEF IsOnlineSecondReadRaises, TypeOK, server, Terminated
<1>8. CASE IsOnlineSecondRead
  BY <1>8 DEF IsOnlineSecondRead, TypeOK, server
<1>9. CASE SendEvents
  BY <1>9 DEF SendEvents, TypeOK, server
<1>10. CASE SubmitSucceeded
  <2>1. /\ RemoveSent(ring, send_cand) \in Seq(EventId)
        /\ Len(RemoveSent(ring, send_cand)) <= Len(ring)
    <3>1. \A i \in (Len(send_cand) + 1)..Len(ring) : ring[i] \in EventId
      BY ElementOfSeq DEF TypeOK
    <3>2. Len(send_cand) \in Nat /\ Len(ring) \in Nat
      BY LenProperties DEF TypeOK
    <3>. QED  BY <3>1, <3>2, SubSeqProperties DEF RemoveSent
  <2>2. Len(ring) \in Nat /\ Len(RemoveSent(ring, send_cand)) \in Nat
    BY <2>1, LenProperties DEF TypeOK
  <2>. QED  BY <1>10, <2>1, <2>2 DEF SubmitSucceeded, TypeOK, server
<1>11. CASE SubmitFailed
  BY <1>11 DEF SubmitFailed, TypeOK, server
<1>12. CASE Polling
  <2>1. CASE PollSucceeded
    BY <2>1 DEF PollSucceeded, TypeOK, sensor, server
  <2>2. CASE PollFailed
    BY <2>2 DEF PollFailed, TypeOK, sensor, server
  <2>3. CASE PollExpires
    BY <2>3 DEF PollExpires, TypeOK, sensor, server
  <2>. QED  BY <1>12, <2>1, <2>2, <2>3 DEF Polling
<1>13. CASE ServerAccepts
  <2>1. Elems(send_cand) \in SUBSET EventId
    BY ElemsType DEF TypeOK
  <2>. QED  BY <1>13, <2>1 DEF ServerAccepts, Persist, TypeOK, sensor
<1>14. CASE ServerRejects
  BY <1>14 DEF ServerRejects, TypeOK, sensor, server
<1>15. CASE \E batch \in late : ServerHandlesLate(batch)
  BY <1>15 DEF ServerHandlesLate, Persist, TypeOK, sensor
<1>16. CASE ConnectionBreaks
  <2>1. Elems(send_cand) \in SUBSET EventId
    BY ElemsType DEF TypeOK
  <2>. QED  BY <1>16, <2>1 DEF ConnectionBreaks, TypeOK, sensor
<1>17. CASE Shutdown
  BY <1>17 DEF Shutdown, StopCollector, StopProcessor, TypeOK, server
<1>18. CASE Restart
  <2>1. Elems(send_cand) \in SUBSET EventId
    BY ElemsType DEF TypeOK
  <2>2. <<>> \in Seq(EventId) /\ Len(<<>>) <= EVENT_CACHE_LENGTH
    BY EmptySeq
  <2>3. late' \in SUBSET SUBSET EventId
    BY <1>18, <2>1 DEF Restart, TypeOK
  <2>4. restarts' \in 0..MaxRestarts
    BY <1>18 DEF Restart, TypeOK
  <2>5. last_poll' \in {"none", "fresh", "stale"}
    BY <1>18 DEF Restart
  <2>. QED  BY <1>18, <2>2, <2>3, <2>4, <2>5 DEF Restart, TypeOK
<1>19. CASE UNCHANGED vars
  BY <1>19 DEF vars, server, TypeOK
<1>. QED
  BY <1>1, <1>2, <1>3, <1>4, <1>5, <1>6, <1>7, <1>8, <1>9, <1>10, <1>11, <1>12,
     <1>13, <1>14, <1>15, <1>16, <1>17, <1>18, <1>19
  DEF Next, EventProcessor, Server

(***************************************************************************)
(* Every variable keeps its type; in particular the ring of the event      *)
(* processor never exceeds EVENT_CACHE_LENGTH.                             *)
(***************************************************************************)
THEOREM TypeCorrect == Spec => []TypeOK
BY TypeOKInit, TypeOKNext, PTL DEF Spec

-----------------------------------------------------------------------------
(***************************************************************************)
(* The remaining conjuncts of IInv.  One lemma says which steps disturb    *)
(* the queue and the ring, one which disturb the server.                   *)
(***************************************************************************)

LEMMA BufferSteps ==
    [Next]_vars => \/ Collect \/ GetEvent \/ SubmitSucceeded \/ Restart
                   \/ UNCHANGED <<produced, queue, ring>>
BY DEF Next, vars, EventProcessor, StartProcessor, CheckStop, GetTimeout,
   IsOnlineFirstRead, IsOnlineSecondReadRaises, IsOnlineSecondRead, SendEvents,
   SubmitFailed, Polling, PollSucceeded, PollFailed, PollExpires, Server,
   ServerAccepts, ServerRejects, ServerHandlesLate, ConnectionBreaks, Shutdown,
   StopCollector, StopProcessor, sensor

LEMMA ServerSteps ==
    [Next]_vars => \/ ServerAccepts
                   \/ \E batch \in late : ServerHandlesLate(batch)
                   \/ UNCHANGED <<stored, duplicated, unconfirmed>>
BY DEF Next, vars, EventProcessor, StartProcessor, CheckStop, GetEvent, GetTimeout,
   IsOnlineFirstRead, IsOnlineSecondReadRaises, IsOnlineSecondRead, SendEvents,
   SubmitSucceeded, SubmitFailed, Collect, Polling, PollSucceeded, PollFailed,
   PollExpires, Server, ServerRejects, ConnectionBreaks, Shutdown, StopCollector,
   StopProcessor, Restart, server

\* Steps other than these leave the processor, its buffers and its request alone.
LEMMA RequestSteps ==
    [Next]_vars => \/ EventProcessor \/ ServerAccepts \/ ServerRejects
                   \/ ConnectionBreaks \/ Restart
                   \/ UNCHANGED <<ring, pc, send_cand, wire, offered>>
BY DEF Next, vars, Collect, Polling, PollSucceeded, PollFailed, PollExpires, Server,
   ServerHandlesLate, Shutdown, StopCollector, StopProcessor, sensor

LEMMA GetEventWindows ==
    ASSUME IInv, GetEvent
    PROVE  Windows'
<1>1. /\ queue \in Seq(EventId) /\ queue # <<>> /\ ring \in Seq(EventId)
      /\ queue' = Tail(queue) /\ ring' = DequeAppend(ring, Head(queue))
      /\ produced' = produced /\ produced \in Nat
  BY DEF GetEvent, IInv, TypeOK
<1>2. /\ Tail(queue) \in Seq(EventId) /\ Head(queue) \in EventId
      /\ Len(queue) \in Nat \ {0} /\ Len(Tail(queue)) = Len(queue) - 1
      /\ \A i \in 1..Len(Tail(queue)) : Tail(queue)[i] = queue[i + 1]
      /\ Head(queue) = queue[1]
  BY <1>1, HeadTailProperties, EmptySeq
<1>3. \A i \in 1..Len(queue') : queue'[i] = produced - Len(queue') + i
  <2>. SUFFICES ASSUME NEW i \in 1..Len(queue')
                PROVE  queue'[i] = produced - Len(queue') + i
    OBVIOUS
  <2>1. queue'[i] = queue[i + 1] /\ i + 1 \in 1..Len(queue)
    BY <1>1, <1>2
  <2>. QED  BY <1>1, <1>2, <2>1 DEF IInv, Windows
<1>4. Head(queue) = produced - Len(queue) + 1
  BY <1>1, <1>2 DEF IInv, Windows
<1>5. Len(ring) \in Nat /\ Len(queue') = Len(queue) - 1
  BY <1>1, <1>2, LenProperties
<1>6. CASE Len(ring) = EVENT_CACHE_LENGTH
  <2>1. ring # <<>> /\ Len(ring) >= 1
    BY <1>1, <1>6
  <2>2. Tail(ring) \in Seq(EventId) /\ Len(Tail(ring)) = Len(ring) - 1
    BY <1>1, <2>1, HeadTailProperties
  <2>3. \A i \in 1..Len(Tail(ring)) : Tail(ring)[i] = ring[i + 1]
    BY <1>1, <2>1, HeadTailProperties
  <2>4. ring' = Append(Tail(ring), Head(queue))
    BY <1>1, <1>6 DEF DequeAppend
  <2>5. Len(ring') = Len(ring)
    BY <1>2, <1>5, <2>2, <2>4, AppendProperties
  <2>6. ring'[Len(ring)] = Head(queue)
    BY <1>2, <1>5, <2>2, <2>4, AppendProperties
  <2>7. \A i \in 1..Len(Tail(ring)) : ring'[i] = Tail(ring)[i]
    BY <1>2, <2>2, <2>4, AppendProperties
  <2>8. ASSUME NEW i \in 1..Len(ring')
        PROVE  ring'[i] = produced - Len(queue') - Len(ring') + i
    <3>1. i \in Nat /\ 1 <= i /\ i <= Len(ring)
      BY <1>5, <2>5
    <3>2. CASE i = Len(ring)
      BY <1>1, <1>2, <1>4, <1>5, <2>5, <2>6, <3>1, <3>2
    <3>3. CASE i # Len(ring)
      <4>1. i \in 1..(Len(ring) - 1) /\ i + 1 \in 1..Len(ring)
        BY <1>5, <3>1, <3>3
      <4>2. ring'[i] = ring[i + 1]
        BY <2>2, <2>3, <2>7, <4>1
      <4>3. ring[i + 1] = produced - Len(queue) - Len(ring) + (i + 1)
        BY <4>1 DEF IInv, Windows
      <4>. QED  BY <1>1, <1>2, <1>5, <2>5, <3>1, <4>2, <4>3
    <3>. QED  BY <3>2, <3>3
  <2>. QED  BY <1>1, <1>2, <1>3, <1>5, <2>5, <2>8 DEF IInv, Windows
<1>7. CASE Len(ring) # EVENT_CACHE_LENGTH
  <2>0. ring \in Seq(EventId) /\ Head(queue) \in EventId
    BY <1>1, <1>2
  <2>1. ring' = Append(ring, Head(queue))
    BY <1>1, <1>7 DEF DequeAppend
  <2>2. Len(ring') = Len(ring) + 1
    BY <2>0, <2>1, AppendProperties
  <2>3. ring'[Len(ring) + 1] = Head(queue)
    BY <2>0, <2>1, AppendProperties
  <2>4. \A i \in 1..Len(ring) : ring'[i] = ring[i]
    <3>1. ASSUME NEW i \in 1..Len(ring)
          PROVE  Append(ring, Head(queue))[i] = ring[i]
      BY <2>0
    <3>. QED  BY <2>1, <3>1
  <2>5. ASSUME NEW i \in 1..Len(ring')
        PROVE  ring'[i] = produced - Len(queue') - Len(ring') + i
    <3>1. i \in Nat /\ 1 <= i /\ i <= Len(ring) + 1
      BY <1>5, <2>2
    <3>2. CASE i = Len(ring) + 1
      BY <1>1, <1>2, <1>4, <1>5, <2>2, <2>3, <3>1, <3>2
    <3>3. CASE i # Len(ring) + 1
      <4>1. i \in 1..Len(ring)
        BY <1>5, <3>1, <3>3
      <4>2. ring'[i] = ring[i]
        BY <2>4, <4>1
      <4>3. ring[i] = produced - Len(queue) - Len(ring) + i
        BY <4>1 DEF IInv, Windows
      <4>. QED  BY <1>1, <1>2, <1>5, <2>2, <3>1, <4>2, <4>3
    <3>. QED  BY <3>2, <3>3
  <2>. QED  BY <1>1, <1>2, <1>3, <1>5, <2>2, <2>5 DEF IInv, Windows
<1>. QED  BY <1>6, <1>7

\* After a successful submission the ring is empty.
LEMMA SubmitSucceededEmptiesRing ==
    ASSUME IInv, SubmitSucceeded
    PROVE  ring' = <<>>
BY RemoveAllSent DEF IInv, TypeOK, RequestCarriesRing, SubmitSucceeded

LEMMA WindowsNext == IInv /\ [Next]_vars => Windows'
<1>. SUFFICES ASSUME IInv, [Next]_vars PROVE Windows'
  OBVIOUS
<1>. USE DEF IInv
<1>0. Len(ring) \in Nat /\ Len(queue) \in Nat /\ produced \in Nat
  BY LenProperties DEF TypeOK
<1>1. CASE Collect
  <2>1. queue' = Append(queue, produced + 1) /\ produced' = produced + 1 /\ ring' = ring
    BY <1>1 DEF Collect
  <2>2. produced + 1 \in EventId
    BY <1>0, <1>1 DEF Collect, TypeOK, EventId
  <2>3. /\ Len(queue') = Len(queue) + 1
        /\ \A i \in 1..Len(queue) : queue'[i] = queue[i]
        /\ queue'[Len(queue) + 1] = produced + 1
    BY <2>1, <2>2, AppendProperties DEF TypeOK
  <2>4. \A i \in 1..Len(queue') : queue'[i] = produced' - Len(queue') + i
    BY <1>0, <2>1, <2>3 DEF Windows
  <2>. QED  BY <1>0, <2>1, <2>3, <2>4 DEF Windows
<1>2. CASE GetEvent
  BY <1>2, GetEventWindows
<1>3. CASE SubmitSucceeded
  <2>1. ring' = <<>> /\ UNCHANGED <<produced, queue>>
    BY <1>3, SubmitSucceededEmptiesRing DEF SubmitSucceeded
  <2>. QED  BY <1>0, <2>1, EmptySeq DEF Windows
<1>4. CASE Restart
  BY <1>0, <1>4, EmptySeq DEF Restart, Windows
<1>5. CASE UNCHANGED <<produced, queue, ring>>
  BY <1>5 DEF Windows
<1>. QED  BY <1>1, <1>2, <1>3, <1>4, <1>5, BufferSteps

LEMMA DequeAppendElems ==
    ASSUME NEW s \in Seq(EventId), NEW e \in EventId
    PROVE  Elems(DequeAppend(s, e)) \subseteq Elems(s) \cup {e}
<1>0. Len(s) \in Nat
  BY LenProperties
<1>1. CASE Len(s) = EVENT_CACHE_LENGTH
  <2>1. s # <<>>
    BY <1>1
  <2>2. Tail(s) \in Seq(EventId) /\ Len(Tail(s)) = Len(s) - 1
    BY <2>1, HeadTailProperties
  <2>3. \A i \in 1..Len(Tail(s)) : Tail(s)[i] = s[i + 1]
    BY <2>1, HeadTailProperties
  <2>4. DequeAppend(s, e) = Append(Tail(s), e)
    BY <1>1 DEF DequeAppend
  <2>5. Len(DequeAppend(s, e)) = Len(s)
    BY <1>0, <2>2, <2>4, AppendProperties
  <2>6. ASSUME NEW i \in 1..Len(DequeAppend(s, e))
        PROVE  DequeAppend(s, e)[i] \in Elems(s) \cup {e}
    <3>1. i \in 1..Len(s)
      BY <2>5
    <3>2. CASE i = Len(s)
      BY <1>0, <2>2, <2>4, <3>2, AppendProperties
    <3>3. CASE i # Len(s)
      <4>1. i \in 1..(Len(s) - 1) /\ i + 1 \in 1..Len(s)
        BY <1>0, <3>1, <3>3
      <4>2. DequeAppend(s, e)[i] = s[i + 1]
        BY <2>2, <2>3, <2>4, <4>1, AppendProperties
      <4>. QED  BY <4>1, <4>2 DEF Elems
    <3>. QED  BY <3>2, <3>3
  <2>. QED  BY <2>6 DEF Elems
<1>2. CASE Len(s) # EVENT_CACHE_LENGTH
  <2>1. DequeAppend(s, e) = Append(s, e)
    BY <1>2 DEF DequeAppend
  <2>2. ASSUME NEW i \in 1..Len(Append(s, e))
        PROVE  Append(s, e)[i] \in Elems(s) \cup {e}
    <3>1. i \in 1..(Len(s) + 1)
      BY AppendProperties
    <3>2. CASE i = Len(s) + 1
      BY <3>2, AppendProperties
    <3>3. CASE i # Len(s) + 1
      <4>1. i \in 1..Len(s)
        BY <1>0, <3>1, <3>3
      <4>. QED  BY <4>1, AppendProperties DEF Elems
    <3>. QED  BY <3>2, <3>3
  <2>. QED  BY <2>1, <2>2 DEF Elems
<1>. QED  BY <1>1, <1>2

LEMMA ElemsEmpty == Elems(<<>>) = {}
BY DEF Elems

\* What the ring holds has left the queue, what the queue holds has not.
LEMMA WindowsDisjoint ==
    ASSUME IInv
    PROVE  /\ Elems(ring) \subseteq Dequeued
           /\ Elems(queue) \cap Dequeued = {}
           /\ Len(queue) \in Nat /\ Len(ring) \in Nat /\ produced \in Nat
<1>. USE DEF IInv
<1>1. Len(ring) \in Nat /\ Len(queue) \in Nat /\ produced \in Nat
  BY LenProperties DEF TypeOK
<1>2. ASSUME NEW i \in 1..Len(ring)
      PROVE  ring[i] \in Dequeued
  <2>1. ring[i] = produced - Len(queue) - Len(ring) + i
    BY DEF Windows
  <2>2. Len(ring) + Len(queue) <= produced
    BY DEF Windows
  <2>. QED  BY <1>1, <2>1, <2>2 DEF Dequeued
<1>3. ASSUME NEW i \in 1..Len(queue)
      PROVE  queue[i] \notin Dequeued
  <2>1. queue[i] = produced - Len(queue) + i
    BY DEF Windows
  <2>. QED  BY <1>1, <2>1 DEF Dequeued
<1>. QED  BY <1>1, <1>2, <1>3 DEF Elems

LEMMA RequestCarriesRingNext == IInv /\ [Next]_vars => RequestCarriesRing'
<1>. SUFFICES ASSUME IInv, [Next]_vars PROVE RequestCarriesRing'
  OBVIOUS
<1>. USE DEF IInv, RequestCarriesRing
<1>1. stored \subseteq stored'
  BY ServerSteps DEF ServerAccepts, ServerHandlesLate, Persist
<1>2. CASE StartProcessor
  BY <1>1, <1>2 DEF StartProcessor
<1>3. CASE CheckStop
  BY <1>1, <1>3 DEF CheckStop
<1>4. CASE GetEvent
  BY <1>1, <1>4 DEF GetEvent
<1>5. CASE GetTimeout
  BY <1>1, <1>5 DEF GetTimeout
<1>6. CASE IsOnlineFirstRead
  BY <1>1, <1>6 DEF IsOnlineFirstRead
<1>7. CASE IsOnlineSecondReadRaises \/ IsOnlineSecondRead
  BY <1>1, <1>7 DEF IsOnlineSecondReadRaises, IsOnlineSecondRead
<1>8. CASE SendEvents
  BY <1>1, <1>8 DEF SendEvents
<1>9. CASE SubmitSucceeded
  BY <1>1, <1>9 DEF SubmitSucceeded
<1>10. CASE SubmitFailed
  BY <1>1, <1>10 DEF SubmitFailed
<1>11. CASE ServerAccepts
  BY <1>11 DEF ServerAccepts, Persist, sensor
<1>12. CASE ServerRejects
  BY <1>1, <1>12 DEF ServerRejects, sensor
<1>13. CASE ConnectionBreaks
  BY <1>1, <1>13 DEF ConnectionBreaks, sensor
<1>14. CASE Restart
  BY <1>14 DEF Restart
<1>15. CASE UNCHANGED <<ring, pc, send_cand, wire, offered>>
  BY <1>1, <1>15
<1>. QED
  BY <1>2, <1>3, <1>4, <1>5, <1>6, <1>7, <1>8, <1>9, <1>10, <1>11, <1>12, <1>13,
     <1>14, <1>15, RequestSteps DEF EventProcessor

LEMMA FullRingWasOfferedNext == IInv /\ [Next]_vars => FullRingWasOffered'
<1>. SUFFICES ASSUME IInv, [Next]_vars PROVE FullRingWasOffered'
  OBVIOUS
<1>. USE DEF IInv, FullRingWasOffered
<1>1. CASE StartProcessor
  BY <1>1, EmptySeq DEF StartProcessor, RequestCarriesRing
<1>2. CASE CheckStop
  BY <1>2 DEF CheckStop
<1>3. CASE GetEvent
  BY <1>3 DEF GetEvent
<1>4. CASE GetTimeout \/ IsOnlineFirstRead \/ IsOnlineSecondReadRaises
           \/ IsOnlineSecondRead \/ SendEvents
  BY <1>4 DEF GetTimeout, IsOnlineFirstRead, IsOnlineSecondReadRaises,
     IsOnlineSecondRead, SendEvents
<1>5. CASE SubmitSucceeded
  BY <1>5, SubmitSucceededEmptiesRing, EmptySeq
<1>6. CASE SubmitFailed
  BY <1>6 DEF SubmitFailed
<1>7. CASE ServerAccepts \/ ServerRejects \/ ConnectionBreaks
  BY <1>7 DEF ServerAccepts, ServerRejects, ConnectionBreaks, sensor
<1>8. CASE Restart
  BY <1>8, EmptySeq DEF Restart
<1>9. CASE UNCHANGED <<ring, pc, send_cand, wire, offered>>
  BY <1>9
<1>. QED
  BY <1>1, <1>2, <1>3, <1>4, <1>5, <1>6, <1>7, <1>8, <1>9, RequestSteps
  DEF EventProcessor

LEMMA LateSteps ==
    [Next]_vars => \/ ConnectionBreaks \/ Restart
                   \/ \E batch \in late : ServerHandlesLate(batch)
                   \/ UNCHANGED late
BY DEF Next, vars, EventProcessor, StartProcessor, CheckStop, GetEvent, GetTimeout,
   IsOnlineFirstRead, IsOnlineSecondReadRaises, IsOnlineSecondRead, SendEvents,
   SubmitSucceeded, SubmitFailed, Collect, Polling, PollSucceeded, PollFailed,
   PollExpires, Server, ServerAccepts, ServerRejects, Shutdown, StopCollector,
   StopProcessor, server

\* A request under way carries events that have left the queue.
LEMMA RequestDequeued ==
    ASSUME IInv, wire = "sent"
    PROVE  send_cand = ring /\ Elems(send_cand) \subseteq Dequeued
BY WindowsDisjoint DEF IInv, RequestCarriesRing

LEMMA OnlyDequeuedNext == IInv /\ [Next]_vars => OnlyDequeued'
<1>. SUFFICES ASSUME IInv, [Next]_vars PROVE OnlyDequeued'
  OBVIOUS
<1>1. Dequeued \subseteq Dequeued'
  <2>0. /\ queue \in Seq(EventId) /\ produced \in Nat
        /\ Len(queue) \in Nat
    BY LenProperties DEF IInv, TypeOK
  <2>1. CASE Collect
    <3>1. Len(queue') = Len(queue) + 1 /\ produced' = produced + 1
      BY <2>0, <2>1, AppendProperties DEF Collect, EventId
    <3>. QED  BY <2>0, <3>1 DEF Dequeued
  <2>2. CASE GetEvent
    <3>1. Len(queue') = Len(queue) - 1 /\ produced' = produced
      BY <2>0, <2>2, HeadTailProperties DEF GetEvent
    <3>. QED  BY <2>0, <3>1 DEF Dequeued
  <2>3. CASE SubmitSucceeded \/ UNCHANGED <<produced, queue, ring>>
    BY <2>3 DEF SubmitSucceeded, Dequeued
  <2>4. CASE Restart
    <3>1. Len(queue') = 0 /\ produced' = produced
      BY <2>4, EmptySeq DEF Restart
    <3>. QED  BY <2>0, <3>1 DEF Dequeued
  <2>. QED  BY <2>1, <2>2, <2>3, <2>4, BufferSteps
<1>2. stored' \subseteq Dequeued
  <2>1. CASE ServerAccepts
    <3>1. wire = "sent" /\ stored' = stored \cup Elems(send_cand)
      BY <2>1 DEF ServerAccepts, Persist
    <3>. QED  BY <3>1, RequestDequeued DEF IInv, OnlyDequeued
  <2>2. CASE \E batch \in late : ServerHandlesLate(batch)
    BY <2>2 DEF ServerHandlesLate, Persist, IInv, OnlyDequeued
  <2>3. CASE UNCHANGED <<stored, duplicated, unconfirmed>>
    BY <2>3 DEF IInv, OnlyDequeued
  <2>. QED  BY <2>1, <2>2, <2>3, ServerSteps
<1>3. \A batch \in late' : batch \subseteq Dequeued
  <2>1. CASE ConnectionBreaks
    <3>1. wire = "sent" /\ late' \subseteq late \cup {Elems(send_cand)}
      BY <2>1 DEF ConnectionBreaks
    <3>. QED  BY <3>1, RequestDequeued DEF IInv, OnlyDequeued
  <2>2. CASE Restart
    <3>1. \/ late' = late
          \/ wire = "sent" /\ late' \subseteq late \cup {Elems(send_cand)}
      BY <2>2 DEF Restart
    <3>. QED  BY <3>1, RequestDequeued DEF IInv, OnlyDequeued
  <2>3. CASE (\E batch \in late : ServerHandlesLate(batch)) \/ UNCHANGED late
    BY <2>3 DEF ServerHandlesLate, IInv, OnlyDequeued
  <2>. QED  BY <2>1, <2>2, <2>3, LateSteps
<1>. QED  BY <1>1, <1>2, <1>3 DEF OnlyDequeued

\* A confirmation is pending only until it arrives.
LEMMA ConfirmationPending ==
    ASSUME IInv, [Next]_vars, wire = "ok"
    PROVE  wire' = "ok" \/ ring' = <<>>
<1>1. CASE SubmitSucceeded
  BY <1>1, SubmitSucceededEmptiesRing
<1>2. CASE Restart
  BY <1>2 DEF Restart
<1>3. CASE EventProcessor /\ ~ SubmitSucceeded
  BY <1>3 DEF EventProcessor, StartProcessor, CheckStop, GetEvent, GetTimeout,
     IsOnlineFirstRead, IsOnlineSecondReadRaises, IsOnlineSecondRead, SendEvents,
     SubmitFailed, IInv, RequestCarriesRing
<1>4. CASE ServerAccepts \/ ServerRejects \/ ConnectionBreaks
  BY <1>4 DEF ServerAccepts, ServerRejects, ConnectionBreaks
<1>5. CASE UNCHANGED <<ring, pc, send_cand, wire, offered>>
  BY <1>5
<1>. QED  BY <1>1, <1>2, <1>3, <1>4, <1>5, RequestSteps

LEMMA HeldAndStoredNext == IInv /\ [Next]_vars => HeldAndStored'
<1>. SUFFICES ASSUME IInv, [Next]_vars, wire' # "ok", ring' # <<>>,
                     NEW e \in Elems(ring') \cap stored'
              PROVE  e \in unconfirmed'
  BY ElemsEmpty DEF HeldAndStored
<1>1. wire # "ok"
  BY ConfirmationPending
<1>2. Elems(ring) \cap stored \subseteq unconfirmed
  BY <1>1 DEF IInv, HeldAndStored
<1>3. unconfirmed \subseteq unconfirmed'
  BY ServerSteps DEF ServerAccepts, ServerHandlesLate
<1>4. CASE e \in stored
  <2>1. e \in Dequeued
    BY <1>4 DEF IInv, OnlyDequeued
  <2>2. e \in Elems(ring)
    <3>1. CASE GetEvent
      <4>1. queue \in Seq(EventId) /\ queue # <<>> /\ ring \in Seq(EventId)
        BY <3>1 DEF GetEvent, IInv, TypeOK
      <4>2. Head(queue) \in EventId /\ Head(queue) \in Elems(queue)
        BY <4>1, HeadTailProperties, EmptySeq, LenProperties DEF Elems
      <4>3. Elems(ring') \subseteq Elems(ring) \cup {Head(queue)}
        BY <3>1, <4>1, <4>2, DequeAppendElems DEF GetEvent
      <4>. QED  BY <2>1, <4>2, <4>3, WindowsDisjoint
    <3>2. CASE Collect \/ UNCHANGED <<produced, queue, ring>>
      BY <3>2 DEF Collect
    <3>3. CASE SubmitSucceeded \/ Restart
      BY <3>3, SubmitSucceededEmptiesRing DEF Restart
    <3>. QED  BY <3>1, <3>2, <3>3, BufferSteps
  <2>. QED  BY <1>2, <1>3, <1>4, <2>2
<1>5. CASE e \notin stored
  <2>1. CASE ServerAccepts
    <3>1. e \in Elems(send_cand)
      BY <1>5, <2>1 DEF ServerAccepts, Persist
    <3>. QED  BY <2>1, <3>1 DEF ServerAccepts
  <2>2. CASE \E batch \in late : ServerHandlesLate(batch)
    BY <1>5, <2>2 DEF ServerHandlesLate, Persist
  <2>3. CASE UNCHANGED <<stored, duplicated, unconfirmed>>
    BY <1>5, <2>3
  <2>. QED  BY <2>1, <2>2, <2>3, ServerSteps
<1>. QED  BY <1>4, <1>5

LEMMA DuplicatesNext == IInv /\ [Next]_vars => DuplicatesOnlyUnconfirmed'
<1>. SUFFICES ASSUME IInv, [Next]_vars PROVE DuplicatesOnlyUnconfirmed'
  OBVIOUS
<1>1. duplicated \subseteq unconfirmed
  BY DEF IInv, DuplicatesOnlyUnconfirmed
<1>2. CASE ServerAccepts
  <2>1. wire = "sent"
    BY <1>2 DEF ServerAccepts
  <2>2. stored \cap Elems(send_cand) \subseteq unconfirmed
    BY <2>1, RequestDequeued DEF IInv, HeldAndStored
  <2>. QED  BY <1>1, <1>2, <2>2 DEF ServerAccepts, Persist, DuplicatesOnlyUnconfirmed
<1>3. CASE \E batch \in late : ServerHandlesLate(batch)
  BY <1>1, <1>3 DEF ServerHandlesLate, Persist, DuplicatesOnlyUnconfirmed
<1>4. CASE UNCHANGED <<stored, duplicated, unconfirmed>>
  BY <1>1, <1>4 DEF DuplicatesOnlyUnconfirmed
<1>. QED  BY <1>2, <1>3, <1>4, ServerSteps

-----------------------------------------------------------------------------
(***************************************************************************)
(* The inductive invariant and what follows from it.                       *)
(***************************************************************************)

LEMMA IInvInit == Init => IInv
<1>. SUFFICES ASSUME Init PROVE IInv
  OBVIOUS
<1>1. TypeOK
  BY TypeOKInit
<1>2. Windows
  BY EmptySeq DEF Init, Windows
<1>3. RequestCarriesRing
  BY DEF Init, RequestCarriesRing
<1>4. OnlyDequeued /\ HeldAndStored
  BY DEF Init, OnlyDequeued, HeldAndStored
<1>5. FullRingWasOffered /\ DuplicatesOnlyUnconfirmed
  BY DEF Init, FullRingWasOffered, DuplicatesOnlyUnconfirmed
<1>. QED  BY <1>1, <1>2, <1>3, <1>4, <1>5 DEF IInv

LEMMA IInvNext == IInv /\ [Next]_vars => IInv'
<1>. SUFFICES ASSUME IInv, [Next]_vars PROVE IInv'
  OBVIOUS
<1>1. TypeOK'
  BY TypeOKNext DEF IInv
<1>. QED
  BY <1>1, WindowsNext, RequestCarriesRingNext, OnlyDequeuedNext, HeldAndStoredNext,
     FullRingWasOfferedNext, DuplicatesNext
  DEF IInv

LEMMA IInvHolds == Spec => []IInv
BY IInvInit, IInvNext, PTL DEF Spec

\* The two windows, one after the other, are the window of what is held.
LEMMA WindowsConcatenate == IInv => HeldIsWindow
<1>. SUFFICES ASSUME IInv, NEW i \in 1..Len(Held)
              PROVE  Held[i] = produced - Len(Held) + i
  BY DEF HeldIsWindow
<1>. USE DEF IInv
<1>1. ring \in Seq(EventId) /\ queue \in Seq(EventId)
  BY DEF TypeOK
<1>2. Len(ring) \in Nat /\ Len(queue) \in Nat /\ produced \in Nat
  BY WindowsDisjoint
<1>3. Len(Held) = Len(ring) + Len(queue)
  BY <1>1, ConcatProperties DEF Held
<1>4. CASE i <= Len(ring)
  <2>1. i \in 1..Len(ring)
    BY <1>2, <1>3, <1>4
  <2>2. Held[i] = ring[i]
    BY <1>1, <1>2, <1>3, <1>4, ConcatProperties DEF Held
  <2>3. ring[i] = produced - Len(queue) - Len(ring) + i
    BY <2>1 DEF Windows
  <2>. QED  BY <1>2, <1>3, <2>1, <2>2, <2>3
<1>5. CASE ~ (i <= Len(ring))
  <2>1. i - Len(ring) \in 1..Len(queue) /\ i \in Nat
    BY <1>2, <1>3, <1>5
  <2>2. Held[i] = queue[i - Len(ring)]
    BY <1>1, <1>2, <1>3, <1>5, ConcatProperties DEF Held
  <2>3. queue[i - Len(ring)] = produced - Len(queue) + (i - Len(ring))
    BY <2>1 DEF Windows
  <2>. QED  BY <1>2, <1>3, <2>1, <2>2, <2>3
<1>. QED  BY <1>4, <1>5

(***************************************************************************)
(* What the sensor holds is always an unbroken run of the acknowledged     *)
(* events up to the newest: the event processor never reorders events and  *)
(* never drops one while it keeps an older one.                            *)
(***************************************************************************)
THEOREM HeldIsWindowHolds == Spec => []HeldIsWindow
BY IInvHolds, WindowsConcatenate, PTL

(***************************************************************************)
(* Before an event is overwritten, the ring was offered to the server.     *)
(***************************************************************************)
THEOREM FullRingWasOfferedHolds == Spec => []FullRingWasOffered
<1>1. IInv => FullRingWasOffered
  BY DEF IInv
<1>. QED  BY <1>1, IInvHolds, PTL

(***************************************************************************)
(* The server has an event twice only if it once accepted the event        *)
(* without the sensor being told.                                          *)
(***************************************************************************)
THEOREM DuplicatesOnlyUnconfirmedHolds == Spec => []DuplicatesOnlyUnconfirmed
<1>1. IInv => DuplicatesOnlyUnconfirmed
  BY DEF IInv
<1>. QED  BY <1>1, IInvHolds, PTL

-----------------------------------------------------------------------------
(***************************************************************************)
(* The pipeline implements EventDelivery.  The invariant this needs says   *)
(* that a request the sensor gave up on cannot make an event overtake an   *)
(* older one: it carried the whole ring, and whatever the sensor has taken *)
(* in since is newer.                                                      *)
(***************************************************************************)
NoOvertaking ==
    \A batch \in late : \A f \in batch, e \in Elems(Held) : e < f => e \in batch

\* The events of s are consecutive, up to p.
IsWindow(s, p) == \A i \in 1..Len(s) : s[i] = p - Len(s) + i

\* What is held is the ring followed by the queue.
HeldShape ==
    /\ ring \in Seq(EventId) /\ queue \in Seq(EventId) /\ Held \in Seq(EventId)
    /\ Len(ring) \in Nat /\ Len(queue) \in Nat /\ produced \in Nat
    /\ Len(Held) = Len(ring) + Len(queue)
    /\ Len(Held) <= produced
    /\ IsWindow(Held, produced)

LEMMA HeldFacts == IInv => HeldShape
<1>. SUFFICES ASSUME IInv PROVE HeldShape
  OBVIOUS
<1>1. ring \in Seq(EventId) /\ queue \in Seq(EventId)
  BY DEF IInv, TypeOK
<1>2. Len(ring) \in Nat /\ Len(queue) \in Nat /\ produced \in Nat
  BY WindowsDisjoint
<1>3. Held \in Seq(EventId) /\ Len(Held) = Len(ring) + Len(queue)
  BY <1>1, ConcatProperties DEF Held
<1>4. Len(Held) <= produced
  BY <1>3 DEF IInv, Windows
<1>. QED  BY <1>1, <1>2, <1>3, <1>4, WindowsConcatenate
          DEF HeldIsWindow, HeldShape, IsWindow

LEMMA HeldFactsNext == IInv' => HeldShape'
BY HeldFacts, PTL

\* The events held are those after the ones that have left.
HeldEvents == Elems(Held) = (produced - Len(Held) + 1)..produced

LEMMA HeldElems == IInv => HeldEvents
<1>. SUFFICES ASSUME IInv PROVE HeldEvents
  OBVIOUS
<1>. USE HeldFacts DEF HeldShape, IsWindow
<1>1. ASSUME NEW i \in 1..Len(Held)
      PROVE  Held[i] \in (produced - Len(Held) + 1)..produced
  <2>1. i \in Nat /\ 1 <= i /\ i <= Len(Held) /\ Len(Held) \in Nat
    OBVIOUS
  <2>2. Held[i] = produced - Len(Held) + i
    OBVIOUS
  <2>. QED  BY <2>1, <2>2
<1>2. ASSUME NEW e \in (produced - Len(Held) + 1)..produced
      PROVE  \E i \in 1..Len(Held) : Held[i] = e
  <2>1. e - (produced - Len(Held)) \in 1..Len(Held)
    OBVIOUS
  <2>2. Held[e - (produced - Len(Held))] = e
    BY <2>1
  <2>. QED  BY <2>1, <2>2
<1>. QED  BY <1>1, <1>2 DEF HeldEvents, Elems

LEMMA HeldElemsNext == IInv' => HeldEvents'
BY HeldElems, PTL

\* Two sequences that are windows of the same length up to the same event are equal.
LEMMA SameWindow ==
    ASSUME NEW s \in Seq(EventId), NEW t \in Seq(EventId), NEW p \in Nat,
           Len(s) = Len(t),
           IsWindow(s, p), IsWindow(t, p)
    PROVE  s = t
<1>1. \A i \in 1..Len(s) : s[i] = t[i]
  BY DEF IsWindow
<1>. QED  BY <1>1, SeqEqual

\* A window without its first n events is the window of the rest.
LEMMA DropFirst ==
    ASSUME NEW s \in Seq(EventId), NEW p \in Nat, NEW n \in 1..Len(s),
           IsWindow(s, p)
    PROVE  /\ SubSeq(s, n + 1, Len(s)) \in Seq(EventId)
           /\ Len(SubSeq(s, n + 1, Len(s))) = Len(s) - n
           /\ IsWindow(SubSeq(s, n + 1, Len(s)), p)
<1>1. Len(s) \in Nat /\ n \in Nat /\ n <= Len(s)
  BY LenProperties
<1>2. \A i \in (n + 1)..Len(s) : s[i] \in EventId
  BY <1>1, ElementOfSeq
<1>3. /\ SubSeq(s, n + 1, Len(s)) \in Seq(EventId)
      /\ Len(SubSeq(s, n + 1, Len(s))) =
            IF n + 1 <= Len(s) THEN Len(s) - (n + 1) + 1 ELSE 0
      /\ \A i \in 1..(Len(s) - (n + 1) + 1) :
            SubSeq(s, n + 1, Len(s))[i] = s[(n + 1) + i - 1]
  BY <1>1, <1>2, SubSeqProperties
<1>4. ASSUME NEW i \in 1..(Len(s) - n)
      PROVE  SubSeq(s, n + 1, Len(s))[i] = p - (Len(s) - n) + i
  <2>1. i \in 1..(Len(s) - (n + 1) + 1) /\ n + i \in 1..Len(s) /\ (n + 1) + i - 1 = n + i
    BY <1>1
  <2>2. SubSeq(s, n + 1, Len(s))[i] = s[n + i]
    BY <1>3, <2>1
  <2>. QED  BY <1>1, <2>1, <2>2 DEF IsWindow
<1>5. Len(SubSeq(s, n + 1, Len(s))) = Len(s) - n
  BY <1>1, <1>3
<1>. QED  BY <1>3, <1>4, <1>5 DEF IsWindow

\* The steps that change what is held, as seen from outside.
LEMMA HeldSteps ==
    ASSUME IInv, IInv', [Next]_vars
    PROVE  \/ Collect /\ Held' = Append(Held, produced + 1) /\ produced' = produced + 1
           \/ /\ GetEvent /\ Len(Held) > EVENT_CACHE_LENGTH
              /\ Held' = Tail(Held) /\ produced' = produced
           \/ /\ SubmitSucceeded /\ Len(ring) \in 1..Len(Held)
              /\ Held' = SubSeq(Held, Len(ring) + 1, Len(Held)) /\ produced' = produced
           \/ Restart /\ Held' = <<>> /\ produced' = produced
           \/ UNCHANGED <<Held, produced>>
<1>. USE DEF HeldShape
<1>a. HeldShape /\ HeldShape'
  BY HeldFacts, HeldFactsNext
<1>b. /\ ring \in Seq(EventId) /\ queue \in Seq(EventId) /\ Held \in Seq(EventId)
      /\ Len(ring) \in Nat /\ Len(queue) \in Nat /\ produced \in Nat
      /\ Len(Held) = Len(ring) + Len(queue)
      /\ IsWindow(Held, produced)
  BY <1>a
<1>c. /\ Held' \in Seq(EventId) /\ produced' \in Nat
      /\ Len(Held') = Len(ring') + Len(queue')
      /\ Len(ring') \in Nat /\ Len(queue') \in Nat
      /\ IsWindow(Held', produced')
  BY <1>a
<1>1. CASE Collect
  <2>1. queue' = Append(queue, produced + 1) /\ produced' = produced + 1 /\ ring' = ring
    BY <1>1 DEF Collect
  <2>2. produced + 1 \in EventId
    BY <1>b, <1>1 DEF Collect, EventId, IInv, TypeOK
  <2>3. Len(queue') = Len(queue) + 1
    BY <1>b, <2>1, <2>2, AppendProperties
  <2>4. /\ Append(Held, produced + 1) \in Seq(EventId)
        /\ Len(Append(Held, produced + 1)) = Len(Held) + 1
        /\ \A i \in 1..Len(Held) : Append(Held, produced + 1)[i] = Held[i]
        /\ Append(Held, produced + 1)[Len(Held) + 1] = produced + 1
    BY <1>b, <2>2, AppendProperties
  <2>5. Len(Held') = Len(Held) + 1
    BY <1>b, <1>c, <2>1, <2>3
  <2>6. IsWindow(Append(Held, produced + 1), produced + 1)
    <3>. SUFFICES ASSUME NEW i \in 1..(Len(Held) + 1)
                  PROVE  Append(Held, produced + 1)[i] = (produced + 1) - (Len(Held) + 1) + i
      BY <2>4 DEF IsWindow
    <3>1. CASE i = Len(Held) + 1
      BY <1>b, <2>4, <3>1
    <3>2. CASE i # Len(Held) + 1
      <4>1. i \in 1..Len(Held) /\ Len(Held) \in Nat
        BY <1>b, <3>2
      <4>2. Held[i] = produced - Len(Held) + i
        BY <1>b, <4>1 DEF IsWindow
      <4>. QED  BY <1>b, <2>4, <4>1, <4>2
    <3>. QED  BY <3>1, <3>2
  <2>7. Held' = Append(Held, produced + 1)
    BY <1>b, <1>c, <2>1, <2>4, <2>5, <2>6, SameWindow
  <2>. QED  BY <1>1, <2>1, <2>7
<1>2. CASE GetEvent
  <2>1. /\ queue # <<>> /\ queue' = Tail(queue) /\ produced' = produced
        /\ ring' = DequeAppend(ring, Head(queue))
    BY <1>2 DEF GetEvent
  <2>2. Len(queue') = Len(queue) - 1 /\ Head(queue) \in EventId /\ Len(queue) >= 1
    BY <1>b, <2>1, HeadTailProperties, EmptySeq
  <2>3. CASE Len(ring) = EVENT_CACHE_LENGTH
    <3>1. ring # <<>> /\ Tail(ring) \in Seq(EventId) /\ Len(Tail(ring)) = Len(ring) - 1
      <4>1. ring # <<>>
        BY <2>3
      <4>. QED  BY <1>b, <4>1, HeadTailProperties
    <3>2. Len(ring') = Len(ring)
      BY <1>b, <2>1, <2>2, <2>3, <3>1, AppendProperties DEF DequeAppend
    <3>3. Len(Held') = Len(Held) - 1 /\ Len(Held) > EVENT_CACHE_LENGTH
      BY <1>b, <1>c, <2>2, <2>3, <3>2
    <3>4. /\ Tail(Held) \in Seq(EventId) /\ Len(Tail(Held)) = Len(Held) - 1
          /\ \A i \in 1..Len(Tail(Held)) : Tail(Held)[i] = Held[i + 1]
      <4>1. Held # <<>>
        BY <1>b, <3>3
      <4>. QED  BY <1>b, <4>1, HeadTailProperties
    <3>5. IsWindow(Tail(Held), produced)
      <4>. SUFFICES ASSUME NEW i \in 1..Len(Tail(Held))
                    PROVE  Tail(Held)[i] = produced - Len(Tail(Held)) + i
        BY DEF IsWindow
      <4>1. i \in Nat /\ i + 1 \in 1..Len(Held)
        BY <1>b, <3>4
      <4>2. Tail(Held)[i] = Held[i + 1]
        BY <3>4
      <4>3. Held[i + 1] = produced - Len(Held) + (i + 1)
        BY <1>b, <4>1 DEF IsWindow
      <4>. QED  BY <1>b, <3>4, <4>1, <4>2, <4>3
    <3>6. Held' = Tail(Held)
      BY <1>b, <1>c, <2>1, <3>3, <3>4, <3>5, SameWindow
    <3>. QED  BY <1>2, <2>1, <3>3, <3>6
  <2>4. CASE Len(ring) # EVENT_CACHE_LENGTH
    <3>1. Len(ring') = Len(ring) + 1
      BY <1>b, <2>1, <2>2, <2>4, AppendProperties DEF DequeAppend
    <3>2. Len(Held') = Len(Held)
      BY <1>b, <1>c, <2>2, <3>1
    <3>3. Held' = Held
      BY <1>b, <1>c, <2>1, <3>2, SameWindow
    <3>. QED  BY <2>1, <3>3
  <2>. QED  BY <2>3, <2>4
<1>3. CASE SubmitSucceeded
  <2>1. ring' = <<>> /\ queue' = queue /\ produced' = produced
    BY <1>3, SubmitSucceededEmptiesRing DEF SubmitSucceeded
  <2>2. Len(Held') = Len(queue)
    BY <1>b, <1>c, <2>1, EmptySeq
  <2>3. CASE ring = <<>>
    <3>1. Held' = Held
      BY <2>1, <2>3 DEF Held
    <3>. QED  BY <2>1, <3>1
  <2>4. CASE ring # <<>>
    <3>1. Len(ring) \in 1..Len(Held) /\ Len(Held) - Len(ring) = Len(queue)
      BY <1>b, <2>4, EmptySeq
    <3>2. /\ SubSeq(Held, Len(ring) + 1, Len(Held)) \in Seq(EventId)
          /\ Len(SubSeq(Held, Len(ring) + 1, Len(Held))) = Len(queue)
          /\ IsWindow(SubSeq(Held, Len(ring) + 1, Len(Held)), produced)
      BY <1>b, <3>1, DropFirst
    <3>3. Held' = SubSeq(Held, Len(ring) + 1, Len(Held))
      BY <1>b, <1>c, <2>1, <2>2, <3>2, SameWindow
    <3>. QED  BY <1>3, <2>1, <3>1, <3>3
  <2>. QED  BY <2>3, <2>4
<1>4. CASE Restart
  <2>1. Held' = <<>>
    <3>1. ring' = <<>> /\ queue' = <<>>
      BY <1>4 DEF Restart
    <3>2. Len(Held') = 0
      BY <1>b, <1>c, <3>1, EmptySeq
    <3>. QED  BY <1>b, <1>c, <3>2, EmptySeq
  <2>. QED  BY <1>4, <2>1 DEF Restart
<1>5. CASE UNCHANGED <<produced, queue, ring>>
  BY <1>5 DEF Held
<1>. QED  BY <1>1, <1>2, <1>3, <1>4, <1>5, BufferSteps

\* What is held and has left the queue is in the ring.
LEMMA DequeuedIsRing ==
    ASSUME IInv, NEW e \in Elems(Held), NEW f \in Dequeued, e <= f
    PROVE  e \in Elems(ring)
<1>1. /\ e \in (produced - Len(Held) + 1)..produced
      /\ Len(Held) = Len(ring) + Len(queue) /\ Len(Held) <= produced
      /\ produced \in Nat /\ Len(ring) \in Nat /\ Len(queue) \in Nat /\ Len(Held) \in Nat
  BY HeldElems, HeldFacts, LenProperties DEF HeldEvents, HeldShape
<1>. DEFINE i == e - (produced - Len(Held))
<1>2. i \in 1..Len(ring)
  BY <1>1 DEF Dequeued
<1>3. ring[i] = produced - Len(queue) - Len(ring) + i
  BY <1>2 DEF IInv, Windows
<1>4. ring[i] = e
  BY <1>1, <1>3
<1>. QED  BY <1>2, <1>4 DEF Elems

LEMMA NoOvertakingInit == Init => NoOvertaking
BY DEF Init, NoOvertaking

LEMMA NoOvertakingNext ==
    ASSUME IInv, IInv', NoOvertaking, [Next]_vars
    PROVE  NoOvertaking'
<1>1. /\ Elems(Held) = (produced - Len(Held) + 1)..produced
      /\ Len(Held) \in Nat /\ produced \in Nat /\ Len(queue) \in Nat
      /\ Len(Held) <= produced /\ Len(Held) = Len(ring) + Len(queue) /\ Len(ring) \in Nat
  BY HeldElems, HeldFacts, LenProperties DEF HeldEvents, HeldShape
<1>2. Elems(Held') = (produced' - Len(Held') + 1)..produced' /\ Len(Held') \in Nat
  BY HeldElemsNext, HeldFactsNext, LenProperties DEF HeldEvents, HeldShape
\* Nothing older comes to be held.
<1>3. Elems(Held') \subseteq Elems(Held) \cup {produced + 1}
  <2>1. \/ Len(Held') = Len(Held) + 1 /\ produced' = produced + 1
        \/ Len(Held') <= Len(Held) /\ produced' = produced
    <3>1. CASE Held' = Append(Held, produced + 1) /\ produced' = produced + 1 /\ Collect
      <4>1. produced + 1 \in EventId
        BY <1>1, <3>1 DEF Collect, EventId, IInv, TypeOK
      <4>. QED  BY <3>1, <4>1, HeldFacts, AppendProperties DEF HeldShape
    <3>2. CASE Len(Held) > EVENT_CACHE_LENGTH /\ Held' = Tail(Held) /\ produced' = produced
      <4>1. Held # <<>>
        BY <1>1, <3>2
      <4>. QED  BY <1>1, <3>2, <4>1, HeldFacts, HeadTailProperties DEF HeldShape
    <3>3. CASE /\ Len(ring) \in 1..Len(Held) /\ produced' = produced
               /\ Held' = SubSeq(Held, Len(ring) + 1, Len(Held))
      <4>1. Len(Held') = Len(Held) - Len(ring)
        BY <3>3, HeldFacts, DropFirst DEF HeldShape
      <4>. QED  BY <1>1, <3>3, <4>1
    <3>4. CASE Held' = <<>> /\ produced' = produced
      BY <1>1, <3>4, EmptySeq
    <3>5. CASE UNCHANGED <<Held, produced>>
      BY <1>1, <3>5
    <3>. QED  BY <3>1, <3>2, <3>3, <3>4, <3>5, HeldSteps
  <2>. QED  BY <1>1, <1>2, <2>1
\* A request the sensor has just given up on carried the whole ring.
<1>4. \A batch \in late' \ late : wire = "sent" /\ batch = Elems(send_cand)
  BY LateSteps DEF ConnectionBreaks, Restart, ServerHandlesLate
<1>5. ASSUME NEW batch \in late', NEW f \in batch, NEW e \in Elems(Held'), e < f
      PROVE  e \in batch
  <2>1. f \in Dequeued
    <3>1. CASE batch \in late
      BY <3>1 DEF IInv, OnlyDequeued
    <3>2. CASE batch \notin late
      BY <1>4, <3>2, RequestDequeued
    <3>. QED  BY <3>1, <3>2
  <2>2. e \in Elems(Held)
    BY <1>1, <1>3, <1>5, <2>1 DEF Dequeued
  <2>3. CASE batch \in late
    BY <1>5, <2>2, <2>3 DEF NoOvertaking
  <2>4. CASE batch \notin late
    <3>1. batch = Elems(ring) /\ wire = "sent"
      BY <1>4, <2>4, RequestDequeued
    <3>2. e <= f
      BY <1>1, <1>5, <2>1, <2>2 DEF Dequeued
    <3>. QED  BY <2>1, <2>2, <3>1, <3>2, DequeuedIsRing
  <2>. QED  BY <2>3, <2>4
<1>. QED  BY <1>5 DEF NoOvertaking

-----------------------------------------------------------------------------
(***************************************************************************)
(* The steps of the pipeline as steps of EventDelivery.                    *)
(***************************************************************************)
LEMMA EventsAreElems == ASSUME NEW s PROVE Delivery!Events(s) = Elems(s)
BY DEF Delivery!Events, Elems

\* A batch that reaches the server overtakes no older event that is held.
LEMMA Delivers ==
    ASSUME NEW batch, batch \subseteq 1..produced, stored' = stored \cup batch,
           \A e \in Elems(Held) : (\E f \in batch : e < f) => e \in stored \cup batch,
           UNCHANGED <<produced, Held>>
    PROVE  Delivery!Deliver
BY EventsAreElems DEF Delivery!Deliver

LEMMA ServerDelivers ==
    ASSUME IInv, NoOvertaking, ServerAccepts \/ \E batch \in late : ServerHandlesLate(batch)
    PROVE  Delivery!Deliver \/ UNCHANGED Delivery!vars
<1>1. UNCHANGED <<produced, Held>>
  BY DEF ServerAccepts, ServerHandlesLate, sensor, Held
<1>2. Dequeued \subseteq 1..produced
  BY WindowsDisjoint DEF Dequeued
<1>3. CASE ServerAccepts
  <2>1. /\ stored' = stored \cup Elems(ring)
        /\ Elems(ring) \subseteq Dequeued
    BY <1>3, RequestDequeued DEF ServerAccepts, Persist
  <2>2. \A e \in Elems(Held) : (\E f \in Elems(ring) : e < f) => e \in stored \cup Elems(ring)
    <3>. SUFFICES ASSUME NEW e \in Elems(Held), NEW f \in Elems(ring), e < f
                  PROVE  e \in Elems(ring)
      OBVIOUS
    <3>1. f \in Dequeued /\ f \in Nat /\ e \in Int
      BY <2>1, WindowsDisjoint, HeldElems, HeldFacts, LenProperties
      DEF Dequeued, HeldEvents, HeldShape
    <3>. QED  BY <3>1, DequeuedIsRing
  <2>. QED  BY <1>1, <1>2, <2>1, <2>2, Delivers
<1>4. CASE \E batch \in late : ServerHandlesLate(batch)
  <2>1. PICK batch \in late : ServerHandlesLate(batch)
    BY <1>4
  <2>2. CASE Valid(batch)
    <3>1. stored' = stored \cup batch
      BY <2>1, <2>2 DEF ServerHandlesLate, Persist
    <3>2. batch \subseteq 1..produced
      BY <1>2 DEF IInv, OnlyDequeued
    <3>3. \A e \in Elems(Held) : (\E f \in batch : e < f) => e \in stored \cup batch
      BY DEF NoOvertaking
    <3>. QED  BY <1>1, <3>1, <3>2, <3>3, Delivers
  <2>3. CASE ~ Valid(batch)
    BY <1>1, <2>1, <2>3 DEF ServerHandlesLate, Delivery!vars
  <2>. QED  BY <2>2, <2>3
<1>. QED  BY <1>3, <1>4

\* The first events held are those of the ring.
LEMMA FirstIsRing ==
    ASSUME IInv
    PROVE  SubSeq(Held, 1, Len(ring)) = ring
<1>1. /\ ring \in Seq(EventId) /\ queue \in Seq(EventId)
      /\ Len(ring) \in Nat /\ Len(queue) \in Nat
      /\ Len(Held) = Len(ring) + Len(queue) /\ Held \in Seq(EventId)
  BY HeldFacts DEF HeldShape
<1>2. \A i \in 1..Len(ring) : Held[i] = ring[i] /\ Held[i] \in EventId
  BY <1>1, ConcatProperties, ElementOfSeq DEF Held
<1>3. /\ SubSeq(Held, 1, Len(ring)) \in Seq(EventId)
      /\ Len(SubSeq(Held, 1, Len(ring))) = IF 1 <= Len(ring) THEN Len(ring) - 1 + 1 ELSE 0
      /\ \A i \in 1..(Len(ring) - 1 + 1) : SubSeq(Held, 1, Len(ring))[i] = Held[1 + i - 1]
  BY <1>1, <1>2, SubSeqProperties
<1>4. Len(SubSeq(Held, 1, Len(ring))) = Len(ring)
  BY <1>1, <1>3
<1>5. \A i \in 1..Len(ring) : SubSeq(Held, 1, Len(ring))[i] = ring[i]
  BY <1>1, <1>2, <1>3
<1>. QED  BY <1>1, <1>3, <1>4, <1>5, SeqEqual

LEMMA ImplementsInit == Init => Delivery!Init
<1>. SUFFICES ASSUME Init PROVE Delivery!Init
  OBVIOUS
<1>1. Held = <<>>
  BY ConcatEmptySeq, EmptySeq DEF Init, Held
<1>. QED  BY <1>1 DEF Init, Delivery!Init

LEMMA ImplementsNext ==
    ASSUME IInv, IInv', NoOvertaking, [Next]_vars
    PROVE  [Delivery!Next]_(Delivery!vars)
<1>1. CASE ServerAccepts \/ \E batch \in late : ServerHandlesLate(batch)
  BY <1>1, ServerDelivers DEF Delivery!Next
<1>2. CASE UNCHANGED <<stored, duplicated, unconfirmed>>
  <2>0. stored' = stored
    BY <1>2
  <2>1. CASE Held' = Append(Held, produced + 1) /\ produced' = produced + 1
    BY <2>0, <2>1 DEF Delivery!Next, Delivery!Accept
  <2>2. CASE Len(Held) > EVENT_CACHE_LENGTH /\ Held' = Tail(Held) /\ produced' = produced
    BY <2>0, <2>2 DEF Delivery!Next, Delivery!Overwrite
  <2>3. CASE /\ SubmitSucceeded /\ Len(ring) \in 1..Len(Held)
             /\ Held' = SubSeq(Held, Len(ring) + 1, Len(Held)) /\ produced' = produced
    <3>1. Elems(ring) \subseteq stored
      BY <2>3 DEF SubmitSucceeded, IInv, RequestCarriesRing
    <3>2. SubSeq(Held, 1, Len(ring)) = ring
      BY FirstIsRing
    <3>3. Delivery!Forget
      BY <2>0, <2>3, <3>1, <3>2, EventsAreElems DEF Delivery!Forget
    <3>. QED  BY <3>3 DEF Delivery!Next
  <2>4. CASE Held' = <<>> /\ produced' = produced
    BY <2>0, <2>4 DEF Delivery!Next, Delivery!Lose
  <2>5. CASE UNCHANGED <<Held, produced>>
    BY <2>0, <2>5 DEF Delivery!vars
  <2>. QED  BY <2>1, <2>2, <2>3, <2>4, <2>5, HeldSteps
<1>. QED  BY <1>1, <1>2, ServerSteps

(***************************************************************************)
(* The pipeline keeps the promise of EventDelivery: at least once, in      *)
(* order, and nothing given up unsent but the oldest of a full ring or     *)
(* what a terminating process held (event_processor.py, lines 50-62 and    *)
(* 84-96; Events.php, lines 224-311).                                      *)
(***************************************************************************)
THEOREM PromiseIsKept == Spec => KeepsPromise
<1>1. Spec => [](IInv /\ NoOvertaking)
  <2>1. IInv /\ NoOvertaking /\ [Next]_vars => NoOvertaking'
    BY IInvNext, NoOvertakingNext
  <2>. QED  BY <2>1, IInvInit, IInvNext, NoOvertakingInit, PTL DEF Spec
<1>2. IInv /\ NoOvertaking /\ [Next]_vars => [Delivery!Next]_(Delivery!vars)
  BY IInvNext, ImplementsNext
<1>. QED  BY <1>1, <1>2, ImplementsInit, PTL DEF Spec, KeepsPromise, Delivery!Spec

=============================================================================
