--------------------------- MODULE EventPipeline ---------------------------
(***************************************************************************)
(* The path of one event from a honeypot service to the server's database: *)
(* the collector thread, the event queue, the ring buffer of the event     *)
(* processor thread, the HTTPS request to POST /api/events and the handler *)
(* behind it.  The polling thread takes part through the single variable   *)
(* it shares with the event processor, polling._last_successful_poll.      *)
(*                                                                         *)
(* An event is identified by its position in the order in which the        *)
(* collector acknowledged it; its contents matter only in so far as the    *)
(* server's validation accepts them.  Ids survive a restart of the sensor. *)
(***************************************************************************)
EXTENDS Naturals, Sequences, FiniteSets

CONSTANTS
    EVENT_CACHE_LENGTH,  \* capacity of the ring buffer (1024 in the code)
    MaxEvents,           \* bound: events the honeypots report
    MaxLate,             \* bound: abandoned requests still on their way
    MaxRestarts,         \* bound: restarts of the sensor manager
    Malformed            \* events the validation in Events::create rejects

ASSUME CapacityAssumption == EVENT_CACHE_LENGTH \in Nat \ {0}
ASSUME BoundsAssumption == MaxEvents \in Nat /\ MaxLate \in Nat /\ MaxRestarts \in Nat
ASSUME MalformedAssumption == Malformed \subseteq 1..MaxEvents

VARIABLES
    produced,    \* number of events acknowledged by the collector so far
    collector,   \* TRUE while the collector thread serves its socket
    queue,       \* Manager.event_queue
    ring,        \* EventProcessor.events, a deque with a maximum length
    pc,          \* where the event processor thread is
    send_cand,   \* local variable of submit_events
    ev_stop,     \* EventProcessor.ev_stop
    last_poll,   \* polling._last_successful_poll: "none", "fresh" or "stale"
    wire,        \* the POST request the event processor waits for
    late,        \* requests the sensor gave up on, not yet handled
    stored,      \* events the server has accepted
    duplicated,  \* events the server has accepted more than once
    unconfirmed, \* events accepted without the sensor being told
    offered,     \* what the latest attempt of submit_events failed to deliver
    restarts     \* restarts so far

sensor == <<produced, collector, queue, ring, pc, send_cand, ev_stop>>
server == <<late, stored, duplicated, unconfirmed>>
vars == <<produced, collector, queue, ring, pc, send_cand, ev_stop, last_poll,
          wire, late, stored, duplicated, unconfirmed, offered, restarts>>

EventId == 1..MaxEvents
Elems(s) == {s[i] : i \in 1..Len(s)}

\* Everything the sensor still holds, oldest first.
Held == ring \o queue

\* The thread has returned: after a stop, for want of a key, or by an exception.
Terminated == {"stopped", "failed", "dead"}

TypeOK ==
    /\ produced \in 0..MaxEvents
    /\ collector \in BOOLEAN
    /\ queue \in Seq(EventId)
    /\ ring \in Seq(EventId)
    /\ Len(ring) <= EVENT_CACHE_LENGTH
    /\ pc \in {"init", "loop", "get", "online", "elapsed", "post"} \cup Terminated
    /\ send_cand \in Seq(EventId)
    /\ ev_stop \in BOOLEAN
    /\ last_poll \in {"none", "fresh", "stale"}
    /\ wire \in {"idle", "sent", "ok", "failed"}
    /\ late \in SUBSET SUBSET EventId
    /\ stored \in SUBSET EventId
    /\ duplicated \in SUBSET EventId
    /\ unconfirmed \in SUBSET EventId
    /\ offered \in Seq(EventId)
    /\ restarts \in 0..MaxRestarts

\* Manager.start: the first poll has been made, successfully or not, before the
\* event processor and the collector are started.
Init ==
    /\ produced = 0
    /\ collector = TRUE
    /\ queue = <<>>
    /\ ring = <<>>
    /\ pc = "init"
    /\ send_cand = <<>>
    /\ ev_stop = FALSE
    /\ last_poll \in {"none", "fresh"}
    /\ wire = "idle"
    /\ late = {}
    /\ stored = {}
    /\ duplicated = {}
    /\ unconfirmed = {}
    /\ offered = <<>>
    /\ restarts = 0

-----------------------------------------------------------------------------
(* The collector thread *)

\* One iteration of the collector's inner loop that finds a message: it puts the
\* event into the queue and answers the honeypot service.
Collect ==
    /\ collector
    /\ produced < MaxEvents
    /\ produced' = produced + 1
    /\ queue' = Append(queue, produced + 1)
    /\ UNCHANGED <<collector, ring, pc, send_cand, ev_stop, last_poll, wire,
                   server, offered, restarts>>

-----------------------------------------------------------------------------
(* The event processor thread *)

\* The thread reads its sensor id and its private key; without them it ends.
StartProcessor ==
    /\ pc = "init"
    /\ pc' \in {"loop", "failed"}
    /\ UNCHANGED <<produced, collector, queue, ring, send_cand, ev_stop, last_poll,
                   wire, server, offered, restarts>>

\* The condition of the main loop.
CheckStop ==
    /\ pc = "loop"
    /\ pc' = IF ev_stop THEN "stopped" ELSE "get"
    /\ UNCHANGED <<produced, collector, queue, ring, send_cand, ev_stop, last_poll,
                   wire, server, offered, restarts>>

\* Mutants of DequeAppend: a deque without a maximum length, and a bounded queue
\* that refuses the newest element instead of dropping the oldest.
DequeAppendUnbounded(s, e) == Append(s, e)
DequeAppendRefuses(s, e) == IF Len(s) = EVENT_CACHE_LENGTH THEN s ELSE Append(s, e)

\* collections.deque.append with a maximum length: a full ring loses its oldest.
DequeAppend(s, e) ==
    IF Len(s) = EVENT_CACHE_LENGTH THEN Append(Tail(s), e) ELSE Append(s, e)

\* Mutant of GetEvent: a full ring is not submitted.
GetEventOnly ==
    /\ pc = "get"
    /\ queue # <<>>
    /\ queue' = Tail(queue)
    /\ ring' = DequeAppend(ring, Head(queue))
    /\ pc' = "loop"
    /\ UNCHANGED <<produced, collector, send_cand, ev_stop, last_poll, wire,
                   server, offered, restarts>>

\* queue.get returned an event; a ring that is full afterwards is submitted.
GetEvent ==
    /\ pc = "get"
    /\ queue # <<>>
    /\ queue' = Tail(queue)
    /\ ring' = DequeAppend(ring, Head(queue))
    /\ pc' = IF Len(ring') = EVENT_CACHE_LENGTH THEN "online" ELSE "loop"
    /\ UNCHANGED <<produced, collector, send_cand, ev_stop, last_poll, wire,
                   server, offered, restarts>>

\* Mutants of GetTimeout: the timeout is ignored; queue.get blocks for ever.
GetTimeoutIgnored ==
    /\ pc = "get"
    /\ queue = <<>>
    /\ pc' = "loop"
    /\ UNCHANGED <<produced, collector, queue, ring, send_cand, ev_stop, last_poll,
                   wire, server, offered, restarts>>
GetBlocks == pc = "get" /\ queue = <<>> /\ UNCHANGED vars

\* queue.get timed out: there is nothing to do but to submit what is there.
GetTimeout ==
    /\ pc = "get"
    /\ queue = <<>>
    /\ pc' = "online"
    /\ UNCHANGED <<produced, collector, queue, ring, send_cand, ev_stop, last_poll,
                   wire, server, offered, restarts>>

\* polling.is_online reads _last_successful_poll a first time ...
IsOnlineFirstRead ==
    /\ pc = "online"
    /\ IF last_poll = "none"
       THEN pc' = "loop" /\ offered' = ring
       ELSE pc' = "elapsed" /\ UNCHANGED offered
    /\ UNCHANGED <<produced, collector, queue, ring, send_cand, ev_stop, last_poll,
                   wire, server, restarts>>

\* ... and once more to compute the time elapsed since.  When the polling thread
\* has reset it in between, the subtraction raises a TypeError that nothing in
\* the thread catches.
IsOnlineSecondReadRaises ==
    /\ pc = "elapsed"
    /\ last_poll = "none"
    /\ pc' = "dead"
    /\ UNCHANGED <<produced, collector, queue, ring, send_cand, ev_stop, last_poll,
                   wire, server, offered, restarts>>

IsOnlineSecondRead ==
    /\ pc = "elapsed"
    /\ \/ last_poll = "stale"
       \/ last_poll = "fresh" /\ ring = <<>>
    /\ pc' = "loop"
    /\ offered' = ring
    /\ UNCHANGED <<produced, collector, queue, ring, send_cand, ev_stop, last_poll,
                   wire, server, restarts>>

\* Online with events to send: the whole ring goes into one request.
SendEvents ==
    /\ pc = "elapsed"
    /\ last_poll = "fresh"
    /\ ring # <<>>
    /\ send_cand' = ring
    /\ wire' = "sent"
    /\ pc' = "post"
    /\ UNCHANGED <<produced, collector, queue, ring, ev_stop, last_poll, server,
                   offered, restarts>>

\* Mutant of RemoveSent: the last event that was sent stays.
RemoveSentButLast(s, sent) == SubSeq(s, Len(sent), Len(s))

\* events.remove(c) for each event that was sent.  The copy that was sent was taken
\* from the head of the deque, which this thread alone changes.
RemoveSent(s, sent) == SubSeq(s, Len(sent) + 1, Len(s))

\* The server answered 200.
SubmitSucceeded ==
    /\ pc = "post"
    /\ wire = "ok"
    /\ ring' = RemoveSent(ring, send_cand)
    /\ wire' = "idle"
    /\ pc' = "loop"
    /\ UNCHANGED <<produced, collector, queue, send_cand, ev_stop, last_poll,
                   server, offered, restarts>>

\* Mutant of SubmitFailed: the ring is emptied whatever became of the request.
SubmitFailedDrops ==
    /\ pc = "post"
    /\ wire = "failed"
    /\ last_poll' = "none"
    /\ ring' = <<>>
    /\ offered' = <<>>
    /\ wire' = "idle"
    /\ pc' = "loop"
    /\ UNCHANGED <<produced, collector, queue, send_cand, ev_stop, server, restarts>>

\* Any other answer, or none: trigger_conn_error, and the ring is kept.
SubmitFailed ==
    /\ pc = "post"
    /\ wire = "failed"
    /\ last_poll' = "none"
    /\ offered' = ring
    /\ wire' = "idle"
    /\ pc' = "loop"
    /\ UNCHANGED <<produced, collector, queue, ring, send_cand, ev_stop, server,
                   restarts>>

EventProcessor ==
    \/ StartProcessor \/ CheckStop \/ GetEvent \/ GetTimeout
    \/ IsOnlineFirstRead \/ IsOnlineSecondReadRaises \/ IsOnlineSecondRead
    \/ SendEvents \/ SubmitSucceeded \/ SubmitFailed

-----------------------------------------------------------------------------
(* The polling thread, as far as it concerns the event processor *)

PollSucceeded ==
    /\ last_poll' = "fresh"
    /\ UNCHANGED <<sensor, wire, server, offered, restarts>>

\* trigger_conn_error, from the polling thread.
PollFailed ==
    /\ last_poll' = "none"
    /\ UNCHANGED <<sensor, wire, server, offered, restarts>>

\* More than a polling interval passes without a successful poll.
PollExpires ==
    /\ last_poll = "fresh"
    /\ last_poll' = "stale"
    /\ UNCHANGED <<sensor, wire, server, offered, restarts>>

-----------------------------------------------------------------------------
(* The network and the server *)

\* Events::create validates every event before it persists any of them.
Valid(batch) == batch \cap Malformed = {}

Persist(batch) ==
    /\ stored' = stored \cup batch
    /\ duplicated' = duplicated \cup (stored \cap batch)

\* The handler commits the batch in one flush; the answer arrives, or the notice
\* of incidents that follows or the connection fails and the sensor sees an error.
ServerAccepts ==
    /\ wire = "sent"
    /\ Valid(Elems(send_cand))
    /\ Persist(Elems(send_cand))
    /\ \/ wire' = "ok" /\ UNCHANGED unconfirmed
       \/ wire' = "failed" /\ unconfirmed' = unconfirmed \cup Elems(send_cand)
    /\ UNCHANGED <<sensor, last_poll, late, offered, restarts>>

\* One event that fails the validation rejects the whole batch.
ServerRejects ==
    /\ wire = "sent"
    /\ ~ Valid(Elems(send_cand))
    /\ wire' = "failed"
    /\ UNCHANGED <<sensor, last_poll, server, offered, restarts>>

\* The request is lost, or the connection breaks while the server still has it.
ConnectionBreaks ==
    /\ wire = "sent"
    /\ wire' = "failed"
    /\ \/ UNCHANGED late
       \/ /\ Cardinality(late \cup {Elems(send_cand)}) <= MaxLate
          /\ late' = late \cup {Elems(send_cand)}
    /\ UNCHANGED <<sensor, last_poll, stored, duplicated, unconfirmed, offered, restarts>>

\* The server handles a request whose sender no longer waits for the answer.
ServerHandlesLate(batch) ==
    /\ late' = late \ {batch}
    /\ IF Valid(batch)
       THEN Persist(batch) /\ unconfirmed' = unconfirmed \cup batch
       ELSE UNCHANGED <<stored, duplicated, unconfirmed>>
    /\ UNCHANGED <<sensor, last_poll, wire, offered, restarts>>

-----------------------------------------------------------------------------
(* Shutdown, crash and restart of the sensor manager *)

\* Manager.shutdown stops and joins the collector first ...
StopCollector ==
    /\ collector
    /\ collector' = FALSE
    /\ UNCHANGED <<produced, queue, ring, pc, send_cand, ev_stop, last_poll, wire,
                   server, offered, restarts>>

\* ... and only then the event processor.
StopProcessor ==
    /\ ~ collector
    /\ ~ ev_stop
    /\ ev_stop' = TRUE
    /\ UNCHANGED <<produced, collector, queue, ring, pc, send_cand, last_poll, wire,
                   server, offered, restarts>>

\* The process ends, in order after a shutdown or not, and is started again: all
\* it held in memory is gone, a request under way may still reach the server.
Restart ==
    /\ restarts < MaxRestarts
    /\ restarts' = restarts + 1
    /\ collector' = TRUE
    /\ queue' = <<>>
    /\ ring' = <<>>
    /\ pc' = "init"
    /\ send_cand' = <<>>
    /\ ev_stop' = FALSE
    /\ last_poll' \in {"none", "fresh"}
    /\ wire' = "idle"
    /\ offered' = <<>>
    /\ \/ UNCHANGED late
       \/ /\ wire = "sent"
          /\ Cardinality(late \cup {Elems(send_cand)}) <= MaxLate
          /\ late' = late \cup {Elems(send_cand)}
    /\ UNCHANGED <<produced, stored, duplicated, unconfirmed>>

-----------------------------------------------------------------------------

Polling == PollSucceeded \/ PollFailed \/ PollExpires
Server == ServerAccepts \/ ServerRejects \/ \E batch \in late : ServerHandlesLate(batch)
Shutdown == StopCollector \/ StopProcessor

Next ==
    \/ Collect
    \/ EventProcessor
    \/ Polling
    \/ Server
    \/ ConnectionBreaks
    \/ Shutdown
    \/ Restart

Spec == Init /\ [][Next]_vars

=============================================================================
