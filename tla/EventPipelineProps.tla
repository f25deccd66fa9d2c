------------------------ MODULE EventPipelineProps -------------------------
(***************************************************************************)
(* The correctness properties of EventPipeline.                            *)
(***************************************************************************)
EXTENDS EventPipeline

(***************************************************************************)
(* What the sensor holds is an unbroken run of the acknowledged events,    *)
(* up to the newest: appending to a full deque, a failed submission and    *)
(* the removal after a successful one never leave a gap, reorder events or *)
(* keep an older event while dropping a newer one (event_processor.py,     *)
(* lines 50-62 and 94-96).                                                 *)
(***************************************************************************)
HeldIsWindow ==
    \A i \in 1..Len(Held) : Held[i] = produced - Len(Held) + i

(***************************************************************************)
(* "If the queue is full, attempt to submit events.  If this fails,        *)
(* further events will overwrite queued events in the cache"               *)
(* (event_processor.py, lines 58-59): whenever the thread is about to take *)
(* another event into a full ring, it has tried to submit exactly that     *)
(* ring and could not.                                                     *)
(***************************************************************************)
FullRingWasOffered ==
    pc \in {"loop", "get"} /\ Len(ring) = EVENT_CACHE_LENGTH => offered = ring

(***************************************************************************)
(* The server has an event twice only if it accepted the event once        *)
(* without the sensor learning of it: the ring is emptied of what was      *)
(* confirmed before anything is submitted again (event_processor.py,       *)
(* lines 84-96).                                                           *)
(***************************************************************************)
DuplicatesOnlyUnconfirmed == duplicated \subseteq unconfirmed

(***************************************************************************)
(* The pipeline keeps the promise of EventDelivery: at least once, in      *)
(* order, and nothing given up unsent but the oldest of a full ring or     *)
(* what a terminating process held.                                        *)
(***************************************************************************)
Delivery == INSTANCE EventDelivery WITH
    Capacity <- EVENT_CACHE_LENGTH, accepted <- produced, waiting <- Held

KeepsPromise == Delivery!Spec

-----------------------------------------------------------------------------
(***************************************************************************)
(* Fairness.  Each thread of the sensor keeps running as long as it has    *)
(* something to do; a request under way is answered or breaks, which the   *)
(* code relies on, as perform_https_request sets no timeout.  Nothing      *)
(* forces an event, a poll, an abandoned request, a shutdown or a restart. *)
(***************************************************************************)
FairSpec ==
    /\ Spec
    /\ WF_vars(EventProcessor)
    /\ WF_vars(ServerAccepts \/ ServerRejects \/ ConnectionBreaks)

\* The polling thread finds the server, requests get through, the processor found
\* its key and is not being stopped.
Connected ==
    last_poll = "fresh" /\ wire # "failed" /\ pc # "failed" /\ ~ ev_stop

Alive == pc # "dead"

(***************************************************************************)
(* "Submit events ASAP if there are no further queued events to process"   *)
(* (event_processor.py, line 52): on a connection that stays good, every   *)
(* event the sensor holds leaves it again ...                              *)
(***************************************************************************)
SubmitsHeldEvents == <>[]Connected => []<>(Held = <<>>)

(***************************************************************************)
(* ... provided that the event processor thread is still alive.            *)
(***************************************************************************)
SubmitsHeldEventsWhileAlive ==
    []Alive /\ <>[]Connected => []<>(Held = <<>>)

(***************************************************************************)
(* EventProcessor.stop ends the thread, whatever it was doing: the join in *)
(* Manager.shutdown (manager.py, line 134) returns.                        *)
(***************************************************************************)
StopTerminates == ev_stop ~> (pc \in Terminated \/ ~ ev_stop)

=============================================================================
