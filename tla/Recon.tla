------------------------------- MODULE Recon --------------------------------
(***************************************************************************)
(* The honeypot service recon (recon.py): it gathers the packets that each *)
(* remote host sends in an event, and reports the event to the sensor's    *)
(* collector when the host has been quiet for a while.  A host that sends  *)
(* too much is a flooder, and ignored for some time.                       *)
(*                                                                         *)
(* The main thread handles packets.  A timer starts a worker each second,  *)
(* whether or not those before it have ended: a worker waits for the       *)
(* collector's answer to each event it sends.  All of them share the       *)
(* tables of events and flooders without a lock.  An exception ends the    *)
(* worker that raises it; in the main thread it ends the service.          *)
(***************************************************************************)
EXTENDS Naturals, Sequences, FiniteSets

CONSTANTS
    Host,             \* remote hosts
    SEND_WAIT_TIMEOUT, FLOODER_CAP, FLOODER_TIMEOUT,
    MaxWorkers,       \* bound: workers at work at the same time
    MaxPackets,       \* bound: packets handled
    MaxUnanswered     \* bound: events the collector ends without answering

ASSUME ReconAssumption ==
    /\ {SEND_WAIT_TIMEOUT, FLOODER_CAP, FLOODER_TIMEOUT} \subseteq Nat \ {0}
    /\ IsFiniteSet(Host)
    /\ MaxWorkers \in Nat /\ MaxPackets \in Nat /\ MaxUnanswered \in Nat

VARIABLES
    alive,       \* the main thread has not ended
    received,    \* the number of packets handled, and the last one
    incident,    \* the events ever created: the host and the packets of each
    events,      \* the table events: the event of a host, or None
    quiet,       \* seconds since the last packet of a host's event in the table
    flooders,    \* the keys of the table flooders
    ignored,     \* seconds for which a flooder has been ignored
    handler,     \* the packet handler
    timer,       \* seconds since the timer was set, up to one
    worker,      \* the workers
    reported,    \* how often the collector was given a packet, in different messages
    unanswered,
    again,       \* events put into the table again after they had been taken out, and
                 \* those sent although another one was taken out
    dropped      \* events taken out of the table when another one was sent

tables == <<incident, events, quiet, flooders, ignored>>
history == <<again, dropped>>
vars == <<alive, received, tables, handler, timer, worker, reported, unanswered, history>>

None == 0
Worker == 1..MaxWorkers
Packet == 1..MaxPackets
Table == {h \in Host : events[h] # None}
PacketsOf(i) == {incident[i].packets[k] : k \in 1..Len(incident[i].packets)}

Resting == [at |-> "idle", age |-> 0, incident |-> None]
Ended == [at |-> "ended", start |-> {}, seen |-> {}, todo |-> <<>>, said |-> {}]

Steps == {"ended", "scan", "send", "talk", "wait", "stuck", "forget"}

EventsOK ==
    /\ received \in 0..MaxPackets
    /\ incident \in Seq([host : Host, packets : Seq(1..received)])
    /\ events \in [Host -> 0..Len(incident)]
    /\ \A h \in Table : incident[events[h]].host = h
TimesOK ==
    /\ quiet \in [Host -> 0..SEND_WAIT_TIMEOUT]
    /\ \A h \in Host : h \in Table \/ quiet[h] = 0
    /\ flooders \subseteq Host
    /\ ignored \in [Host -> 0..FLOODER_TIMEOUT]
    /\ \A h \in Host : h \in flooders \/ ignored[h] = 0
    /\ timer \in 0..1
HandlerOK ==
    \/ handler = Resting
    \/ /\ handler \in [at : {"look", "append", "test"}, host : Host,
                       age : 0..SEND_WAIT_TIMEOUT, incident : 0..Len(incident)]
       /\ handler.at = "look" <=> handler.incident = None
WorkersOK ==
    worker \in [Worker -> [at : Steps, start : SUBSET Host, seen : SUBSET Host,
                           todo : Seq(1..Len(incident)), said : SUBSET (1..received)]]
RecordsOK ==
    /\ reported \in [Packet -> 0..2]
    /\ unanswered \in 0..MaxUnanswered
    /\ again \subseteq 1..Len(incident) /\ dropped \subseteq 1..Len(incident)
TypeOK ==
    alive \in BOOLEAN /\ EventsOK /\ TimesOK /\ HandlerOK /\ WorkersOK /\ RecordsOK

\* The service has just started; the first worker, which finds nothing, has set the timer.
Init ==
    /\ alive = TRUE /\ received = 0
    /\ incident = <<>> /\ events = [h \in Host |-> None] /\ quiet = [h \in Host |-> 0]
    /\ flooders = {} /\ ignored = [h \in Host |-> 0]
    /\ handler = Resting
    /\ timer = 0
    /\ worker = [w \in Worker |-> Ended]
    /\ reported = [p \in Packet |-> 0] /\ unanswered = 0
    /\ again = {} /\ dropped = {}

-----------------------------------------------------------------------------
(* packet_handler *)

\* A packet of a host that is not ignored; get_event finds that it has an event, or makes
\* a new one.
Receive(h) ==
    /\ handler.at = "idle"
    /\ received < MaxPackets
    /\ h \notin flooders
    /\ received' = received + 1
    /\ IF events[h] # None
       THEN /\ handler' = [at |-> "look", host |-> h, age |-> 0, incident |-> None]
            /\ UNCHANGED incident
       ELSE /\ incident' = Append(incident, [host |-> h, packets |-> <<>>])
            /\ handler' = [at |-> "append", host |-> h, age |-> 0,
                           incident |-> Len(incident) + 1]
    /\ UNCHANGED <<alive, events, quiet, flooders, ignored, timer, worker, reported,
                   unanswered, history>>

\* It looks up the event it has found.
LookUp ==
    /\ handler.at = "look"
    /\ events[handler.host] # None
    /\ handler' = [handler EXCEPT !.at = "append", !.incident = events[handler.host]]
    /\ UNCHANGED <<alive, received, tables, timer, worker, reported, unanswered, history>>

\* A worker may have taken that event, or the host cannot be answered: either raises in the
\* main thread, and with it the workers and all that is in memory go.
HandlerRaises ==
    /\ \/ handler.at = "look" /\ events[handler.host] = None
       \/ handler.at = "append"
    /\ alive' = FALSE
    /\ handler' = Resting
    /\ worker' = [w \in Worker |-> Ended]
    /\ events' = [h \in Host |-> None] /\ quiet' = [h \in Host |-> 0]
    /\ flooders' = {} /\ ignored' = [h \in Host |-> 0]
    /\ timer' = 0
    /\ UNCHANGED <<received, incident, reported, unanswered, history>>

AppendTo(i) == incident' = [incident EXCEPT ![i].packets = Append(@, received)]

\* The host has been answered.
AppendPacket ==
    /\ handler.at = "append"
    /\ AppendTo(handler.incident)
    /\ quiet' = IF events[handler.host] = handler.incident
                THEN [quiet EXCEPT ![handler.host] = handler.age] ELSE quiet
    /\ handler' = [handler EXCEPT !.at = "test"]
    /\ UNCHANGED <<alive, received, events, flooders, ignored, timer, worker, reported,
                   unanswered, history>>

\* Mutant of AddEvent: only new events are put into the table.
AddNewEvent ==
    /\ handler.at = "test"
    /\ IF events[handler.host] = None /\ PacketsOf(handler.incident) = {received}
       THEN /\ AppendTo(handler.incident)
            /\ events' = [events EXCEPT ![handler.host] = handler.incident]
            /\ quiet' = [quiet EXCEPT ![handler.host] = handler.age]
       ELSE UNCHANGED <<incident, events, quiet>>
    /\ handler' = Resting
    /\ UNCHANGED <<alive, received, flooders, ignored, timer, worker, reported,
                   unanswered, history>>

\* The event goes into the table unless the host has one, and the packet into it once
\* more.  A worker may have taken an event with earlier packets meanwhile.
AddEvent ==
    /\ handler.at = "test"
    /\ IF events[handler.host] = None
       THEN /\ AppendTo(handler.incident)
            /\ events' = [events EXCEPT ![handler.host] = handler.incident]
            /\ quiet' = [quiet EXCEPT ![handler.host] = handler.age]
            /\ again' = IF PacketsOf(handler.incident) = {received} THEN again
                        ELSE again \cup {handler.incident}
       ELSE UNCHANGED <<incident, events, quiet, again>>
    /\ handler' = Resting
    /\ UNCHANGED <<alive, received, flooders, ignored, timer, worker, reported,
                   unanswered, dropped>>

-----------------------------------------------------------------------------
(* worker *)

Becomes(w, r) == worker' = [worker EXCEPT ![w] = r]
Ends(w) == Becomes(w, Ended)

\* Mutant of StartWorker: the timer is set again when the worker has ended.
StartWorkerAfter(w) ==
    /\ timer = 1
    /\ \A v \in Worker : worker[v] = Ended
    /\ timer' = 0
    /\ Becomes(w, [Ended EXCEPT !.at = "scan", !.start = Table])
    /\ UNCHANGED <<alive, received, tables, handler, reported, unanswered, history>>

\* The timer of the worker before, which a worker sets before anything else, has run out.
StartWorker(w) ==
    /\ timer = 1
    /\ worker[w] = Ended /\ \A v \in 1..(w - 1) : worker[v] # Ended
    /\ timer' = 0
    /\ Becomes(w, [Ended EXCEPT !.at = "scan", !.start = Table])
    /\ UNCHANGED <<alive, received, tables, handler, reported, unanswered, history>>

\* The number of events has changed since the worker began to go through the table.
Resized(w) == Cardinality(Table) # Cardinality(worker[w].start)

\* Mutant of Visit: what flooders have sent waits until they are not ignored any more.
VisitOthers(w, h) ==
    /\ worker[w].at = "scan"
    /\ ~ Resized(w)
    /\ h \in Table \ worker[w].seen
    /\ IF Len(incident[events[h]].packets) >= FLOODER_CAP
       THEN flooders' = flooders \cup {h} ELSE UNCHANGED flooders
    /\ Becomes(w, [worker[w] EXCEPT
           !.seen = @ \cup {h},
           !.todo = IF quiet[h] >= SEND_WAIT_TIMEOUT /\ h \notin flooders'
                    THEN Append(@, events[h]) ELSE @])
    /\ UNCHANGED <<alive, received, incident, events, quiet, ignored, handler, timer,
                   reported, unanswered, history>>

\* Whoever has sent too much is a flooder from now on; events without a recent packet are
\* to be sent.
Visit(w, h) ==
    /\ worker[w].at = "scan"
    /\ ~ Resized(w)
    /\ h \in Table \ worker[w].seen
    /\ IF Len(incident[events[h]].packets) >= FLOODER_CAP
       THEN flooders' = flooders \cup {h} ELSE UNCHANGED flooders
    /\ Becomes(w, [worker[w] EXCEPT
           !.seen = @ \cup {h},
           !.todo = IF quiet[h] >= SEND_WAIT_TIMEOUT THEN Append(@, events[h]) ELSE @])
    /\ UNCHANGED <<alive, received, incident, events, quiet, ignored, handler, timer,
                   reported, unanswered, history>>

\* What a worker does next that has to send `todo': when nothing is left it turns to the
\* hosts that have been ignored long enough.
After(todo) ==
    LET over == {h \in flooders : ignored[h] >= FLOODER_TIMEOUT} IN
    IF todo # <<>> THEN [Ended EXCEPT !.at = "send", !.todo = todo]
    ELSE IF over # {} THEN [Ended EXCEPT !.at = "forget", !.start = over]
    ELSE Ended

\* An event that came when another one went may have been missed; a change of the size
\* raises.
EndScan(w) ==
    /\ worker[w].at = "scan"
    /\ \/ ~ Resized(w) /\ worker[w].start \cap Table \subseteq worker[w].seen
          /\ Becomes(w, After(worker[w].todo))
       \/ Resized(w) /\ Ends(w)
    /\ UNCHANGED <<alive, received, tables, handler, timer, reported, unanswered, history>>

\* For the record: j is taken out of the table and i is sent.
Mistakes(i, j) ==
    IF j \in {i, None} THEN UNCHANGED history
    ELSE again' = again \cup {i} /\ dropped' = dropped \cup {j}

\* Mutant of TakeEvent: nothing is raised if the event is gone.
TakeEventAnyway(w) ==
    LET i == Head(worker[w].todo)
        h == incident[i].host IN
    /\ worker[w].at = "send"
    /\ worker[w].todo # <<>>
    /\ Becomes(w, [worker[w] EXCEPT !.at = "talk"])
    /\ events' = [events EXCEPT ![h] = None]
    /\ quiet' = [quiet EXCEPT ![h] = 0]
    /\ Mistakes(i, events[h])
    /\ UNCHANGED <<alive, received, incident, flooders, ignored, handler, timer, reported,
                   unanswered>>

\* The event of that host is taken out of the table, whichever it is now; if another
\* worker has taken it this one ends.
TakeEvent(w) ==
    LET i == Head(worker[w].todo)
        h == incident[i].host IN
    /\ worker[w].at = "send"
    /\ worker[w].todo # <<>>
    /\ IF events[h] # None THEN Becomes(w, [worker[w] EXCEPT !.at = "talk"]) ELSE Ends(w)
    /\ events' = [events EXCEPT ![h] = None]
    /\ quiet' = [quiet EXCEPT ![h] = 0]
    /\ Mistakes(i, events[h])
    /\ UNCHANGED <<alive, received, incident, flooders, ignored, handler, timer, reported,
                   unanswered>>

\* What is sent are the packets of this moment.
SendEvent(w) ==
    /\ worker[w].at = "talk"
    /\ Becomes(w, [worker[w] EXCEPT !.at = "wait", !.todo = Tail(@),
                                    !.said = PacketsOf(Head(worker[w].todo))])
    /\ UNCHANGED <<alive, received, tables, handler, timer, reported, unanswered, history>>

Report(S) ==
    reported' = [p \in Packet |-> IF p \in S /\ reported[p] < 2 THEN reported[p] + 1
                                  ELSE reported[p]]

\* The collector has taken the event and answers.
Answer(w) ==
    /\ worker[w].at = "wait"
    /\ Report(worker[w].said)
    /\ Becomes(w, After(worker[w].todo))
    /\ UNCHANGED <<alive, received, tables, handler, timer, unanswered, history>>

\* The collector ends before or after it has received the event: the worker waits for ever.
\* All it had still to send is in the table.
NoAnswer(w) ==
    /\ worker[w].at = "wait"
    /\ unanswered < MaxUnanswered
    /\ unanswered' = unanswered + 1
    /\ Report(worker[w].said) \/ UNCHANGED reported
    /\ Becomes(w, [worker[w] EXCEPT !.at = "stuck", !.todo = <<>>])
    /\ UNCHANGED <<alive, received, tables, handler, timer, history>>

\* Mutant of Forget: the time since when the host was ignored is kept.
ForgetHost(w, h) ==
    /\ worker[w].at = "forget"
    /\ h \in worker[w].start
    /\ IF h \in flooders /\ worker[w].start # {h}
       THEN Becomes(w, [worker[w] EXCEPT !.start = @ \ {h}]) ELSE Ends(w)
    /\ flooders' = flooders \ {h}
    /\ UNCHANGED <<alive, received, incident, events, quiet, ignored, handler, timer,
                   reported, unanswered, history>>

\* The host is accepted again, unless another worker has seen to that.
Forget(w, h) ==
    /\ worker[w].at = "forget"
    /\ h \in worker[w].start
    /\ IF h \in flooders /\ worker[w].start # {h}
       THEN Becomes(w, [worker[w] EXCEPT !.start = @ \ {h}]) ELSE Ends(w)
    /\ flooders' = flooders \ {h}
    /\ ignored' = [ignored EXCEPT ![h] = 0]
    /\ UNCHANGED <<alive, received, incident, events, quiet, handler, timer, reported,
                   unanswered, history>>

-----------------------------------------------------------------------------
\* A second passes.
Tick ==
    /\ timer' = 1
    /\ quiet' = [h \in Host |-> IF h \in Table /\ quiet[h] < SEND_WAIT_TIMEOUT
                                THEN quiet[h] + 1 ELSE quiet[h]]
    /\ ignored' = [h \in Host |-> IF h \in flooders /\ ignored[h] < FLOODER_TIMEOUT
                                  THEN ignored[h] + 1 ELSE ignored[h]]
    /\ handler' = IF handler.at # "idle" /\ handler.age < SEND_WAIT_TIMEOUT
                  THEN [handler EXCEPT !.age = @ + 1] ELSE handler
    /\ UNCHANGED <<alive, received, incident, events, flooders, worker, reported,
                   unanswered, history>>

Handles == LookUp \/ HandlerRaises \/ AppendPacket \/ AddEvent
Works(w) ==
    \/ EndScan(w) \/ TakeEvent(w) \/ SendEvent(w) \/ Answer(w)
    \/ \E h \in Host : Visit(w, h) \/ Forget(w, h)

\* When the main thread ends so do the others.
Next ==
    /\ alive
    /\ \/ \E h \in Host : Receive(h)
       \/ Handles
       \/ \E w \in Worker : StartWorker(w) \/ Works(w) \/ NoAnswer(w)
       \/ Tick

Spec == Init /\ [][Next]_vars

=============================================================================
