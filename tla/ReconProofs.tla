---------------------------- MODULE ReconProofs -----------------------------
(***************************************************************************)
(* Proofs of the safety properties of Recon, for any hosts, timeouts and   *)
(* numbers of packets, workers and events without an answer.               *)
(*                                                                         *)
(* That no packet is lost is inductive with what each thread holds at each *)
(* of its steps (Shape, Fresh).  That packets are reported once rests on   *)
(* where an event may be (Once): in the table, with one worker, or with    *)
(* the collector; and on packets that belong to one event (OneIncident).   *)
(***************************************************************************)
EXTENDS ReconProps, SequenceTheorems, TLAPS

\* Which event the packet handler has, and what a worker has at each of its steps.
Shape ==
    /\ handler.at # "idle" => received >= 1
    /\ handler.at \in {"append", "test"} =>
           /\ incident[handler.incident].host = handler.host
           /\ events[handler.host] \in {None, handler.incident}
    /\ handler.at = "test" => received \in PacketsOf(handler.incident)
    /\ \A w \in Worker :
           /\ worker[w].at = "talk" => worker[w].todo # <<>>
           /\ worker[w].at \notin {"wait", "stuck"} => worker[w].said = {}

\* Nobody has seen a packet the handler has not put into its event yet.
Fresh ==
    /\ \A p \in Packet : p > received => reported[p] = 0
    /\ handler.at \in {"look", "append"} =>
           /\ \A i \in 1..Len(incident) : received \notin PacketsOf(i)
           /\ \A w \in Worker : received \notin worker[w].said
           /\ reported[received] = 0

IInv == TypeOK /\ Shape /\ Fresh

-----------------------------------------------------------------------------
(* Events. *)

Event(n) == [host : Host, packets : Seq(1..n)]

LEMMA EventsType ==
    ASSUME TypeOK
    PROVE  /\ received \in Nat /\ incident \in Seq(Event(received))
           /\ Len(incident) \in Nat
           /\ \A i \in 1..Len(incident) : incident[i] \in Event(received)
<1>1. incident \in Seq(Event(received)) /\ received \in 0..MaxPackets
  BY Zenon DEF TypeOK, EventsOK, Event
<1> QED BY <1>1, LenProperties, ElementOfSeq, ReconAssumption

LEMMA PacketsType ==
    ASSUME TypeOK, NEW i \in 1..Len(incident)
    PROVE  PacketsOf(i) \subseteq 1..received
<1>1. incident[i].packets \in Seq(1..received)
  BY EventsType DEF Event
<1> QED BY <1>1, ElementOfSeq DEF PacketsOf

\* A packet is appended to an event.
LEMMA AppendToFacts ==
    ASSUME TypeOK, NEW i \in 1..Len(incident), AppendTo(i), received >= 1
    PROVE  /\ incident' \in Seq(Event(received))
           /\ Len(incident') = Len(incident)
           /\ \A j \in 1..Len(incident) : incident'[j].host = incident[j].host
           /\ PacketsOf(i)' = PacketsOf(i) \cup {received}
           /\ \A j \in 1..Len(incident) : j # i => PacketsOf(j)' = PacketsOf(j)
<1> DEFINE e == [incident[i] EXCEPT !.packets = Append(@, received)]
<1>1. /\ incident \in Seq(Event(received)) /\ incident[i] \in Event(received)
      /\ received \in Nat
  BY EventsType
<1>2. e \in Event(received)
  <2>1. Append(incident[i].packets, received) \in Seq(1..received)
    BY <1>1, AppendProperties DEF Event
  <2> QED BY <1>1, <2>1 DEF Event
<1>3. incident' = [incident EXCEPT ![i] = e]
  BY DEF AppendTo
<1> HIDE DEF e
<1>4. /\ incident' \in Seq(Event(received)) /\ Len(incident') = Len(incident)
      /\ incident'[i] = e
      /\ \A j \in 1..Len(incident) : j # i => incident'[j] = incident[j]
  BY <1>1, <1>2, <1>3, ExceptSeq
<1>5. e.host = incident[i].host /\ e.packets = Append(incident[i].packets, received)
  BY <1>1 DEF e, Event
<1>6. \A j \in 1..Len(incident) : incident'[j].host = incident[j].host
  BY <1>4, <1>5
<1>7. PacketsOf(i)' = PacketsOf(i) \cup {received}
  <2> DEFINE s == incident[i].packets
  <2>1. s \in Seq(1..received)
    BY <1>1 DEF Event
  <2>2. PacketsOf(i)' = {Append(s, received)[k] : k \in 1..Len(Append(s, received))}
    BY <1>4, <1>5 DEF PacketsOf
  <2>3. /\ Len(Append(s, received)) = Len(s) + 1 /\ Len(s) \in Nat
        /\ \A k \in 1..Len(s) : Append(s, received)[k] = s[k]
        /\ Append(s, received)[Len(s) + 1] = received
    BY <2>1, <1>1, AppendProperties, LenProperties
  <2> HIDE DEF s
  <2>4. PacketsOf(i) = {s[k] : k \in 1..Len(s)}
    BY DEF PacketsOf, s
  <2>5. 1..(Len(s) + 1) = 1..Len(s) \cup {Len(s) + 1}
    BY <2>3
  <2> QED BY <2>2, <2>3, <2>4, <2>5
<1>8. \A j \in 1..Len(incident) : j # i => PacketsOf(j)' = PacketsOf(j)
  BY <1>4 DEF PacketsOf
<1> QED BY <1>4, <1>6, <1>7, <1>8

\* A new event.
LEMMA NewEventFacts ==
    ASSUME TypeOK, NEW h \in Host, received' = received + 1,
           incident' = Append(incident, [host |-> h, packets |-> <<>>])
    PROVE  /\ incident' \in Seq(Event(received'))
           /\ Len(incident') = Len(incident) + 1 /\ Len(incident) \in Nat
           /\ \A j \in 1..Len(incident) : incident'[j] = incident[j]
           /\ incident'[Len(incident) + 1].host = h
           /\ \A n : n = Len(incident) + 1 => PacketsOf(n)' = {}
           /\ \A j \in 1..Len(incident) : PacketsOf(j)' = PacketsOf(j)
<1> DEFINE e == [host |-> h, packets |-> <<>>]
<1>1. incident \in Seq(Event(received)) /\ received \in Nat
  BY EventsType
<1>2. Event(received) \subseteq Event(received')
  <2>1. 1..received \subseteq 1..received'
    BY <1>1
  <2>2. Seq(1..received) \subseteq Seq(1..received')
    BY <2>1, SeqMonotonic
  <2> QED BY <2>2 DEF Event
<1>3. e \in Event(received')
  <2>1. <<>> \in Seq(1..received')
    BY EmptySeq
  <2> QED BY <2>1 DEF Event
<1> HIDE DEF e
<1>4. incident \in Seq(Event(received'))
  BY <1>1, <1>2, SeqMonotonic
<1>5. /\ incident' \in Seq(Event(received'))
      /\ Len(incident') = Len(incident) + 1 /\ Len(incident) \in Nat
      /\ \A j \in 1..Len(incident) : incident'[j] = incident[j]
      /\ incident'[Len(incident) + 1] = e
  <2>1. incident' = Append(incident, e)
    BY DEF e
  <2> QED BY <1>3, <1>4, <2>1, AppendProperties, LenProperties
<1>6. incident'[Len(incident) + 1].host = h /\ incident'[Len(incident) + 1].packets = <<>>
  BY <1>5 DEF e
<1>7. ASSUME NEW n, n = Len(incident) + 1
      PROVE  PacketsOf(n)' = {}
  <2>1. incident'[n].packets = <<>>
    BY <1>6, <1>7
  <2>2. Len(incident'[n].packets) = 0
    BY <2>1, EmptySeq
  <2>3. \A p : p \in PacketsOf(n)' => \E k \in 1..Len(incident'[n].packets) :
                                         p = incident'[n].packets[k]
    BY DEF PacketsOf
  <2>4. \A k : k \notin 1..0
    OBVIOUS
  <2>5. \A p : p \notin PacketsOf(n)'
    BY <2>2, <2>3, <2>4, Zenon
  <2> QED BY <2>5, Zenon
<1>8. \A j \in 1..Len(incident) : PacketsOf(j)' = PacketsOf(j)
  BY <1>5 DEF PacketsOf
<1> QED BY <1>5, <1>6, <1>7, <1>8

-----------------------------------------------------------------------------
(* Types. *)

Thread(n, p) ==
    [at : Steps, start : SUBSET Host, seen : SUBSET Host, todo : Seq(1..n),
     said : SUBSET (1..p)]

LEMMA WorkersType ==
    ASSUME TypeOK, NEW w \in Worker
    PROVE  /\ worker \in [Worker -> Thread(Len(incident), received)]
           /\ worker[w] \in Thread(Len(incident), received)
           /\ worker[w].todo \in Seq(1..Len(incident))
           /\ worker[w].said \subseteq 1..received
BY DEF TypeOK, WorkersOK, Thread

\* A worker turns to something else, and no event or packet is new.
LEMMA BecomesType ==
    ASSUME TypeOK, NEW w \in Worker, NEW r \in Thread(Len(incident), received),
           Becomes(w, r), Len(incident') = Len(incident), received' = received
    PROVE  /\ WorkersOK'
           /\ worker'[w] = r
           /\ \A v \in Worker : v # w => worker'[v] = worker[v]
<1>1. worker \in [Worker -> Thread(Len(incident), received)]
  BY WorkersType
<1>2. worker' \in [Worker -> Thread(Len(incident), received)]
  BY <1>1 DEF Becomes
<1>3. WorkersOK'
  BY <1>2 DEF WorkersOK, Thread
<1> QED BY <1>1, <1>3 DEF Becomes

LEMMA EndedType ==
    ASSUME TypeOK
    PROVE  Ended \in Thread(Len(incident), received)
<1>1. <<>> \in Seq(1..Len(incident))
  BY EmptySeq
<1> QED BY <1>1 DEF Ended, Thread, Steps

LEMMA AfterType ==
    ASSUME TypeOK, NEW todo \in Seq(1..Len(incident))
    PROVE  /\ After(todo) \in Thread(Len(incident), received)
           /\ After(todo).said = {}
           /\ After(todo).at \in {"ended", "send", "forget"}
<1>1. <<>> \in Seq(1..Len(incident))
  BY EmptySeq
<1>2. {h \in flooders : ignored[h] >= FLOODER_TIMEOUT} \subseteq Host
  BY DEF TypeOK, TimesOK
<1> QED BY <1>1, <1>2 DEF After, Ended, Thread, Steps

\* Every step of a worker leaves one of these.
Moves(w) == StartWorker(w) \/ Works(w) \/ NoAnswer(w)

LEMMA MovesType ==
    ASSUME TypeOK, Shape, NEW w \in Worker, Moves(w)
    PROVE  /\ WorkersOK'
           /\ \A v \in Worker : v # w => worker'[v] = worker[v]
           /\ worker'[w].at = "talk" => worker'[w].todo # <<>>
           /\ worker'[w].at \notin {"wait", "stuck"} => worker'[w].said = {}
<1>1. worker[w] \in Thread(Len(incident), received) /\ Ended \in Thread(Len(incident), received)
  BY WorkersType, EndedType
<1>2. <<>> \in Seq(1..Len(incident))
  BY EmptySeq
<1>3. Len(incident') = Len(incident) /\ received' = received
  BY DEF Moves, StartWorker, Works, NoAnswer, EndScan, TakeEvent, SendEvent, Answer, Visit,
         Forget, tables
<1> DEFINE Good(r) == /\ r \in Thread(Len(incident), received)
                      /\ r.at = "talk" => r.todo # <<>>
                      /\ r.at \notin {"wait", "stuck"} => r.said = {}
<1>4. \E r : Good(r) /\ Becomes(w, r)
  <2>1. Good(Ended)
    BY <1>1 DEF Ended
  <2>2. CASE StartWorker(w)
    <3> DEFINE r == [Ended EXCEPT !.at = "scan", !.start = Table]
    <3>1. Good(r)
      BY <1>1 DEF Thread, Ended, Steps, Table
    <3> QED BY <2>2, <3>1 DEF StartWorker
  <2>3. CASE EndScan(w)
    <3>1. worker[w].todo \in Seq(1..Len(incident))
      BY <1>1 DEF Thread
    <3>2. Good(After(worker[w].todo))
      BY <3>1, AfterType
    <3> QED BY <2>1, <2>3, <3>2 DEF EndScan, Ends
  <2>4. CASE TakeEvent(w)
    <3> DEFINE r == [worker[w] EXCEPT !.at = "talk"]
    <3>1. Good(r)
      BY <1>1, <2>4 DEF Thread, Steps, TakeEvent, Shape
    <3> QED BY <2>1, <2>4, <3>1 DEF TakeEvent, Ends
  <2>5. CASE SendEvent(w)
    <3> DEFINE r == [worker[w] EXCEPT !.at = "wait", !.todo = Tail(@),
                                      !.said = PacketsOf(Head(worker[w].todo))]
    <3>1. worker[w].todo \in Seq(1..Len(incident)) /\ worker[w].todo # <<>>
      BY <1>1, <2>5 DEF Thread, SendEvent, Shape
    <3>2. /\ Tail(worker[w].todo) \in Seq(1..Len(incident))
          /\ Head(worker[w].todo) \in 1..Len(incident)
      BY <3>1, HeadTailProperties
    <3>3. PacketsOf(Head(worker[w].todo)) \subseteq 1..received
      BY <3>2, PacketsType
    <3>4. Good(r)
      BY <1>1, <3>2, <3>3 DEF Thread, Steps
    <3> QED BY <2>5, <3>4 DEF SendEvent
  <2>6. CASE Answer(w)
    <3>1. worker[w].todo \in Seq(1..Len(incident))
      BY <1>1 DEF Thread
    <3>2. Good(After(worker[w].todo))
      BY <3>1, AfterType
    <3> QED BY <2>6, <3>2 DEF Answer
  <2>7. CASE NoAnswer(w)
    <3> DEFINE r == [worker[w] EXCEPT !.at = "stuck", !.todo = <<>>]
    <3>1. Good(r)
      BY <1>1, <1>2 DEF Thread, Steps
    <3> QED BY <2>7, <3>1 DEF NoAnswer
  <2>8. ASSUME NEW h \in Host, Visit(w, h)
        PROVE  \E r : Good(r) /\ Becomes(w, r)
    <3> DEFINE todo == IF quiet[h] >= SEND_WAIT_TIMEOUT
                       THEN Append(worker[w].todo, events[h]) ELSE worker[w].todo
               r == [worker[w] EXCEPT !.seen = @ \cup {h}, !.todo = todo]
    <3>1. worker[w].todo \in Seq(1..Len(incident)) /\ worker[w].at = "scan"
      BY <1>1, <2>8 DEF Thread, Visit
    <3>2. events[h] \in 1..Len(incident)
      BY <2>8, EventsType DEF Visit, Table, None, TypeOK, EventsOK
    <3>3. todo \in Seq(1..Len(incident))
      BY <3>1, <3>2, AppendProperties
    <3>4. Good(r)
      BY <1>1, <3>1, <3>3 DEF Thread, Shape
    <3>5. Becomes(w, r)
      BY <2>8 DEF Visit
    <3> QED BY <3>4, <3>5
  <2>9. ASSUME NEW h \in Host, Forget(w, h)
        PROVE  \E r : Good(r) /\ Becomes(w, r)
    <3> DEFINE r == [worker[w] EXCEPT !.start = @ \ {h}]
    <3>1. Good(r)
      BY <1>1, <2>9 DEF Thread, Forget, Shape
    <3> QED BY <2>1, <2>9, <3>1 DEF Forget, Ends
  <2> QED BY <2>2, <2>3, <2>4, <2>5, <2>6, <2>7, <2>8, <2>9 DEF Moves, Works
<1>5. PICK r : Good(r) /\ Becomes(w, r)
  BY <1>4
<1> QED BY <1>3, <1>5, BecomesType

\* The handler appends the packet, or puts the event into the table.
LEMMA AppendsFacts ==
    ASSUME TypeOK, Shape, AppendPacket \/ AddEvent
    PROVE  /\ handler.incident \in 1..Len(incident) /\ handler.host \in Host
           /\ handler.age \in 0..SEND_WAIT_TIMEOUT
           /\ received \in 1..MaxPackets /\ received' = received
           /\ AppendTo(handler.incident) \/ incident' = incident
<1>1. handler.at \in {"append", "test"}
  BY DEF AppendPacket, AddEvent
<1>2. /\ handler \in [at : {"look", "append", "test"}, host : Host,
                      age : 0..SEND_WAIT_TIMEOUT, incident : 0..Len(incident)]
      /\ handler.incident # None
  BY <1>1 DEF TypeOK, HandlerOK, Resting
<1>3. handler.incident \in 1..Len(incident)
  BY <1>2, EventsType DEF None
<1>4. received \in 1..MaxPackets
  BY <1>1, ReconAssumption DEF Shape, TypeOK, EventsOK
<1> QED BY <1>2, <1>3, <1>4 DEF AppendPacket, AddEvent

\* A worker takes an event out of the table: i is the one it sends.
LEMMA TakeFacts ==
    ASSUME TypeOK, Shape, NEW w \in Worker, TakeEvent(w)
    PROVE  \E i \in 1..Len(incident) : \E h \in Host :
               /\ i = Head(worker[w].todo) /\ incident[i].host = h
               /\ events' = [events EXCEPT ![h] = None]
               /\ quiet' = [quiet EXCEPT ![h] = 0]
               /\ Mistakes(i, events[h])
               /\ IF events[h] # None THEN Becomes(w, [worker[w] EXCEPT !.at = "talk"])
                  ELSE Ends(w)
               /\ UNCHANGED <<alive, received, incident, flooders, ignored, handler, timer,
                              reported, unanswered>>
<1>1. worker[w].todo \in Seq(1..Len(incident)) /\ worker[w].todo # <<>>
  BY WorkersType DEF TakeEvent
<1>2. Head(worker[w].todo) \in 1..Len(incident)
  BY <1>1, HeadTailProperties
<1>3. incident[Head(worker[w].todo)].host \in Host
  BY <1>2, EventsType DEF Event
<1> QED BY <1>2, <1>3 DEF TakeEvent

LEMMA EventsStep ==
    ASSUME TypeOK, Shape, Next
    PROVE  EventsOK' /\ Len(incident') \in Nat /\ Len(incident) <= Len(incident')
           /\ received <= received'
<1>1. /\ received \in 0..MaxPackets /\ received \in Nat
      /\ incident \in Seq(Event(received)) /\ Len(incident) \in Nat
      /\ events \in [Host -> 0..Len(incident)]
      /\ \A h \in Table : incident[events[h]].host = h
  BY EventsType DEF TypeOK, EventsOK
<1>2. ASSUME NEW h \in Host, Receive(h)
      PROVE  EventsOK' /\ Len(incident') \in Nat /\ Len(incident) <= Len(incident')
             /\ received <= received'
  <2>1. events' = events /\ received' = received + 1 /\ received' \in 0..MaxPackets
    BY <1>1, <1>2, ReconAssumption DEF Receive
  <2>2. CASE incident' = incident
    <3>1. Seq(1..received) \subseteq Seq(1..received')
      BY <1>1, <2>1, SeqMonotonic
    <3>2. Event(received) \subseteq Event(received')
      BY <3>1 DEF Event
    <3>3. incident' \in Seq(Event(received'))
      BY <1>1, <2>2, <3>2, SeqMonotonic
    <3> QED BY <1>1, <2>1, <2>2, <3>3 DEF EventsOK, Event, Table
  <2>3. CASE incident' = Append(incident, [host |-> h, packets |-> <<>>])
    <3>1. /\ incident' \in Seq(Event(received'))
          /\ Len(incident') = Len(incident) + 1
          /\ \A j \in 1..Len(incident) : incident'[j] = incident[j]
      BY <2>1, <2>3, NewEventFacts
    <3>2. events' \in [Host -> 0..Len(incident')]
      BY <1>1, <2>1, <3>1
    <3>3. \A g \in Table' : incident'[events'[g]].host = g
      BY <1>1, <2>1, <3>1 DEF Table, None
    <3> QED BY <1>1, <2>1, <3>1, <3>2, <3>3 DEF EventsOK, Event
  <2> QED BY <1>2, <2>2, <2>3 DEF Receive
<1>3. CASE AppendPacket \/ AddEvent
  <2> DEFINE i == handler.incident
  <2>1. /\ i \in 1..Len(incident) /\ handler.host \in Host
        /\ received \in 1..MaxPackets /\ received' = received
        /\ AppendTo(i) \/ incident' = incident
    BY <1>3, AppendsFacts
  <2>2. /\ incident' \in Seq(Event(received')) /\ Len(incident') = Len(incident)
        /\ \A j \in 1..Len(incident) : incident'[j].host = incident[j].host
    <3>1. CASE incident' = incident
      BY <1>1, <2>1, <3>1
    <3>2. ASSUME NEW k \in 1..Len(incident), k = i, AppendTo(i)
          PROVE  /\ incident' \in Seq(Event(received')) /\ Len(incident') = Len(incident)
                 /\ \A j \in 1..Len(incident) : incident'[j].host = incident[j].host
      BY <2>1, <3>2, AppendToFacts
    <3> QED BY <2>1, <3>1, <3>2
  <2>3. events' = events \/ events' = [events EXCEPT ![handler.host] = i]
    BY <1>3 DEF AppendPacket, AddEvent
  <2>4. incident[i].host = handler.host
    BY <1>3 DEF Shape, AppendPacket, AddEvent
  <2>5. events' \in [Host -> 0..Len(incident')]
    <3>1. events \in [Host -> 0..Len(incident)] /\ i \in 0..Len(incident)
      BY <1>1, <2>1
    <3>2. Len(incident') = Len(incident)
      BY <2>2
    <3> QED BY <2>1, <2>3, <3>1, <3>2
  <2>6. \A g \in Table' : incident'[events'[g]].host = g
    <3>1. CASE events' = events
      BY <1>1, <2>2, <3>1 DEF Table, None
    <3>2. ASSUME NEW h \in Host, NEW j \in 1..Len(incident), incident[j].host = h,
                 events' = [events EXCEPT ![h] = j]
          PROVE  \A g \in Table' : incident'[events'[g]].host = g
      BY <1>1, <2>2, <3>2 DEF Table, None
    <3>3. \/ events' = events
          \/ \E h \in Host, j \in 1..Len(incident) :
                 incident[j].host = h /\ events' = [events EXCEPT ![h] = j]
      BY <2>1, <2>3, <2>4, Zenon
    <3> QED BY <3>1, <3>2, <3>3, Zenon
  <2>7. received' \in 0..MaxPackets /\ received <= received'
    BY <1>1, <2>1
  <2>8. Len(incident') \in Nat /\ Len(incident) <= Len(incident')
    BY <1>1, <2>2
  <2>9. EventsOK'
    BY <2>2, <2>5, <2>6, <2>7, Zenon DEF EventsOK, Event
  <2> QED BY <2>7, <2>8, <2>9
<1>4. ASSUME UNCHANGED <<received, incident>>,
             \A h \in Host : events'[h] \in {events[h], None},
             events' \in [Host -> 0..Len(incident)]
      PROVE  EventsOK' /\ Len(incident') \in Nat /\ Len(incident) <= Len(incident')
             /\ received <= received'
  BY <1>1, <1>4 DEF EventsOK, Event, Table
<1>5. CASE HandlerRaises
  BY <1>1, <1>4, <1>5 DEF HandlerRaises, None
<1>6. CASE \E w \in Worker : TakeEvent(w)
  <2>1. PICK w \in Worker : TakeEvent(w)
    BY <1>6
  <2>2. PICK h \in Host : events' = [events EXCEPT ![h] = None]
                          /\ UNCHANGED <<received, incident>>
    BY <2>1, TakeFacts
  <2> QED BY <1>1, <1>4, <2>2 DEF None
<1>7. CASE UNCHANGED <<received, incident, events>>
  BY <1>1, <1>4, <1>7
<1> QED BY <1>2, <1>3, <1>5, <1>6, <1>7
        DEF Next, Handles, LookUp, Tick, Works, StartWorker, NoAnswer, EndScan, SendEvent,
            Answer, Visit, Forget, tables

LEMMA TimesStep ==
    ASSUME TypeOK, Shape, Next
    PROVE  TimesOK'
<1>1. /\ quiet \in [Host -> 0..SEND_WAIT_TIMEOUT]
      /\ \A h \in Host : h \in Table \/ quiet[h] = 0
      /\ flooders \subseteq Host
      /\ ignored \in [Host -> 0..FLOODER_TIMEOUT]
      /\ \A h \in Host : h \in flooders \/ ignored[h] = 0
      /\ timer \in 0..1
      /\ events \in [Host -> 0..Len(incident)]
      /\ SEND_WAIT_TIMEOUT \in Nat \ {0} /\ FLOODER_TIMEOUT \in Nat \ {0}
  BY ReconAssumption DEF TypeOK, TimesOK, EventsOK
<1>2. CASE AppendPacket \/ AddEvent
  <2>1. /\ handler.incident \in 1..Len(incident) /\ handler.host \in Host
        /\ handler.age \in 0..SEND_WAIT_TIMEOUT
    BY <1>2, AppendsFacts
  <2>2. handler.incident # None
    BY <2>1 DEF None
  <2>3. \/ UNCHANGED <<events, quiet>>
        \/ /\ quiet' = [quiet EXCEPT ![handler.host] = handler.age]
           /\ events' = [events EXCEPT ![handler.host] = handler.incident]
    BY <1>1, <1>2 DEF AppendPacket, AddEvent
  <2> QED BY <1>1, <1>2, <2>1, <2>2, <2>3 DEF TimesOK, AppendPacket, AddEvent, Table
<1>3. CASE \E h \in Host : Receive(h)
  BY <1>1, <1>3 DEF Receive, TimesOK, Table
<1>4. CASE LookUp
  BY <1>1, <1>4 DEF LookUp, TimesOK, Table, tables
<1>5. CASE HandlerRaises
  BY <1>1, <1>5 DEF HandlerRaises, TimesOK, Table
<1>6. ASSUME NEW w \in Worker, TakeEvent(w)
      PROVE  TimesOK'
  <2>1. PICK h \in Host : /\ events' = [events EXCEPT ![h] = None]
                          /\ quiet' = [quiet EXCEPT ![h] = 0]
                          /\ UNCHANGED <<flooders, ignored>>
    BY <1>6, TakeFacts
  <2>2. timer' = timer
    BY <1>6 DEF TakeEvent
  <2> QED BY <1>1, <2>1, <2>2 DEF TimesOK, Table
<1>7. ASSUME NEW w \in Worker, NEW h \in Host, Visit(w, h) \/ Forget(w, h)
      PROVE  TimesOK'
  <2>1. UNCHANGED <<events, quiet, timer>>
    BY <1>7 DEF Visit, Forget
  <2>2. CASE ignored' = ignored /\ flooders' \in {flooders, flooders \cup {h}}
    BY <1>1, <2>1, <2>2 DEF TimesOK, Table
  <2>3. CASE ignored' = [ignored EXCEPT ![h] = 0] /\ flooders' = flooders \ {h}
    BY <1>1, <2>1, <2>3 DEF TimesOK, Table
  <2> QED BY <1>7, <2>2, <2>3 DEF Visit, Forget
<1>8. ASSUME NEW w \in Worker,
             StartWorker(w) \/ EndScan(w) \/ SendEvent(w) \/ Answer(w) \/ NoAnswer(w)
      PROVE  TimesOK'
  BY <1>1, <1>8
  DEF StartWorker, EndScan, SendEvent, Answer, NoAnswer, TimesOK, Table, tables
<1>9. CASE Tick
  <2>1. quiet' \in [Host -> 0..SEND_WAIT_TIMEOUT] /\ ignored' \in [Host -> 0..FLOODER_TIMEOUT]
    BY <1>1, <1>9 DEF Tick
  <2> QED BY <1>1, <1>9, <2>1 DEF Tick, TimesOK, Table
<1> QED BY <1>2, <1>3, <1>4, <1>5, <1>6, <1>7, <1>8, <1>9 DEF Next, Handles, Works

LEMMA HandlerStep ==
    ASSUME TypeOK, Shape, Next
    PROVE  HandlerOK'
<1>1. /\ Len(incident) \in Nat /\ Len(incident') \in Nat /\ Len(incident) <= Len(incident')
      /\ events \in [Host -> 0..Len(incident)] /\ SEND_WAIT_TIMEOUT \in Nat \ {0}
  BY EventsType, EventsStep, ReconAssumption DEF TypeOK, EventsOK
<1>2. HandlerOK
  BY DEF TypeOK
<1>3. ASSUME NEW h \in Host, Receive(h)
      PROVE  HandlerOK'
  <2>1. CASE events[h] # None
    BY <1>1, <1>3, <2>1 DEF Receive, HandlerOK, None
  <2>2. CASE events[h] = None
    <3>1. Len(incident') = Len(incident) + 1
      BY <1>3, <2>2, NewEventFacts DEF Receive
    <3> QED BY <1>1, <1>3, <2>2, <3>1 DEF Receive, HandlerOK, None
  <2> QED BY <2>1, <2>2
<1> DEFINE Busy(n) == [at : {"look", "append", "test"}, host : Host,
                       age : 0..SEND_WAIT_TIMEOUT, incident : 0..n]
<1>a. ASSUME handler.at # "idle"
      PROVE  /\ handler \in Busy(Len(incident))
             /\ handler.at = "look" <=> handler.incident = None
  BY <1>2, <1>a DEF HandlerOK, Resting
<1>4. CASE LookUp
  <2>1. handler.at # "idle" /\ UNCHANGED incident
    BY <1>4 DEF LookUp, tables
  <2>2. handler \in Busy(Len(incident))
    BY <2>1, <1>a
  <2>3. PICK i : i = events[handler.host] /\ i # None
                 /\ handler' = [handler EXCEPT !.at = "append", !.incident = i]
    BY <1>4 DEF LookUp
  <2>4. i \in 0..Len(incident)
    BY <1>1, <2>2, <2>3
  <2>5. handler' \in Busy(Len(incident')) /\ handler'.at = "append" /\ handler'.incident = i
    BY <2>1, <2>2, <2>3, <2>4
  <2> QED BY <2>3, <2>5 DEF HandlerOK
<1>5. CASE HandlerRaises \/ AddEvent
  BY <1>5 DEF HandlerRaises, AddEvent, HandlerOK, Resting
<1>6. CASE AppendPacket
  BY <1>1, <1>2, <1>6 DEF AppendPacket, HandlerOK, Resting
<1>7. CASE Tick
  <2>1. CASE handler.at # "idle" /\ handler.age < SEND_WAIT_TIMEOUT
    <3>1. /\ handler \in Busy(Len(incident)) /\ UNCHANGED incident
          /\ handler.at = "look" <=> handler.incident = None
      BY <1>7, <1>a, <2>1 DEF Tick
    <3>2. handler' = [handler EXCEPT !.age = @ + 1]
      BY <1>7, <2>1 DEF Tick
    <3>3. handler.age + 1 \in 0..SEND_WAIT_TIMEOUT
      BY <1>1, <2>1, <3>1
    <3>4. /\ handler' \in Busy(Len(incident')) /\ handler'.at = handler.at
          /\ handler'.incident = handler.incident
      BY <3>1, <3>2, <3>3
    <3> QED BY <3>1, <3>4 DEF HandlerOK
  <2>2. CASE UNCHANGED <<handler, incident>>
    BY <1>2, <2>2 DEF HandlerOK, Resting
  <2> QED BY <1>7, <2>1, <2>2 DEF Tick
<1>8. ASSUME UNCHANGED handler
      PROVE  HandlerOK'
  BY <1>1, <1>2, <1>8 DEF HandlerOK, Resting
<1>9. CASE \E w \in Worker : Moves(w)
  <2>1. handler' = handler
    BY <1>9 DEF Moves, StartWorker, Works, NoAnswer, EndScan, TakeEvent, SendEvent, Answer,
                Visit, Forget
  <2> QED BY <1>8, <2>1
<1> QED BY <1>3, <1>4, <1>5, <1>6, <1>7, <1>9 DEF Next, Handles, Moves

LEMMA WorkersStep ==
    ASSUME TypeOK, Shape, Next
    PROVE  WorkersOK'
<1>1. CASE \E w \in Worker : Moves(w)
  BY <1>1, MovesType
<1>2. CASE UNCHANGED worker
  <2>1. /\ Len(incident) \in Nat /\ Len(incident') \in Nat /\ Len(incident) <= Len(incident')
        /\ received \in Nat /\ received' \in Nat /\ received <= received'
    BY EventsType, EventsStep, ReconAssumption DEF TypeOK, EventsOK
  <2>2. 1..Len(incident) \subseteq 1..Len(incident') /\ 1..received \subseteq 1..received'
    BY <2>1
  <2>3. Seq(1..Len(incident)) \subseteq Seq(1..Len(incident'))
    BY <2>2, SeqMonotonic
  <2>4. Thread(Len(incident), received) \subseteq Thread(Len(incident'), received')
    BY <2>2, <2>3 DEF Thread
  <2>5. worker \in [Worker -> Thread(Len(incident), received)]
    BY DEF TypeOK, WorkersOK, Thread
  <2>6. worker' \in [Worker -> Thread(Len(incident'), received')]
    BY <1>2, <2>4, <2>5
  <2> QED BY <2>6 DEF WorkersOK, Thread
<1>3. CASE HandlerRaises
  <2>1. Ended \in Thread(Len(incident), received)
    BY EndedType
  <2>2. worker' \in [Worker -> Thread(Len(incident'), received')]
    BY <1>3, <2>1 DEF HandlerRaises
  <2> QED BY <2>2 DEF WorkersOK, Thread
<1> QED BY <1>1, <1>2, <1>3
        DEF Next, Handles, Moves, Receive, LookUp, AppendPacket, AddEvent, Tick

LEMMA ReportFacts ==
    ASSUME TypeOK, NEW S \in SUBSET Packet, Report(S)
    PROVE  /\ reported' \in [Packet -> 0..2]
           /\ \A p \in Packet \ S : reported'[p] = reported[p]
           /\ \A p \in S : reported'[p] > 0 /\ (reported[p] = 0 => reported'[p] = 1)
           /\ \A p \in Packet : reported[p] > 0 => reported'[p] > 0
<1>1. reported \in [Packet -> 0..2]
  BY DEF TypeOK, RecordsOK
<1> QED BY <1>1 DEF Report

LEMMA RecordsStep ==
    ASSUME TypeOK, Shape, Next
    PROVE  RecordsOK'
<1>1. /\ Len(incident) \in Nat /\ Len(incident') \in Nat /\ Len(incident) <= Len(incident')
      /\ reported \in [Packet -> 0..2] /\ unanswered \in 0..MaxUnanswered
      /\ again \subseteq 1..Len(incident) /\ dropped \subseteq 1..Len(incident)
      /\ MaxUnanswered \in Nat /\ events \in [Host -> 0..Len(incident)]
  BY EventsType, EventsStep, ReconAssumption DEF TypeOK, RecordsOK, EventsOK
<1>2. 1..Len(incident) \subseteq 1..Len(incident')
  BY <1>1
<1>3. ASSUME NEW w \in Worker, Answer(w) \/ NoAnswer(w)
      PROVE  RecordsOK'
  <2>1. worker[w].said \subseteq Packet
    <3>1. received \in 0..MaxPackets
      BY DEF TypeOK, EventsOK
    <3> QED BY <3>1, WorkersType, ReconAssumption DEF Packet
  <2>2. reported' \in [Packet -> 0..2]
    BY <1>1, <1>3, <2>1, ReportFacts DEF Answer, NoAnswer
  <2> QED BY <1>1, <1>2, <1>3, <2>2 DEF Answer, NoAnswer, RecordsOK, history
<1>4. ASSUME NEW w \in Worker, TakeEvent(w)
      PROVE  RecordsOK'
  <2>1. PICK i \in 1..Len(incident), h \in Host : Mistakes(i, events[h])
    BY <1>4, TakeFacts
  <2>2. events[h] # None => events[h] \in 1..Len(incident)
    BY <1>1 DEF None
  <2> QED BY <1>1, <1>2, <1>4, <2>1, <2>2 DEF TakeEvent, Mistakes, RecordsOK, history
<1>5. CASE AddEvent
  <2>1. handler.incident \in 1..Len(incident)
    BY <1>5, AppendsFacts
  <2> QED BY <1>1, <1>2, <1>5, <2>1 DEF AddEvent, RecordsOK
<1>6. CASE UNCHANGED <<reported, unanswered, history>>
  BY <1>1, <1>2, <1>6 DEF RecordsOK, history
<1> QED BY <1>3, <1>4, <1>5, <1>6
        DEF Next, Handles, Works, Receive, LookUp, HandlerRaises, AppendPacket, Tick,
            StartWorker, EndScan, SendEvent, Visit, Forget

LEMMA TypeStep == TypeOK /\ Shape /\ [Next]_vars => TypeOK'
<1> SUFFICES ASSUME TypeOK, Shape, [Next]_vars
             PROVE  TypeOK'
  OBVIOUS
<1>1. CASE Next
  <2>1. alive' \in BOOLEAN
    BY <1>1 DEF TypeOK, Next, Handles, Works, Receive, LookUp, HandlerRaises, AppendPacket,
                AddEvent, Tick, StartWorker, EndScan, TakeEvent, SendEvent, Answer,
                NoAnswer, Visit, Forget
  <2> QED BY <1>1, <2>1, EventsStep, TimesStep, HandlerStep, WorkersStep, RecordsStep
          DEF TypeOK
<1>2. CASE UNCHANGED vars
  BY <1>2 DEF vars, tables, history, TypeOK, EventsOK, TimesOK, HandlerOK, WorkersOK,
              RecordsOK, Table
<1> QED BY <1>1, <1>2

-----------------------------------------------------------------------------
(* Shape and Fresh. *)

\* What a worker leaves alone.
LEMMA MovesFacts ==
    ASSUME TypeOK, Shape, NEW w \in Worker, Moves(w)
    PROVE  /\ UNCHANGED <<received, incident, handler, alive>>
           /\ \A h \in Host : events'[h] \in {events[h], None}
           /\ worker'[w].said # {} => SendEvent(w) \/ NoAnswer(w)
           /\ ~ (Answer(w) \/ NoAnswer(w)) => reported' = reported
           /\ ~ TakeEvent(w) => UNCHANGED <<events, history>>
<1>1. /\ UNCHANGED <<received, incident, handler, alive>>
      /\ ~ (Answer(w) \/ NoAnswer(w)) => reported' = reported
  BY DEF Moves, StartWorker, Works, NoAnswer, EndScan, TakeEvent, SendEvent, Answer, Visit,
         Forget, tables
<1>2. ~ TakeEvent(w) => UNCHANGED <<events, history>>
  BY DEF Moves, StartWorker, Works, NoAnswer, EndScan, SendEvent, Answer, Visit, Forget,
         tables
<1>3. \A h \in Host : events'[h] \in {events[h], None}
  <2>1. CASE TakeEvent(w)
    <3>1. PICK h \in Host : events' = [events EXCEPT ![h] = None]
      BY <2>1, TakeFacts
    <3> QED BY <3>1 DEF TypeOK, EventsOK
  <2> QED BY <1>2, <2>1
<1>4. worker'[w].said # {} => SendEvent(w) \/ NoAnswer(w)
  <2>1. /\ worker \in [Worker -> Thread(Len(incident), received)]
        /\ worker[w].todo \in Seq(1..Len(incident))
    BY WorkersType
  <2>2. \A r : Becomes(w, r) => worker'[w] = r
    BY <2>1 DEF Becomes
  <2>3. Ended.said = {} /\ After(worker[w].todo).said = {}
    BY <2>1, AfterType DEF Ended
  <2>4. \A S : Becomes(w, [Ended EXCEPT !.at = "scan", !.start = S]) => worker'[w].said = {}
    BY <2>2 DEF Ended
  <2>5. \A h : Visit(w, h) \/ Forget(w, h) \/ TakeEvent(w) => worker[w].said = {}
    BY DEF Shape, Visit, Forget, TakeEvent
  <2>6. ASSUME NEW h \in Host, Visit(w, h) \/ Forget(w, h) \/ TakeEvent(w)
        PROVE  worker'[w].said = {}
    <3>1. worker[w].said = {} /\ worker[w] \in Thread(Len(incident), received)
      BY <2>1, <2>5, <2>6
    <3>2. PICK a, s, n, d : \/ Becomes(w, [worker[w] EXCEPT !.at = a])
                            \/ Becomes(w, [worker[w] EXCEPT !.start = s])
                            \/ Becomes(w, [worker[w] EXCEPT !.seen = n, !.todo = d])
                            \/ Becomes(w, Ended)
      BY <2>6, Zenon DEF Visit, Forget, TakeEvent, Ends
    <3>3. /\ [worker[w] EXCEPT !.at = a].said = {}
          /\ [worker[w] EXCEPT !.start = s].said = {}
          /\ [worker[w] EXCEPT !.seen = n, !.todo = d].said = {}
      BY <3>1 DEF Thread
    <3> QED BY <2>2, <2>3, <3>2, <3>3
  <2>7. CASE StartWorker(w) \/ EndScan(w) \/ Answer(w)
    BY <2>2, <2>3, <2>4, <2>7 DEF StartWorker, EndScan, Answer, Ends
  <2>8. TakeEvent(w) => \E h \in Host : TRUE
    BY TakeFacts
  <2> QED BY <2>6, <2>7, <2>8 DEF Moves, Works
<1> QED BY <1>1, <1>2, <1>3, <1>4

\* What time does to the handler.
LEMMA TickFacts ==
    ASSUME TypeOK, Tick
    PROVE  /\ handler'.at = handler.at
           /\ handler.at # "idle" => /\ handler'.host = handler.host
                                     /\ handler'.incident = handler.incident
           /\ UNCHANGED <<alive, received, incident, events, worker, reported, history>>
<1>1. \/ handler = Resting
      \/ handler \in [at : {"look", "append", "test"}, host : Host,
                      age : 0..SEND_WAIT_TIMEOUT, incident : 0..Len(incident)]
  BY DEF TypeOK, HandlerOK
<1> QED BY <1>1 DEF Tick, Resting

LEMMA ShapeStep == TypeOK /\ Shape /\ [Next]_vars => Shape'
<1> SUFFICES ASSUME TypeOK, Shape, [Next]_vars
             PROVE  Shape'
  OBVIOUS
<1>1. /\ received \in Nat /\ Len(incident) \in Nat
      /\ events \in [Host -> 0..Len(incident)]
      /\ \A h \in Table : incident[events[h]].host = h
  BY EventsType DEF TypeOK, EventsOK
<1> DEFINE Threads == \A w \in Worker :
               /\ worker[w].at = "talk" => worker[w].todo # <<>>
               /\ worker[w].at \notin {"wait", "stuck"} => worker[w].said = {}
<1>2. Threads
  BY DEF Shape
<1>3. UNCHANGED worker => Threads'
  BY <1>2
<1>4. ASSUME NEW h \in Host, Receive(h)
      PROVE  Shape'
  <2>1. received' >= 1 /\ Threads'
    BY <1>1, <1>3, <1>4 DEF Receive
  <2>2. CASE events[h] # None
    BY <1>4, <2>1, <2>2 DEF Receive, Shape
  <2>3. CASE events[h] = None
    <3>1. incident'[Len(incident) + 1].host = h
      BY <1>4, <2>3, NewEventFacts DEF Receive
    <3>2. /\ handler' = [at |-> "append", host |-> h, age |-> 0,
                         incident |-> Len(incident) + 1]
          /\ events' = events
      BY <1>4, <2>3 DEF Receive
    <3> QED BY <2>1, <2>3, <3>1, <3>2 DEF Shape
  <2> QED BY <2>2, <2>3
<1>5. CASE LookUp
  <2>1. handler \in [at : {"look", "append", "test"}, host : Host,
                     age : 0..SEND_WAIT_TIMEOUT, incident : 0..Len(incident)]
    BY <1>5 DEF LookUp, TypeOK, HandlerOK, Resting
  <2>2. PICK i : /\ i = events[handler.host] /\ i # None
                 /\ handler' = [handler EXCEPT !.at = "append", !.incident = i]
    BY <1>5 DEF LookUp
  <2>3. incident[i].host = handler.host
    BY <1>1, <2>1, <2>2 DEF Table
  <2>4. received >= 1 /\ UNCHANGED <<received, events, incident>> /\ Threads'
    BY <1>3, <1>5 DEF LookUp, Shape, tables
  <2>5. /\ handler'.at = "append" /\ handler'.host = handler.host
        /\ handler'.incident = i
    BY <2>1, <2>2
  <2> QED BY <2>2, <2>3, <2>4, <2>5 DEF Shape
<1>6. CASE HandlerRaises
  BY <1>6 DEF HandlerRaises, Shape, Resting, Ended
<1>7. CASE AppendPacket
  <2>1. PICK i : i = handler.incident /\ AppendTo(i)
    BY <1>7 DEF AppendPacket
  <2>2. i \in 1..Len(incident) /\ received >= 1 /\ received' = received
    BY <1>7, <2>1, AppendsFacts
  <2>3. /\ incident'[i].host = incident[i].host
        /\ received \in PacketsOf(i)'
    BY <2>1, <2>2, AppendToFacts
  <2>4. /\ handler'.at = "test" /\ handler'.host = handler.host /\ handler'.incident = i
        /\ events' = events /\ Threads'
    <3>1. handler \in [at : {"look", "append", "test"}, host : Host,
                       age : 0..SEND_WAIT_TIMEOUT, incident : 0..Len(incident)]
      BY <1>7 DEF AppendPacket, TypeOK, HandlerOK, Resting
    <3> QED BY <1>3, <1>7, <2>1, <3>1 DEF AppendPacket
  <2>5. incident[i].host = handler.host /\ events[handler.host] \in {None, i}
    BY <1>7, <2>1 DEF Shape, AppendPacket
  <2>6. PacketsOf(i)' = PacketsOf(handler.incident)'
    BY <2>4 DEF PacketsOf
  <2> QED BY <2>2, <2>3, <2>4, <2>5, <2>6 DEF Shape
<1>8. CASE AddEvent
  BY <1>3, <1>8 DEF AddEvent, Shape, Resting
<1>9. ASSUME NEW w \in Worker, Moves(w)
      PROVE  Shape'
  <2>1. Threads'
    BY <1>2, <1>9, MovesType
  <2>2. /\ UNCHANGED <<received, incident, handler>>
        /\ \A h \in Host : events'[h] \in {events[h], None}
    BY <1>9, MovesFacts
  <2>3. handler.at # "idle" => handler.host \in Host
    BY DEF TypeOK, HandlerOK, Resting
  <2>4. UNCHANGED PacketsOf(handler.incident)
    BY <2>2 DEF PacketsOf
  <2> QED BY <2>1, <2>2, <2>3, <2>4 DEF Shape
<1>10. CASE Tick
  <2>1. Threads'
    BY <1>3, <1>10, TickFacts
  <2>2. UNCHANGED PacketsOf(handler.incident) \/ handler.at = "idle"
    BY <1>10, TickFacts DEF PacketsOf
  <2> QED BY <1>10, <2>1, <2>2, TickFacts DEF Shape
<1>11. CASE UNCHANGED vars
  BY <1>11 DEF vars, tables, Shape, PacketsOf
<1> QED BY <1>4, <1>5, <1>6, <1>7, <1>8, <1>9, <1>10, <1>11 DEF Next, Handles, Moves

LEMMA FreshStep == TypeOK /\ Shape /\ Fresh /\ [Next]_vars => Fresh'
<1> SUFFICES ASSUME TypeOK, Shape, Fresh, [Next]_vars
             PROVE  Fresh'
  OBVIOUS
<1>1. /\ received \in Nat /\ received \in 0..MaxPackets /\ MaxPackets \in Nat
      /\ Len(incident) \in Nat
  BY EventsType, ReconAssumption DEF TypeOK, EventsOK
<1>2. ASSUME NEW h \in Host, Receive(h)
      PROVE  Fresh'
  <2>1. /\ received' = received + 1 /\ received' \in Packet
        /\ UNCHANGED <<worker, reported>>
    BY <1>1, <1>2 DEF Receive, Packet
  <2>2. \A p \in Packet : p > received' => reported'[p] = 0
    BY <1>1, <2>1 DEF Fresh, Packet
  <2>3. reported'[received'] = 0
    BY <1>1, <2>1 DEF Fresh, Packet
  <2>4. \A w \in Worker : received' \notin worker'[w].said
    BY <1>1, <2>1, WorkersType
  <2>5. \A i \in 1..Len(incident) : received' \notin PacketsOf(i)
    BY <1>1, <2>1, PacketsType
  <2>6. ASSUME NEW i \in 1..Len(incident')
        PROVE  received' \notin PacketsOf(i)'
    <3>1. CASE incident' = incident
      <4>1. PacketsOf(i)' = PacketsOf(i)
        BY <3>1 DEF PacketsOf
      <4> QED BY <2>5, <2>6, <3>1, <4>1
    <3>2. CASE incident' = Append(incident, [host |-> h, packets |-> <<>>])
      <4>1. /\ Len(incident') = Len(incident) + 1
            /\ \A n : n = Len(incident) + 1 => PacketsOf(n)' = {}
            /\ \A j \in 1..Len(incident) : PacketsOf(j)' = PacketsOf(j)
        BY <2>1, <3>2, NewEventFacts
      <4>2. i \in 1..Len(incident) \/ i = Len(incident) + 1
        BY <1>1, <4>1
      <4> QED BY <2>5, <4>1, <4>2
    <3> QED BY <1>2, <3>1, <3>2 DEF Receive
  <2> QED BY <2>2, <2>3, <2>4, <2>6 DEF Fresh
<1>3. CASE LookUp
  <2>1. handler.at = "look" /\ UNCHANGED <<received, incident, worker, reported>>
    BY <1>3 DEF LookUp, tables
  <2> QED BY <2>1 DEF Fresh, PacketsOf
<1>4. CASE HandlerRaises \/ AppendPacket \/ AddEvent
  <2>1. handler'.at \notin {"look", "append"} /\ UNCHANGED <<received, reported>>
    <3>1. AppendPacket => handler'.at = "test"
      BY DEF AppendPacket, TypeOK, HandlerOK, Resting
    <3> QED BY <1>4, <3>1 DEF HandlerRaises, AppendPacket, AddEvent, Resting
  <2> QED BY <2>1 DEF Fresh
<1>5. ASSUME NEW w \in Worker, Moves(w)
      PROVE  Fresh'
  <2>1. /\ UNCHANGED <<received, incident, handler>>
        /\ \A v \in Worker : v # w => worker'[v] = worker[v]
    BY <1>5, MovesFacts, MovesType
  <2>2. /\ worker[w].said \subseteq Packet /\ worker[w].said \subseteq 1..received
    BY <1>1, WorkersType DEF Packet
  <2>3. \A p \in Packet \ worker[w].said : reported'[p] = reported[p]
    <3>1. CASE Answer(w) \/ NoAnswer(w)
      BY <2>2, <3>1, ReportFacts DEF Answer, NoAnswer
    <3> QED BY <1>5, <3>1, MovesFacts
  <2>4. \A p \in Packet : p > received' => reported'[p] = 0
    <3>1. \A p \in Packet : p > received => p \notin worker[w].said
      BY <1>1, <2>2 DEF Packet
    <3> QED BY <2>1, <2>3, <3>1 DEF Fresh
  <2>5. incident' = incident /\ \A i : PacketsOf(i)' = PacketsOf(i)
    BY <2>1 DEF PacketsOf
  <2>6. ASSUME handler.at \in {"look", "append"}
        PROVE  received \notin worker'[w].said /\ reported'[received] = 0
    <3>1. /\ \A i \in 1..Len(incident) : received \notin PacketsOf(i)
          /\ received \notin worker[w].said /\ reported[received] = 0
      BY <2>6 DEF Fresh
    <3>2. received \in Packet
      BY <1>1, <2>6 DEF Shape, Packet
    <3>3. CASE SendEvent(w)
      <4>1. worker[w].todo \in Seq(1..Len(incident)) /\ worker[w].todo # <<>>
        BY <3>3, WorkersType DEF SendEvent, Shape
      <4>2. Head(worker[w].todo) \in 1..Len(incident)
        BY <4>1, HeadTailProperties
      <4>3. worker'[w].said = PacketsOf(Head(worker[w].todo))
        BY <3>3, WorkersType DEF SendEvent, Becomes, Thread
      <4> QED BY <2>3, <3>1, <3>2, <4>2, <4>3
    <3>4. CASE NoAnswer(w)
      <4>1. worker'[w].said = worker[w].said
        BY <3>4, WorkersType DEF NoAnswer, Becomes, Thread
      <4> QED BY <2>3, <3>1, <3>2, <4>1
    <3>5. CASE worker'[w].said = {}
      BY <2>3, <3>1, <3>2, <3>5
    <3> QED BY <1>5, <3>3, <3>4, <3>5, MovesFacts
  <2> QED BY <2>1, <2>4, <2>5, <2>6 DEF Fresh
<1>6. CASE Tick
  BY <1>6, TickFacts DEF Fresh, PacketsOf
<1>7. CASE UNCHANGED vars
  BY <1>7 DEF vars, tables, Fresh, PacketsOf
<1> QED BY <1>2, <1>3, <1>4, <1>5, <1>6, <1>7 DEF Next, Handles, Moves

LEMMA InitIInv == Init => IInv
<1> SUFFICES ASSUME Init
             PROVE  IInv
  OBVIOUS
<1>1. Len(incident) = 0 /\ incident \in Seq(Event(0)) /\ <<>> \in Seq(1..0)
  BY EmptySeq DEF Init
<1>2. EventsOK
  BY <1>1, ReconAssumption DEF Init, EventsOK, Event, Table, None
<1>3. TimesOK /\ HandlerOK
  BY ReconAssumption DEF Init, TimesOK, HandlerOK, Table
<1>4. WorkersOK
  BY <1>1 DEF Init, WorkersOK, Ended, Steps
<1>5. RecordsOK
  BY ReconAssumption DEF Init, RecordsOK
<1>6. Shape /\ Fresh
  BY DEF Init, Shape, Fresh, Resting, Ended
<1> QED BY <1>2, <1>3, <1>4, <1>5, <1>6 DEF IInv, TypeOK, Init

(***************************************************************************)
(* The tables, the handler and the workers hold what their types say, for  *)
(* any hosts and timeouts: a host in the table of events has an event of   *)
(* its own (recon.py, lines 89-95, 138-143).                               *)
(***************************************************************************)
THEOREM TypeCorrect == Spec => []TypeOK
<1>1. IInv /\ [Next]_vars => IInv'
  BY TypeStep, ShapeStep, FreshStep DEF IInv
<1>2. IInv => TypeOK
  BY DEF IInv
<1> QED BY InitIInv, <1>1, <1>2, PTL DEF Spec

-----------------------------------------------------------------------------
(* No packet is lost. *)

\* Where a packet may be: the parts of NoPacketLost, for one packet.
Tabled(p) == \E h \in Host : events[h] # None /\ p \in PacketsOf(events[h])
Holds(w, p) ==
    \/ p \in worker[w].said
    \/ worker[w].at = "talk" /\ p \in PacketsOf(Head(worker[w].todo))
Kept(p) ==
    \/ handler.at # "idle" /\ p = received
    \/ Tabled(p)
    \/ \E w \in Worker : Holds(w, p)
    \/ \E i \in dropped : p \in PacketsOf(i)
    \/ reported[p] > 0

AllKept == alive => \A p \in 1..received : Kept(p)

LEMMA KeptIsNotLost == NoPacketLost <=> AllKept
<1>1. \A p : p \in InHand <=> handler.at # "idle" /\ p = received
  BY DEF InHand
<1>2. \A p : p \in InTable <=> Tabled(p)
  BY DEF InTable, Tabled, Table
<1>3. \A p : p \in Underway <=> \E w \in Worker : Holds(w, p)
  <2> DEFINE A == UNION {worker[w].said : w \in Worker}
             B == UNION {PacketsOf(Head(worker[w].todo)) :
                             w \in {v \in Worker : worker[v].at = "talk"}}
  <2>1. \A p : p \in A <=> \E w \in Worker : p \in worker[w].said
    OBVIOUS
  <2>2. \A p : p \in B <=> \E w \in Worker : /\ worker[w].at = "talk"
                                           /\ p \in PacketsOf(Head(worker[w].todo))
    OBVIOUS
  <2>3. Underway = A \cup B
    BY DEF Underway
  <2> QED BY <2>1, <2>2, <2>3 DEF Holds
<1>4. \A p : p \in Dropped <=> \E i \in dropped : p \in PacketsOf(i)
  BY DEF Dropped
<1> QED BY <1>1, <1>2, <1>3, <1>4, Zenon DEF NoPacketLost, AllKept, Kept

\* Events keep their packets.
LEMMA PacketsStay ==
    ASSUME TypeOK, Shape, Next
    PROVE  \A i \in 1..Len(incident) : PacketsOf(i) \subseteq PacketsOf(i)'
<1>1. CASE \E h \in Host : Receive(h)
  <2>1. PICK h \in Host : Receive(h)
    BY <1>1
  <2>2. CASE incident' = incident
    BY <2>2 DEF PacketsOf
  <2>3. CASE incident' = Append(incident, [host |-> h, packets |-> <<>>])
    BY <2>1, <2>3, NewEventFacts DEF Receive
  <2> QED BY <2>1, <2>2, <2>3 DEF Receive
<1>2. CASE AppendPacket \/ AddEvent
  <2>1. PICK i \in 1..Len(incident) : AppendTo(i) \/ incident' = incident
    BY <1>2, AppendsFacts
  <2>2. CASE AppendTo(i)
    <3>1. received >= 1
      BY <1>2, AppendsFacts
    <3> QED BY <2>2, <3>1, AppendToFacts
  <2>3. CASE incident' = incident
    BY <2>3 DEF PacketsOf
  <2> QED BY <2>1, <2>2, <2>3
<1>3. CASE incident' = incident
  BY <1>3 DEF PacketsOf
<1>4. LookUp \/ HandlerRaises \/ Tick => incident' = incident
  BY DEF LookUp, HandlerRaises, Tick, tables
<1> QED BY <1>1, <1>2, <1>3, <1>4, MovesFacts DEF Next, Handles, Moves

\* What is not touched is kept.
LEMMA KeptWhereItIs ==
    ASSUME TypeOK, Shape, Next, NEW p \in 1..received
    PROVE  /\ Tabled(p) /\ (\A h \in Host : events[h] # None => events'[h] = events[h])
                  => Tabled(p)'
           /\ \A w \in Worker : Holds(w, p) /\ worker'[w] = worker[w] => Holds(w, p)'
           /\ dropped \subseteq dropped' =>
                  ((\E i \in dropped : p \in PacketsOf(i))
                       => \E i \in dropped' : p \in PacketsOf(i)')
<1>1. /\ events \in [Host -> 0..Len(incident)] /\ Len(incident) \in Nat
      /\ dropped \subseteq 1..Len(incident)
  BY EventsType DEF TypeOK, EventsOK, RecordsOK
<1>2. \A i \in 1..Len(incident) : PacketsOf(i) \subseteq PacketsOf(i)'
  BY PacketsStay
<1>3. ASSUME Tabled(p), \A h \in Host : events[h] # None => events'[h] = events[h]
      PROVE  Tabled(p)'
  <2>1. PICK h \in Host : events[h] # None /\ p \in PacketsOf(events[h])
    BY <1>3 DEF Tabled
  <2>2. PICK i : i = events[h] /\ i \in 1..Len(incident)
    BY <1>1, <2>1 DEF None
  <2>3. p \in PacketsOf(i)' /\ events'[h] = i
    BY <1>2, <1>3, <2>1, <2>2
  <2> QED BY <2>1, <2>2, <2>3 DEF Tabled, PacketsOf
<1>4. ASSUME NEW w \in Worker, Holds(w, p), worker'[w] = worker[w]
      PROVE  Holds(w, p)'
  <2>1. CASE p \in worker[w].said
    BY <1>4, <2>1 DEF Holds
  <2>2. CASE worker[w].at = "talk" /\ p \in PacketsOf(Head(worker[w].todo))
    <3>1. worker[w].todo \in Seq(1..Len(incident)) /\ worker[w].todo # <<>>
      BY <2>2, WorkersType DEF Shape
    <3>2. PICK i \in 1..Len(incident) : i = Head(worker[w].todo)
      BY <3>1, HeadTailProperties
    <3>3. p \in PacketsOf(i)'
      BY <1>2, <2>2, <3>2
    <3> QED BY <1>4, <2>2, <3>2, <3>3 DEF Holds, PacketsOf
  <2> QED BY <1>4, <2>1, <2>2 DEF Holds
<1> QED BY <1>1, <1>2, <1>3, <1>4

LEMMA KeptStep ==
    ASSUME IInv, Next, \A p \in 1..received : Kept(p), alive'
    PROVE  \A p \in 1..received' : Kept(p)'
<1> USE DEF IInv
<1>1. /\ received \in 0..MaxPackets /\ MaxPackets \in Nat
      /\ events \in [Host -> 0..Len(incident)] /\ Len(incident) \in Nat
      /\ reported \in [Packet -> 0..2]
  BY EventsType, ReconAssumption DEF TypeOK, EventsOK, RecordsOK
<1>2. ASSUME NEW h \in Host, Receive(h)
      PROVE  \A p \in 1..received' : Kept(p)'
  <2>1. /\ received' = received + 1 /\ handler.at = "idle" /\ handler'.at # "idle"
        /\ UNCHANGED <<events, worker, dropped, reported>>
    BY <1>2 DEF Receive, history
  <2>2. ASSUME NEW p \in 1..received
        PROVE  Kept(p)'
    <3>1. Kept(p)
      OBVIOUS
    <3> QED BY <2>1, <3>1, KeptWhereItIs DEF Kept
  <2>3. \A p \in 1..received' : p \in 1..received \/ p = received'
    BY <1>1, <2>1
  <2> QED BY <2>1, <2>2, <2>3 DEF Kept
<1>3. CASE LookUp \/ AppendPacket \/ Tick
  <2>1. /\ UNCHANGED <<received, events, worker, dropped, reported>>
        /\ handler'.at = "idle" <=> handler.at = "idle"
    BY <1>3, TickFacts
    DEF LookUp, AppendPacket, TypeOK, HandlerOK, Resting, tables, history
  <2>2. ASSUME NEW p \in 1..received
        PROVE  Kept(p)'
    <3>1. Kept(p)
      OBVIOUS
    <3> QED BY <2>1, <3>1, KeptWhereItIs DEF Kept
  <2> QED BY <2>1, <2>2
<1>4. CASE HandlerRaises
  BY <1>4 DEF HandlerRaises
<1>5. CASE AddEvent
  <2>1. PICK i \in 1..Len(incident), h \in Host : i = handler.incident /\ h = handler.host
    BY <1>5, AppendsFacts
  <2>2. /\ received \in PacketsOf(i) /\ events[h] \in {None, i}
        /\ received' = received /\ received >= 1
        /\ UNCHANGED <<worker, dropped, reported>>
    BY <1>5, <2>1, AppendsFacts DEF AddEvent, Shape
  <2>3. /\ events[h] # None => events' = events
        /\ events[h] = None => events' = [events EXCEPT ![h] = i]
    BY <1>5, <2>1 DEF AddEvent
  <2>4. /\ events'[h] = i /\ i # None
        /\ \A g \in Host : events[g] # None => events'[g] = events[g]
    BY <1>1, <2>1, <2>2, <2>3 DEF None
  <2>5. received \in PacketsOf(i)'
    BY <2>2, PacketsStay
  <2>6. Tabled(received)'
    BY <2>2, <2>4, <2>5 DEF Tabled, PacketsOf
  <2>7. ASSUME NEW p \in 1..received
        PROVE  Kept(p)'
    <3>1. CASE p = received
      BY <2>2, <2>6, <3>1 DEF Kept
    <3>2. CASE p # received
      <4>1. Kept(p)
        OBVIOUS
      <4> QED BY <2>2, <2>4, <3>2, <4>1, KeptWhereItIs DEF Kept
    <3> QED BY <3>1, <3>2
  <2> QED BY <2>2, <2>7
<1>6. ASSUME NEW w \in Worker, Moves(w)
      PROVE  \A p \in 1..received' : Kept(p)'
  <2>1. /\ UNCHANGED <<received, incident, handler>>
        /\ \A v \in Worker : v # w => worker'[v] = worker[v]
        /\ ~ (Answer(w) \/ NoAnswer(w)) => reported' = reported
        /\ ~ TakeEvent(w) => UNCHANGED <<events, history>>
    BY <1>6, MovesFacts, MovesType
  <2>2. /\ worker \in [Worker -> Thread(Len(incident), received)]
        /\ worker[w].said \subseteq Packet
        /\ worker[w].todo \in Seq(1..Len(incident))
    BY <1>1, WorkersType DEF Packet
  <2>3. \A p \in Packet : reported[p] > 0 => reported'[p] > 0
    BY <2>1, <2>2, ReportFacts, Zenon DEF Answer, NoAnswer
  <2>4. \A i : PacketsOf(i)' = PacketsOf(i)
    BY <2>1 DEF PacketsOf
  <2>5. ASSUME NEW p \in 1..received
        PROVE  Kept(p)'
    <3> DEFINE Thrown == \E i \in dropped : p \in PacketsOf(i)
    <3>1. p \in Packet /\ Kept(p)
      BY <1>1 DEF Packet
    <3>2. CASE TakeEvent(w)
      <4>1. PICK i \in 1..Len(incident), h \in Host :
               /\ i = Head(worker[w].todo)
               /\ events' = [events EXCEPT ![h] = None]
               /\ Mistakes(i, events[h])
               /\ IF events[h] # None
                  THEN Becomes(w, [worker[w] EXCEPT !.at = "talk"]) ELSE Ends(w)
        BY <3>2, TakeFacts, Zenon
      <4>2. dropped \subseteq dropped' /\ (events[h] \in {i, None} \/ events[h] \in dropped')
        BY <4>1 DEF Mistakes, history
      <4>3. ~ Holds(w, p) /\ reported' = reported
        BY <3>2, <2>1 DEF TakeEvent, Holds, Shape, Answer, NoAnswer
      <4>4. CASE Tabled(p)
        <5>1. PICK g \in Host : events[g] # None /\ p \in PacketsOf(events[g])
          BY <4>4 DEF Tabled
        <5>2. CASE g # h
          <6>1. events'[g] = events[g]
            BY <1>1, <4>1, <5>2
          <6>2. p \in PacketsOf(events[g])'
            BY <2>1, <5>1, <6>1 DEF PacketsOf
          <6> QED BY <5>1, <6>1, <6>2 DEF Kept, Tabled
        <5>3. CASE g = h /\ events[h] = i
          <6>1. worker'[w] = [worker[w] EXCEPT !.at = "talk"]
            BY <2>2, <4>1, <5>1, <5>3 DEF Becomes
          <6>2. worker'[w].at = "talk" /\ Head(worker'[w].todo) = i
            BY <2>2, <4>1, <6>1 DEF Thread
          <6>3. p \in PacketsOf(i)'
            BY <2>4, <5>1, <5>3
          <6>4. Holds(w, p)'
            BY <6>2, <6>3 DEF Holds, PacketsOf
          <6> QED BY <6>4 DEF Kept
        <5>4. CASE g = h /\ events[h] \in dropped'
          <6>1. PICK j : j = events[h] /\ j \in dropped'
            BY <5>4
          <6>2. p \in PacketsOf(j)'
            BY <2>4, <5>1, <5>4, <6>1
          <6> QED BY <6>1, <6>2 DEF Kept, PacketsOf
        <5> QED BY <4>2, <5>1, <5>2, <5>3, <5>4
      <4>5. CASE \E v \in Worker : Holds(v, p)
        BY <2>1, <4>3, <4>5, KeptWhereItIs DEF Kept
      <4>6. CASE Thrown
        BY <4>2, <4>6, KeptWhereItIs DEF Kept
      <4> QED BY <2>1, <3>1, <4>3, <4>4, <4>5, <4>6 DEF Kept
    <3>3. CASE ~ TakeEvent(w)
      <4>1. UNCHANGED <<events, dropped>>
        BY <2>1, <3>3 DEF history
      <4>2. Holds(w, p) => Holds(w, p)' \/ reported'[p] > 0
        <5>1. CASE SendEvent(w)
          <6>1. worker'[w].said = PacketsOf(Head(worker[w].todo))
            BY <2>2, <5>1 DEF SendEvent, Becomes, Thread
          <6>2. worker[w].said = {}
            BY <5>1 DEF SendEvent, Shape
          <6> QED BY <6>1, <6>2 DEF Holds
        <5>2. CASE Answer(w)
          <6>1. Holds(w, p) => p \in worker[w].said
            BY <5>2 DEF Answer, Holds
          <6> QED BY <2>2, <5>2, <6>1, ReportFacts DEF Answer
        <5>3. CASE NoAnswer(w)
          <6>1. worker'[w].said = worker[w].said
            BY <2>2, <5>3 DEF NoAnswer, Becomes, Thread
          <6> QED BY <5>3, <6>1 DEF NoAnswer, Holds
        <5>4. CASE worker[w].at \in {"ended", "scan", "forget"}
          BY <5>4 DEF Holds, Shape
        <5>5. StartWorker(w) => worker[w].at = "ended"
          BY DEF StartWorker, Ended
        <5> QED BY <1>6, <3>3, <5>1, <5>2, <5>3, <5>4, <5>5
                DEF Moves, Works, EndScan, Visit, Forget
      <4>3. \A v \in Worker : Holds(v, p) => Holds(v, p)' \/ reported'[p] > 0
        BY <2>1, <4>2, KeptWhereItIs
      <4> QED BY <2>1, <2>3, <3>1, <4>1, <4>3, KeptWhereItIs DEF Kept
    <3> QED BY <3>2, <3>3
  <2> QED BY <2>1, <2>5
<1> QED BY <1>2, <1>3, <1>4, <1>5, <1>6 DEF Next, Handles, Moves

(***************************************************************************)
(* However the workers overlap, and whichever of them end, no packet is    *)
(* lost except by a worker that is late, and with the service itself       *)
(* (recon.py, lines 75-80, 127-143): for any hosts and timeouts.           *)
(***************************************************************************)
THEOREM NoPacketLostHolds == Spec => []NoPacketLost
<1>1. Init => NoPacketLost
  BY ReconAssumption DEF Init, NoPacketLost
<1>2. IInv /\ NoPacketLost /\ [Next]_vars => NoPacketLost'
  <2> SUFFICES ASSUME IInv, NoPacketLost, [Next]_vars
               PROVE  NoPacketLost'
    OBVIOUS
  <2>1. CASE Next
    <3>1. alive /\ \A p \in 1..received : Kept(p)
      BY <2>1, KeptIsNotLost DEF Next, AllKept
    <3>2. alive' => \A p \in 1..received' : Kept(p)'
      BY <2>1, <3>1, KeptStep
    <3>3. NoPacketLost' <=> AllKept'
      BY KeptIsNotLost, PTL
    <3> QED BY <3>2, <3>3 DEF AllKept
  <2>2. CASE UNCHANGED vars
    BY <2>2 DEF vars, tables, history, NoPacketLost, InHand, InTable, Underway, Dropped, Table,
                PacketsOf
  <2> QED BY <2>1, <2>2
<1>3. IInv /\ [Next]_vars => IInv'
  BY TypeStep, ShapeStep, FreshStep DEF IInv
<1> QED BY InitIInv, <1>1, <1>2, <1>3, PTL DEF Spec

-----------------------------------------------------------------------------
(* Packets are reported once. *)

InEvents(i) == events[incident[i].host] = i
\* A worker has taken event i, or sent it and waits.
Carries(w, i) ==
    \/ worker[w].at = "talk" /\ Head(worker[w].todo) = i
    \/ worker[w].at = "wait" /\ \E p \in worker[w].said : p \in PacketsOf(i)

\* A packet belongs to one event, events in the table have packets, and what is sent or
\* reported are packets of events.
OneIncident ==
    \A i, j \in 1..Len(incident) : i # j => PacketsOf(i) \cap PacketsOf(j) = {}
Filled ==
    \A h \in Host, i \in 1..Len(incident) : events[h] = i => PacketsOf(i) # {}
Known ==
    /\ \A w \in Worker : \A p \in worker[w].said :
           \E i \in 1..Len(incident) : p \in PacketsOf(i)
    /\ \A p \in Packet :
           reported[p] > 0 => \E i \in 1..Len(incident) : p \in PacketsOf(i)

\* An event whose only packet is in hand is known to the handler alone.
New ==
    \A i \in 1..Len(incident) \ again :
        handler.at \in {"append", "test"} /\ handler.incident = i
        /\ PacketsOf(i) \subseteq {received}
            => /\ ~ InEvents(i)
               /\ \A w \in Worker : ~ Carries(w, i)
               /\ \A p \in PacketsOf(i) : reported[p] = 0

\* An event is in the table, or with one worker, or reported.
OnceOf(i) ==
    /\ \A p \in PacketsOf(i) : reported[p] <= 1
    /\ (\E p \in PacketsOf(i) : reported[p] > 0) =>
           ~ InEvents(i) /\ \A w \in Worker : ~ Carries(w, i)
    /\ \A w \in Worker : Carries(w, i) =>
           ~ InEvents(i) /\ \A v \in Worker \ {w} : ~ Carries(v, i)
Once == \A i \in 1..Len(incident) \ again : OnceOf(i)

JInv == IInv /\ OneIncident /\ Filled /\ Known /\ New /\ Once

LEMMA OnceIsEnough == JInv => ReportedOnce
<1> HAVE JInv
<1> SUFFICES ASSUME NEW p \in 1..received, reported[p] > 1
             PROVE  \E i \in again : p \in PacketsOf(i)
  <2>1. \A p \in 1..received : reported[p] > 1 \/ reported[p] <= 1
    <3>1. reported \in [Packet -> 0..2]
      BY DEF JInv, IInv, TypeOK, RecordsOK
    <3>2. received \in 0..MaxPackets /\ MaxPackets \in Nat
      BY ReconAssumption DEF JInv, IInv, TypeOK, EventsOK
    <3>3. \A q \in 1..received : q \in Packet
      BY <3>2 DEF Packet
    <3> QED BY <3>1, <3>3
  <2> QED BY <2>1 DEF ReportedOnce, Repeated
<1>1. p \in Packet
  BY EventsType, ReconAssumption DEF JInv, IInv, TypeOK, EventsOK, Packet
<1>2. reported[p] > 0
  BY <1>1 DEF JInv, IInv, TypeOK, RecordsOK
<1>3. PICK i \in 1..Len(incident) : p \in PacketsOf(i)
  BY <1>1, <1>2 DEF JInv, Known
<1>4. ASSUME i \notin again
      PROVE  FALSE
  <2>1. reported[p] <= 1
    BY <1>3, <1>4, Zenon DEF JInv, Once, OnceOf
  <2> QED BY <1>1, <2>1 DEF JInv, IInv, TypeOK, RecordsOK
<1> QED BY <1>3, <1>4

LEMMA PacketsStep ==
    ASSUME TypeOK, Shape, Next
    PROVE  /\ \A i \in 1..Len(incident) :
                  /\ \/ PacketsOf(i)' = PacketsOf(i)
                     \/ /\ AppendPacket /\ i = handler.incident
                        /\ PacketsOf(i)' = PacketsOf(i) \cup {received}
                  /\ incident'[i].host = incident[i].host
           /\ \A i \in 1..Len(incident') : i \in 1..Len(incident) \/ PacketsOf(i)' = {}
<1>1. ASSUME incident' = incident
      PROVE  /\ \A i \in 1..Len(incident) : /\ PacketsOf(i)' = PacketsOf(i)
                                            /\ incident'[i].host = incident[i].host
             /\ Len(incident') = Len(incident)
  BY <1>1 DEF PacketsOf
<1>2. ASSUME NEW h \in Host, Receive(h)
      PROVE  /\ \A i \in 1..Len(incident) : /\ PacketsOf(i)' = PacketsOf(i)
                                            /\ incident'[i].host = incident[i].host
             /\ \A i \in 1..Len(incident') : i \in 1..Len(incident) \/ PacketsOf(i)' = {}
  <2>1. CASE incident' = incident
    BY <1>1, <2>1
  <2>2. CASE incident' = Append(incident, [host |-> h, packets |-> <<>>])
    <3>1. /\ Len(incident') = Len(incident) + 1 /\ Len(incident) \in Nat
          /\ \A j \in 1..Len(incident) : incident'[j] = incident[j]
          /\ \A n : n = Len(incident) + 1 => PacketsOf(n)' = {}
          /\ \A j \in 1..Len(incident) : PacketsOf(j)' = PacketsOf(j)
      BY <1>2, <2>2, NewEventFacts DEF Receive
    <3>2. \A i \in 1..Len(incident') : i \in 1..Len(incident) \/ i = Len(incident) + 1
      BY <3>1
    <3> QED BY <3>1, <3>2
  <2> QED BY <1>2, <2>1, <2>2 DEF Receive
<1>3. ASSUME AppendPacket \/ AddEvent, incident' # incident
      PROVE  /\ \A i \in 1..Len(incident) :
                    /\ \/ PacketsOf(i)' = PacketsOf(i)
                       \/ /\ AppendPacket /\ i = handler.incident
                          /\ PacketsOf(i)' = PacketsOf(i) \cup {received}
                    /\ incident'[i].host = incident[i].host
             /\ Len(incident') = Len(incident)
  <2>1. PICK j \in 1..Len(incident) : /\ j = handler.incident /\ AppendTo(j)
                                      /\ received >= 1
    BY <1>3, AppendsFacts
  <2>2. /\ Len(incident') = Len(incident)
        /\ \A i \in 1..Len(incident) : incident'[i].host = incident[i].host
        /\ PacketsOf(j)' = PacketsOf(j) \cup {received}
        /\ \A i \in 1..Len(incident) : i # j => PacketsOf(i)' = PacketsOf(i)
    BY <2>1, AppendToFacts
  <2>3. AddEvent => received \in PacketsOf(j)
    BY <2>1 DEF AddEvent, Shape
  <2>4. AddEvent => PacketsOf(j)' = PacketsOf(j)
    BY <2>2, <2>3
  <2> QED BY <1>3, <2>1, <2>2, <2>4
<1>4. LookUp \/ HandlerRaises \/ Tick \/ (\E w \in Worker : Moves(w)) => incident' = incident
  BY MovesFacts DEF LookUp, HandlerRaises, Tick, tables
<1>5. CASE incident' = incident
  BY <1>1, <1>5
<1>6. CASE \E h \in Host : Receive(h)
  BY <1>2, <1>6
<1>7. CASE (AppendPacket \/ AddEvent) /\ incident' # incident
  BY <1>3, <1>7
<1> QED BY <1>4, <1>5, <1>6, <1>7 DEF Next, Handles, Moves

LEMMA OneIncidentStep == IInv /\ OneIncident /\ [Next]_vars => OneIncident'
<1> SUFFICES ASSUME IInv, OneIncident, [Next]_vars
             PROVE  OneIncident'
  OBVIOUS
<1>1. CASE Next
  <2>1. AppendPacket => \A i \in 1..Len(incident) : received \notin PacketsOf(i)
    BY DEF IInv, Fresh, AppendPacket
  <2>2. ASSUME NEW i \in 1..Len(incident'), NEW j \in 1..Len(incident'), i # j
        PROVE  PacketsOf(i)' \cap PacketsOf(j)' = {}
    <3>1. CASE PacketsOf(i)' = {} \/ PacketsOf(j)' = {}
      BY <3>1
    <3>2. CASE i \in 1..Len(incident) /\ j \in 1..Len(incident)
      <4>1. PacketsOf(i) \cap PacketsOf(j) = {}
        BY <2>2, <3>2 DEF OneIncident
      <4> QED BY <1>1, <2>1, <2>2, <3>2, <4>1, PacketsStep DEF IInv
    <3> QED BY <1>1, <3>1, <3>2, PacketsStep DEF IInv
  <2> QED BY <2>2 DEF OneIncident
<1>2. CASE UNCHANGED vars
  <2>1. UNCHANGED <<incident, events>>
    BY <1>2 DEF vars, tables
  <2>2. \A i : PacketsOf(i)' = PacketsOf(i)
    BY <2>1 DEF PacketsOf
  <2> QED BY <2>1, <2>2 DEF OneIncident
<1> QED BY <1>1, <1>2

LEMMA FilledStep == IInv /\ Filled /\ [Next]_vars => Filled'
<1> SUFFICES ASSUME IInv, Filled, [Next]_vars
             PROVE  Filled'
  OBVIOUS
<1>1. CASE Next
  <2> USE DEF IInv
  <2>1. events \in [Host -> 0..Len(incident)] /\ Len(incident) \in Nat
    BY EventsType DEF TypeOK, EventsOK
  <2>2. ASSUME NEW h \in Host, NEW i \in 1..Len(incident'), events'[h] = i
        PROVE  PacketsOf(i)' # {}
    <3>1. CASE AddEvent /\ events' # events
      <4>1. PICK j \in 1..Len(incident), g \in Host : j = handler.incident /\ g = handler.host
        BY <3>1, AppendsFacts
      <4>2. events' = [events EXCEPT ![g] = j] /\ received \in PacketsOf(j)
        BY <3>1, <4>1 DEF AddEvent, Shape
      <4>3. PacketsOf(j) # {} /\ (h = g => i = j)
        BY <2>1, <2>2, <4>1, <4>2
      <4>4. h # g => events[h] = i /\ i \in 1..Len(incident)
        BY <2>1, <2>2, <4>2
      <4>5. i \in 1..Len(incident) /\ PacketsOf(i) # {}
        BY <4>1, <4>3, <4>4 DEF Filled
      <4> QED BY <1>1, <4>5, PacketsStay
    <3>2. CASE ~ (AddEvent /\ events' # events)
      <4>1. events'[h] \in {events[h], None}
        BY <1>1, <3>2, MovesFacts
        DEF Next, Handles, Moves, Receive, LookUp, HandlerRaises, AppendPacket, Tick, tables
      <4>2. events[h] = i /\ i \in 1..Len(incident)
        BY <2>1, <2>2, <4>1 DEF None
      <4>3. PacketsOf(i) # {}
        BY <4>2 DEF Filled
      <4> QED BY <1>1, <4>2, <4>3, PacketsStay
    <3> QED BY <3>1, <3>2
  <2> QED BY <2>2 DEF Filled
<1>2. CASE UNCHANGED vars
  <2>1. UNCHANGED <<incident, events>>
    BY <1>2 DEF vars, tables
  <2>2. \A i : PacketsOf(i)' = PacketsOf(i)
    BY <2>1 DEF PacketsOf
  <2> QED BY <2>1, <2>2 DEF Filled
<1> QED BY <1>1, <1>2

LEMMA KnownStep == IInv /\ Known /\ [Next]_vars => Known'
<1> SUFFICES ASSUME IInv, Known, [Next]_vars
             PROVE  Known'
  OBVIOUS
<1>1. CASE Next
  <2> USE DEF IInv
  <2> DEFINE Some(p) == \E i \in 1..Len(incident) : p \in PacketsOf(i)
             Same(p) == \E i \in 1..Len(incident') : p \in PacketsOf(i)'
  <2>1. \A p : Some(p) => Same(p)
    <3>1. 1..Len(incident) \subseteq 1..Len(incident')
      BY <1>1, EventsStep, EventsType
    <3> QED BY <1>1, <3>1, PacketsStay
  <2>2. /\ \A w \in Worker : \A p \in worker[w].said : Some(p)
        /\ \A p \in Packet : reported[p] > 0 => Some(p)
    BY DEF Known
  <2>3. CASE UNCHANGED <<worker, reported>>
    BY <2>1, <2>2, <2>3 DEF Known
  <2>4. CASE HandlerRaises
    <3>1. reported' = reported /\ \A w \in Worker : worker'[w].said = {}
      BY <2>4 DEF HandlerRaises, Ended
    <3> QED BY <2>1, <2>2, <3>1 DEF Known
  <2>5. ASSUME NEW w \in Worker, Moves(w)
        PROVE  Known'
    <3>1. /\ worker[w].todo \in Seq(1..Len(incident))
          /\ worker \in [Worker -> Thread(Len(incident), received)]
          /\ worker[w].said \subseteq Packet
      <4>1. 1..received \subseteq Packet
        BY EventsType, ReconAssumption DEF TypeOK, EventsOK, Packet
      <4> QED BY <4>1, WorkersType
    <3>2. \A p \in worker'[w].said : Some(p)
      <4>1. CASE SendEvent(w)
        <5>1. PICK i \in 1..Len(incident) : i = Head(worker[w].todo)
          BY <3>1, <4>1, HeadTailProperties DEF SendEvent, Shape
        <5>2. worker'[w].said = PacketsOf(i)
          BY <3>1, <4>1, <5>1 DEF SendEvent, Becomes, Thread
        <5> QED BY <5>2
      <4>2. CASE NoAnswer(w)
        <5>1. worker'[w].said = worker[w].said
          BY <3>1, <4>2 DEF NoAnswer, Becomes, Thread
        <5> QED BY <2>2, <5>1
      <4>3. CASE worker'[w].said = {}
        BY <4>3
      <4> QED BY <2>5, <4>1, <4>2, <4>3, MovesFacts
    <3>3. \A v \in Worker : \A p \in worker'[v].said : Some(p)
      BY <2>2, <2>5, <3>2, MovesType
    <3>4. \A p \in Packet \ worker[w].said : reported'[p] = reported[p]
      <4>1. Answer(w) \/ NoAnswer(w) => \/ Report(worker[w].said)
                                        \/ reported' = reported
        BY DEF Answer, NoAnswer
      <4> QED BY <2>5, <3>1, <4>1, ReportFacts, MovesFacts
    <3>5. \A p \in Packet : reported'[p] > 0 => Some(p)
      BY <2>2, <3>4
    <3> QED BY <2>1, <3>3, <3>5 DEF Known
  <2> QED BY <1>1, <2>3, <2>4, <2>5
          DEF Next, Handles, Moves, Receive, LookUp, AppendPacket, AddEvent, Tick
<1>2. CASE UNCHANGED vars
  BY <1>2 DEF vars, tables, Known, PacketsOf
<1> QED BY <1>1, <1>2

\* What a step of a worker means for an event.
LEMMA CarriesStep ==
    ASSUME IInv, OneIncident, NEW w \in Worker, Moves(w), NEW i \in 1..Len(incident)
    PROVE  /\ PacketsOf(i)' = PacketsOf(i)
           /\ again \subseteq again'
           /\ InEvents(i)' => InEvents(i)
           /\ \A v \in Worker : v # w => (Carries(v, i)' <=> Carries(v, i))
           /\ Carries(w, i)' => Carries(w, i) \/ i \in again' \/ (InEvents(i) /\ ~ InEvents(i)')
           /\ \/ \A p \in PacketsOf(i) : reported'[p] = reported[p]
              \/ /\ Carries(w, i) /\ ~ Carries(w, i)'
                 /\ \A p \in PacketsOf(i) : reported[p] = 0 => reported'[p] <= 1
<1> USE DEF IInv
<1>1. /\ UNCHANGED <<received, incident, handler>>
      /\ \A h \in Host : events'[h] \in {events[h], None}
      /\ \A v \in Worker : v # w => worker'[v] = worker[v]
      /\ incident[i].host \in Host
  BY MovesFacts, MovesType, EventsType DEF Event
<1>2. \A j : PacketsOf(j)' = PacketsOf(j)
  BY <1>1 DEF PacketsOf
<1>3. InEvents(i)' => InEvents(i)
  BY <1>1 DEF InEvents, None
<1>4. \A v \in Worker : v # w => (Carries(v, i)' <=> Carries(v, i))
  BY <1>1, <1>2 DEF Carries
<1>5. again \subseteq again'
  <2>1. CASE TakeEvent(w)
    <3>1. PICK j, h : Mistakes(j, events[h])
      BY <2>1, TakeFacts
    <3> QED BY <3>1 DEF Mistakes, history
  <2> QED BY <2>1, MovesFacts DEF history
<1>6. /\ worker \in [Worker -> Thread(Len(incident), received)]
      /\ worker[w].todo \in Seq(1..Len(incident))
  BY WorkersType
<1>7. Carries(w, i)' => Carries(w, i) \/ i \in again' \/ (InEvents(i) /\ ~ InEvents(i)')
  <2>1. CASE SendEvent(w)
    <3>1. PICK j \in 1..Len(incident) : j = Head(worker[w].todo)
      BY <1>6, <2>1, HeadTailProperties DEF SendEvent, Shape
    <3>2. worker'[w].at = "wait" /\ worker'[w].said = PacketsOf(j)
      BY <1>6, <2>1, <3>1 DEF SendEvent, Becomes, Thread
    <3>3. Carries(w, i)' => j = i
      BY <1>2, <3>2 DEF Carries, OneIncident
    <3>4. Carries(w, j)
      BY <2>1, <3>1 DEF SendEvent, Carries
    <3> QED BY <3>3, <3>4
  <2>2. CASE TakeEvent(w)
    <3>1. PICK j \in 1..Len(incident), h \in Host :
             /\ j = Head(worker[w].todo) /\ incident[j].host = h
             /\ events' = [events EXCEPT ![h] = None]
             /\ Mistakes(j, events[h])
             /\ IF events[h] # None THEN Becomes(w, [worker[w] EXCEPT !.at = "talk"])
                ELSE Ends(w)
      BY <2>2, TakeFacts, Zenon
    <3>2. CASE events[h] = None
      <4>1. worker'[w].at = "ended"
        BY <1>6, <3>1, <3>2 DEF Ends, Becomes, Ended
      <4> QED BY <4>1 DEF Carries
    <3>3. CASE events[h] # None
      <4>1. worker'[w] = [worker[w] EXCEPT !.at = "talk"]
        BY <1>6, <3>1, <3>3 DEF Becomes
      <4>2. worker'[w].at = "talk" /\ worker'[w].todo = worker[w].todo
        BY <1>6, <4>1 DEF Thread
      <4>3. Carries(w, i)' => i = j
        BY <3>1, <4>2 DEF Carries
      <4>4. CASE events[h] = j
        <5>1. events'[h] = None /\ j # None
          BY <3>1, <3>3, <4>4 DEF TypeOK, EventsOK
        <5> QED BY <1>1, <3>1, <4>3, <4>4, <5>1 DEF InEvents
      <4>5. CASE events[h] # j
        <5>1. events[h] \notin {j, None}
          BY <3>3, <4>5
        <5>2. again' = again \cup {j}
          BY <3>1, <5>1 DEF Mistakes
        <5> QED BY <4>3, <5>2
      <4> QED BY <4>4, <4>5
    <3> QED BY <3>2, <3>3
  <2>3. CASE ~ (SendEvent(w) \/ TakeEvent(w))
    <3>1. worker'[w].at \notin {"talk", "wait"}
      <4>1. \A r : Becomes(w, r) => worker'[w] = r
        BY <1>6 DEF Becomes
      <4>2. Ended.at = "ended" /\ After(worker[w].todo).at \in {"ended", "send", "forget"}
        BY <1>6, AfterType DEF Ended
      <4>3. \A S : [Ended EXCEPT !.at = "scan", !.start = S].at = "scan"
        BY DEF Ended
      <4>4. CASE StartWorker(w) \/ EndScan(w) \/ Answer(w)
        BY <4>1, <4>2, <4>3, <4>4 DEF StartWorker, EndScan, Answer, Ends
      <4>5. CASE NoAnswer(w)
        BY <1>6, <4>1, <4>5 DEF NoAnswer, Thread
      <4>6. ASSUME NEW h \in Host, Visit(w, h)
            PROVE  worker'[w].at = "scan"
        BY <1>6, <4>1, <4>6 DEF Visit, Thread
      <4>7. ASSUME NEW h \in Host, Forget(w, h)
            PROVE  worker'[w].at \in {"forget", "ended"}
        BY <1>6, <4>1, <4>2, <4>7 DEF Forget, Ends, Thread
      <4> QED BY <2>3, <4>4, <4>5, <4>6, <4>7 DEF Moves, Works
    <3> QED BY <3>1 DEF Carries
  <2> QED BY <2>1, <2>2, <2>3
<1>8. \/ \A p \in PacketsOf(i) : reported'[p] = reported[p]
      \/ /\ Carries(w, i) /\ ~ Carries(w, i)'
         /\ \A p \in PacketsOf(i) : reported[p] = 0 => reported'[p] <= 1
  <2>1. PacketsOf(i) \subseteq Packet /\ worker[w].said \subseteq Packet
    <3>1. 1..received \subseteq Packet
      <4>1. received \in 0..MaxPackets /\ MaxPackets \in Nat
        BY ReconAssumption DEF TypeOK, EventsOK
      <4> QED BY <4>1 DEF Packet
    <3> QED BY <3>1, WorkersType, PacketsType
  <2>2. CASE (Answer(w) \/ NoAnswer(w)) /\ Report(worker[w].said)
    <3>1. /\ \A p \in Packet \ worker[w].said : reported'[p] = reported[p]
          /\ \A p \in worker[w].said : reported[p] = 0 => reported'[p] = 1
      BY <2>1, <2>2, ReportFacts
    <3>2. worker'[w].at \notin {"talk", "wait"} /\ worker[w].at = "wait"
      <4>1. \A r : Becomes(w, r) => worker'[w] = r
        BY <1>6 DEF Becomes
      <4>2. After(worker[w].todo).at \in {"ended", "send", "forget"}
        BY <1>6, AfterType
      <4>3. CASE Answer(w)
        BY <4>1, <4>2, <4>3 DEF Answer
      <4>4. CASE NoAnswer(w)
        BY <1>6, <4>1, <4>4 DEF NoAnswer, Thread
      <4> QED BY <2>2, <4>3, <4>4
    <3>3. ~ Carries(w, i)'
      BY <3>2 DEF Carries
    <3>4. CASE Carries(w, i)
      <4>1. \A p \in PacketsOf(i) : reported[p] = 0 => reported'[p] <= 1
        BY <2>1, <3>1
      <4> QED BY <3>3, <3>4, <4>1
    <3>5. CASE ~ Carries(w, i)
      BY <2>1, <3>1, <3>2, <3>5 DEF Carries
    <3> QED BY <3>4, <3>5
  <2>3. CASE reported' = reported
    BY <2>3
  <2> QED BY <2>2, <2>3, MovesFacts DEF Answer, NoAnswer
<1> QED BY <1>2, <1>3, <1>4, <1>5, <1>7, <1>8

\* What other steps mean for it.
LEMMA CarriesStays ==
    ASSUME IInv, Next, UNCHANGED worker, NEW i \in 1..Len(incident)
    PROVE  \A w \in Worker : Carries(w, i)' => Carries(w, i)
<1>1. AppendPacket => \A w \in Worker : received \notin worker[w].said
  BY DEF IInv, Fresh, AppendPacket
<1> QED BY <1>1, PacketsStep DEF IInv, Carries

\* A new event is nobody's.
LEMMA NobodyCarries ==
    ASSUME IInv, UNCHANGED worker, NEW i, i \notin 1..Len(incident), PacketsOf(i)' = {}
    PROVE  \A w \in Worker : ~ Carries(w, i)'
<1>1. ASSUME NEW w \in Worker, worker[w].at = "talk"
      PROVE  Head(worker[w].todo) \in 1..Len(incident)
  BY <1>1, WorkersType, HeadTailProperties DEF IInv, Shape
<1> QED BY <1>1 DEF Carries

LEMMA SameForEvents ==
    ASSUME UNCHANGED <<incident, events, worker>>
    PROVE  \A i : /\ PacketsOf(i)' = PacketsOf(i)
                  /\ InEvents(i)' <=> InEvents(i)
                  /\ \A w : Carries(w, i)' <=> Carries(w, i)
<1>1. \A i : PacketsOf(i)' = PacketsOf(i)
  BY DEF PacketsOf
<1> QED BY <1>1 DEF InEvents, Carries

LEMMA NewStep ==
    ASSUME JInv, Next
    PROVE  New'
<1> USE DEF JInv, IInv
<1>1. /\ events \in [Host -> 0..Len(incident)] /\ Len(incident) \in Nat
      /\ Fresh' /\ TypeOK' /\ Shape'
  BY EventsType, FreshStep, TypeStep, ShapeStep DEF TypeOK, EventsOK
<1>2. ASSUME NEW h \in Host, Receive(h)
      PROVE  New'
  <2>1. UNCHANGED <<events, worker, reported, again>>
    BY <1>2 DEF Receive, history
  <2>2. CASE events[h] # None
    BY <1>2, <2>2 DEF Receive, New
  <2>3. CASE events[h] = None
    <3>1. PICK n : n = Len(incident) + 1
      OBVIOUS
    <3>2. /\ handler'.at = "append" /\ handler'.incident = n
          /\ incident' = Append(incident, [host |-> h, packets |-> <<>>])
      BY <1>2, <2>3, <3>1 DEF Receive
    <3>3. PacketsOf(n)' = {} /\ incident'[n].host = h
      BY <1>2, <3>1, <3>2, NewEventFacts DEF Receive
    <3>4. n \notin 1..Len(incident) /\ n \notin 0..Len(incident)
      BY <1>1, <3>1
    <3>5. events'[incident'[n].host] # n
      BY <1>1, <2>1, <3>3, <3>4
    <3>6. \A w \in Worker : ~ Carries(w, n)'
      BY <2>1, <3>3, <3>4, NobodyCarries
    <3> QED BY <3>2, <3>3, <3>5, <3>6 DEF New, InEvents
  <2> QED BY <2>2, <2>3
<1>3. CASE LookUp
  <2>1. PICK h, j : /\ h = handler.host /\ j = events[h] /\ j # None
                    /\ handler' = [handler EXCEPT !.at = "append", !.incident = j]
                    /\ UNCHANGED <<received, incident>>
    BY <1>3 DEF LookUp, tables
  <2>2. /\ h \in Host
        /\ handler'.incident = j
    BY <1>3, <2>1 DEF LookUp, TypeOK, HandlerOK, Resting
  <2>3. j \in 1..Len(incident)
    BY <1>1, <2>1, <2>2 DEF None
  <2>4. PacketsOf(j) # {} /\ received \notin PacketsOf(j)
    BY <1>3, <2>1, <2>2, <2>3 DEF Filled, Fresh, LookUp
  <2>5. ~ (PacketsOf(j)' \subseteq {received'})
    <3>1. PacketsOf(j)' = PacketsOf(j)
      BY <2>1 DEF PacketsOf
    <3> QED BY <2>1, <2>4, <3>1
  <2> QED BY <2>2, <2>5 DEF New
<1>4. CASE HandlerRaises \/ AddEvent
  BY <1>4 DEF HandlerRaises, AddEvent, New, Resting
<1>5. CASE AppendPacket
  <2>1. PICK j \in 1..Len(incident), h \in Host :
           j = handler.incident /\ h = handler.host /\ received' = received
    BY <1>5, AppendsFacts
  <2>2. /\ UNCHANGED <<events, worker, reported, again>>
        /\ handler'.incident = j /\ handler.at = "append"
    <3>1. UNCHANGED <<events, worker, reported, again>> /\ handler.at = "append"
      BY <1>5 DEF AppendPacket, history
    <3>2. handler'.incident = j
      BY <1>5, <2>1 DEF AppendPacket, TypeOK, HandlerOK, Resting
    <3> QED BY <3>1, <3>2
  <2>3. PacketsOf(j)' \subseteq PacketsOf(j) \cup {received} /\ PacketsOf(j) \subseteq PacketsOf(j)'
        /\ incident'[j].host = incident[j].host
    BY <2>1, <2>2, PacketsStep
  <2>4. ASSUME j \notin again, PacketsOf(j)' \subseteq {received'}
        PROVE  /\ ~ InEvents(j)' /\ \A w \in Worker : ~ Carries(w, j)'
               /\ \A p \in PacketsOf(j)' : reported'[p] = 0
    <3>1. /\ ~ InEvents(j) /\ \A w \in Worker : ~ Carries(w, j)
          /\ \A p \in PacketsOf(j) : reported[p] = 0
      BY <2>1, <2>2, <2>3, <2>4 DEF New
    <3>2. reported[received] = 0
      BY <2>2 DEF Fresh
    <3>3. \A w \in Worker : ~ Carries(w, j)'
      BY <2>2, <3>1, CarriesStays
    <3> QED BY <2>2, <2>3, <3>1, <3>2, <3>3 DEF InEvents
  <2> QED BY <2>2, <2>4 DEF New
<1>6. ASSUME NEW w \in Worker, Moves(w)
      PROVE  New'
  <2>1. UNCHANGED <<received, incident, handler>>
    BY <1>6, MovesFacts
  <2>2. ASSUME NEW i \in 1..Len(incident), i \notin again',
               handler.at \in {"append", "test"}, handler.incident = i,
               PacketsOf(i) \subseteq {received}
        PROVE  /\ ~ InEvents(i)' /\ \A v \in Worker : ~ Carries(v, i)'
               /\ \A p \in PacketsOf(i) : reported'[p] = 0
    <3>1. i \notin again
      BY <1>6, <2>2, CarriesStep
    <3>2. /\ ~ InEvents(i) /\ \A v \in Worker : ~ Carries(v, i)
          /\ \A p \in PacketsOf(i) : reported[p] = 0
      BY <2>2, <3>1 DEF New
    <3>3. \A p \in PacketsOf(i) : reported'[p] = reported[p]
      BY <1>6, <3>2, CarriesStep, Zenon
    <3>4. ~ InEvents(i)' /\ \A v \in Worker : ~ Carries(v, i)'
      BY <1>6, <2>2, <3>2, CarriesStep, Zenon
    <3> QED BY <3>2, <3>3, <3>4
  <2>3. \A i \in 1..Len(incident) : PacketsOf(i)' = PacketsOf(i)
    BY <1>6, CarriesStep
  <2> QED BY <2>1, <2>2, <2>3 DEF New
<1>7. CASE Tick
  <2>1. /\ UNCHANGED <<incident, events, worker, reported, received, again>>
        /\ handler'.at = handler.at
        /\ handler.at # "idle" => handler'.incident = handler.incident
    BY <1>7, TickFacts DEF history
  <2> QED BY <2>1, SameForEvents DEF New
<1> QED BY <1>2, <1>3, <1>4, <1>5, <1>6, <1>7 DEF Next, Handles, Moves

LEMMA OnceStep ==
    ASSUME JInv, Next
    PROVE  Once'
<1> USE DEF JInv, IInv
<1>1. /\ events \in [Host -> 0..Len(incident)] /\ Len(incident) \in Nat
      /\ \A i \in 1..Len(incident) : incident[i].host \in Host
      /\ reported \in [Packet -> 0..2] /\ EventsOK'
  BY EventsType, EventsStep DEF TypeOK, EventsOK, RecordsOK, Event
<1>2. \A i \in 1..Len(incident) \ again : OnceOf(i)
  BY DEF Once
<1>3. ASSUME NEW h \in Host, Receive(h), NEW i \in 1..Len(incident'), i \notin again'
      PROVE  OnceOf(i)'
  <2>1. UNCHANGED <<events, worker, reported, again>>
    BY <1>3 DEF Receive, history
  <2>2. CASE i \in 1..Len(incident)
    <3>1. /\ PacketsOf(i)' = PacketsOf(i)
          /\ incident'[i].host = incident[i].host
      <4>1. ~ AppendPacket
        BY <1>3 DEF Receive, AppendPacket
      <4> QED BY <2>2, <4>1, PacketsStep
    <3>2. OnceOf(i)
      BY <1>2, <1>3, <2>1, <2>2
    <3>3. /\ InEvents(i)' <=> InEvents(i)
          /\ \A w \in Worker : Carries(w, i)' => Carries(w, i)
      BY <2>1, <2>2, <3>1, CarriesStays DEF InEvents
    <3> QED BY <2>1, <3>1, <3>2, <3>3 DEF OnceOf
  <2>3. CASE i \notin 1..Len(incident)
    <3>1. PacketsOf(i)' = {}
      BY <1>3, <2>3, PacketsStep
    <3>2. \A w \in Worker : ~ Carries(w, i)'
      BY <2>1, <2>3, <3>1, NobodyCarries
    <3> QED BY <3>1, <3>2 DEF OnceOf
  <2> QED BY <2>2, <2>3
<1>4. CASE LookUp \/ Tick
  <2>1. UNCHANGED <<incident, events, worker, reported, again>>
    BY <1>4, TickFacts DEF LookUp, tables, history
  <2> QED BY <1>2, <2>1, SameForEvents DEF Once, OnceOf
<1>5. ASSUME HandlerRaises, NEW i \in 1..Len(incident'), i \notin again'
      PROVE  OnceOf(i)'
  <2>1. /\ UNCHANGED <<incident, reported, again>>
        /\ events' = [h \in Host |-> None] /\ \A w \in Worker : worker'[w].at = "ended"
    BY <1>5 DEF HandlerRaises, history, Ended
  <2>2. OnceOf(i) /\ i # None
    BY <1>2, <1>5, <2>1 DEF None
  <2>3. PacketsOf(i)' = PacketsOf(i) /\ \A w \in Worker : ~ Carries(w, i)'
    BY <2>1 DEF PacketsOf, Carries
  <2>4. ~ InEvents(i)'
    BY <1>1, <1>5, <2>1, <2>2 DEF InEvents
  <2> QED BY <2>1, <2>2, <2>3, <2>4 DEF OnceOf
<1>6. ASSUME AppendPacket \/ AddEvent, NEW i \in 1..Len(incident'), i \notin again'
      PROVE  OnceOf(i)'
  <2>1. PICK j \in 1..Len(incident), h \in Host :
           j = handler.incident /\ h = handler.host /\ received' = received
    BY <1>6, AppendsFacts
  <2>2. /\ UNCHANGED <<worker, reported>> /\ again \subseteq again'
        /\ AppendPacket => events' = events
        /\ incident[j].host = h
    BY <1>6, <2>1 DEF AppendPacket, AddEvent, history, Shape
  <2>3. i \in 1..Len(incident) /\ i \notin again
    <3>1. Len(incident') = Len(incident)
      <4>1. CASE AppendTo(j)
        <5>1. received >= 1
          BY <1>6, AppendsFacts
        <5> QED BY <4>1, <5>1, AppendToFacts
      <4>2. CASE incident' = incident
        BY <4>2
      <4> QED BY <1>6, <2>1, <4>1, <4>2, AppendsFacts
    <3> QED BY <1>6, <2>2, <3>1
  <2>4. /\ OnceOf(i) /\ \A w \in Worker : Carries(w, i)' => Carries(w, i)
        /\ incident'[i].host = incident[i].host
    BY <1>2, <2>2, <2>3, CarriesStays, PacketsStep
  <2>5. CASE AppendPacket
    <3>1. PacketsOf(i)' \subseteq PacketsOf(i) \cup {received} /\ reported[received] = 0
      BY <2>3, <2>5, PacketsStep DEF AppendPacket, Fresh
    <3>2. InEvents(i)' <=> InEvents(i)
      BY <2>2, <2>4, <2>5 DEF InEvents
    <3> QED BY <2>2, <2>4, <3>1, <3>2 DEF OnceOf
  <2>6. CASE AddEvent
    <3>1. PacketsOf(i)' = PacketsOf(i)
      <4>1. ~ AppendPacket
        BY <2>6 DEF AddEvent, AppendPacket
      <4> QED BY <2>3, <4>1, PacketsStep
    <3>2. CASE InEvents(i)' => InEvents(i)
      BY <2>2, <2>4, <3>1, <3>2 DEF OnceOf
    <3>3. CASE InEvents(i)' /\ ~ InEvents(i)
      <4>1. events' = [events EXCEPT ![h] = j] /\ handler.at = "test"
            /\ again' = IF PacketsOf(j) = {received} THEN again ELSE again \cup {j}
        BY <2>1, <2>4, <2>6, <3>3 DEF AddEvent, InEvents
      <4>2. i = j
        BY <1>1, <2>1, <2>2, <2>3, <2>4, <3>3, <4>1 DEF InEvents
      <4>3. PacketsOf(i) = {received}
        BY <1>6, <4>1, <4>2
      <4>4. /\ \A w \in Worker : ~ Carries(w, i)
            /\ \A p \in PacketsOf(i) : reported[p] = 0
        BY <2>1, <2>3, <4>1, <4>2, <4>3 DEF New
      <4> QED BY <2>2, <2>4, <3>1, <4>4 DEF OnceOf
    <3> QED BY <3>2, <3>3
  <2> QED BY <1>6, <2>5, <2>6
<1>7. ASSUME NEW w \in Worker, Moves(w), NEW i \in 1..Len(incident), i \notin again'
      PROVE  OnceOf(i)'
  <2>1. /\ PacketsOf(i)' = PacketsOf(i) /\ again \subseteq again'
        /\ InEvents(i)' => InEvents(i)
        /\ \A v \in Worker : v # w => (Carries(v, i)' <=> Carries(v, i))
        /\ Carries(w, i)' => Carries(w, i) \/ (InEvents(i) /\ ~ InEvents(i)')
        /\ \/ \A p \in PacketsOf(i) : reported'[p] = reported[p]
           \/ /\ Carries(w, i) /\ ~ Carries(w, i)'
              /\ \A p \in PacketsOf(i) : reported[p] = 0 => reported'[p] <= 1
    BY <1>7, CarriesStep, Zenon
  <2>2. OnceOf(i)
    BY <1>2, <1>7, <2>1
  <2>3. PacketsOf(i) \subseteq Packet
    <3>1. received \in 0..MaxPackets /\ MaxPackets \in Nat
      BY ReconAssumption DEF TypeOK, EventsOK
    <3> QED BY <1>7, <3>1, PacketsType DEF Packet
  <2>4. CASE \A p \in PacketsOf(i) : reported'[p] = reported[p]
    BY <2>1, <2>2, <2>4 DEF OnceOf
  <2>5. CASE /\ Carries(w, i) /\ ~ Carries(w, i)'
             /\ \A p \in PacketsOf(i) : reported[p] = 0 => reported'[p] <= 1
    <3>1. ~ InEvents(i) /\ \A v \in Worker \ {w} : ~ Carries(v, i)
      BY <2>2, <2>5 DEF OnceOf
    <3>2. \A p \in PacketsOf(i) : reported[p] = 0
      BY <1>1, <2>2, <2>3, <2>5 DEF OnceOf
    <3>3. ~ InEvents(i)' /\ \A v \in Worker : ~ Carries(v, i)'
      BY <2>1, <2>5, <3>1
    <3> QED BY <2>1, <2>5, <3>2, <3>3 DEF OnceOf
  <2> QED BY <2>1, <2>4, <2>5
<1>8. CASE \E w \in Worker : Moves(w)
  BY <1>7, <1>8, MovesFacts DEF Once
<1>9. CASE \E h \in Host : Receive(h)
  BY <1>3, <1>9 DEF Once
<1>10. CASE HandlerRaises \/ AppendPacket \/ AddEvent
  BY <1>5, <1>6, <1>10 DEF Once
<1> QED BY <1>4, <1>8, <1>9, <1>10 DEF Next, Handles, Moves

(***************************************************************************)
(* However the workers overlap, a packet is reported in one event only,    *)
(* unless it came while its event was taken or a worker was late           *)
(* (recon.py, lines 56-81, 98-143): for any hosts and timeouts.           *)
(***************************************************************************)
THEOREM ReportedOnceHolds == Spec => []ReportedOnce
<1>1. Init => JInv
  <2> SUFFICES ASSUME Init
               PROVE  JInv
    OBVIOUS
  <2>1. \A i : i \notin 1..Len(incident)
    BY DEF Init
  <2>2. /\ \A w \in Worker : worker[w].said = {}
        /\ \A p \in Packet : reported[p] = 0
    BY DEF Init, Ended
  <2> QED BY InitIInv, <2>1, <2>2 DEF JInv, OneIncident, Filled, Known, New, Once
<1>2. JInv /\ [Next]_vars => JInv'
  <2> SUFFICES ASSUME JInv, [Next]_vars
               PROVE  JInv'
    OBVIOUS
  <2>1. IInv' /\ OneIncident' /\ Filled' /\ Known'
    BY TypeStep, ShapeStep, FreshStep, OneIncidentStep, FilledStep, KnownStep DEF JInv, IInv
  <2>2. New' /\ Once'
    <3>1. CASE UNCHANGED vars
      <4>1. /\ UNCHANGED <<incident, events, worker, reported, received, again, handler>>
            /\ New /\ Once
        BY <3>1 DEF vars, tables, history, JInv
      <4> QED BY <4>1, SameForEvents DEF New, Once, OnceOf
    <3> QED BY <3>1, NewStep, OnceStep
  <2> QED BY <2>1, <2>2 DEF JInv
<1> QED BY <1>1, <1>2, OnceIsEnough, PTL DEF Spec

=============================================================================
