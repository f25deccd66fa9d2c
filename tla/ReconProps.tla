----------------------------- MODULE ReconProps -----------------------------
(***************************************************************************)
(* The correctness properties of Recon.                                    *)
(***************************************************************************)
EXTENDS Recon

InHand == IF handler.at = "idle" THEN {} ELSE {received}
InTable == UNION {PacketsOf(events[h]) : h \in Table}
Underway ==
    (UNION {worker[w].said : w \in Worker})
    \cup (UNION {PacketsOf(Head(worker[w].todo)) :
                     w \in {v \in Worker : worker[v].at = "talk"}})
Dropped == UNION {PacketsOf(i) : i \in dropped}
Repeated == UNION {PacketsOf(i) : i \in again}

(***************************************************************************)
(* No packet that was accepted is lost between the packet handler and the  *)
(* workers (recon.py, lines 75-80, 127-143): it is in the table, with a    *)
(* worker that waits for the collector, or with the collector.  Except     *)
(* that a worker which is late takes an event out of the table that it     *)
(* does not send, and that the service may end.                            *)
(***************************************************************************)
NoPacketLost ==
    alive => \A p \in 1..received :
        p \in InHand \cup InTable \cup Underway \cup Dropped \/ reported[p] > 0

(***************************************************************************)
(* However workers overlap, a packet is reported in one event only, unless *)
(* it came while its event was being taken out of the table, or a worker   *)
(* was late.                                                               *)
(***************************************************************************)
ReportedOnce == \A p \in 1..received : reported[p] <= 1 \/ p \in Repeated

-----------------------------------------------------------------------------
(***************************************************************************)
(* Fairness: time passes, threads are scheduled, the timer starts workers; *)
(* the collector answers, or ends.  Packets are not forced to come.        *)
(***************************************************************************)
FairSpec ==
    /\ Spec
    /\ WF_vars(alive /\ Tick)
    /\ WF_vars(alive /\ \E w \in Worker : StartWorker(w))
    /\ \A w \in Worker : WF_vars(alive /\ Works(w))

(***************************************************************************)
(* Once no more packets come, all events are sent, as long as the service  *)
(* runs: also if workers end because the table has changed or another one  *)
(* was faster, or wait for a collector that has ended.                     *)
(***************************************************************************)
EveryEventIsSent == <>[](alive => Table = {})

(***************************************************************************)
(* Flooders are accepted again, however many workers there are to see to   *)
(* it, and although what they have sent may still be in the table.         *)
(***************************************************************************)
FloodersReturn == <>[](alive => flooders = {})

=============================================================================
