------------------------- MODULE ConfigArchiveProps -------------------------
(***************************************************************************)
(* The correctness properties of ConfigArchive.                            *)
(***************************************************************************)
EXTENDS ConfigArchive

(***************************************************************************)
(* A sensor whose status is "available" has a complete archive, never one  *)
(* the worker is writing or was killed over: so whoever the interface      *)
(* offers the download at once gets a whole one (worker, lines 65 and      *)
(* 111-117; Sensors.php, lines 379-380 and 664-670; SensorEdit.js, line    *)
(* 86).                                                                    *)
(***************************************************************************)
AvailableIsComplete ==
    \A s \in exists : status[s] = Available => archive[s].complete

JobsOf(s) == {j \in DOMAIN jobs : jobs[j].sensor = s}

(***************************************************************************)
(* Once the job put last for a sensor is neither waiting nor being worked  *)
(* on, the sensor's archive is the one of that job: whatever was killed,   *)
(* timed out or done again, no older job comes after it and none is        *)
(* dropped half done (worker, lines 44-123), unless beanstalkd forgot it.  *)
(***************************************************************************)
LastJobIsPacked ==
    \A s \in exists : \A j \in JobsOf(s) :
        (\A i \in JobsOf(s) : i <= j) /\ j \notin ready \cup reserved \cup lost =>
            archive[s] = [job |-> j, complete |-> TRUE]

(***************************************************************************)
(* When no request has a sensor's change or job in hand and no job for it  *)
(* waits, its archive is complete and holds the sensor's configuration:    *)
(* unless beanstalkd forgot the job, or two requests changed the sensor at *)
(* once or one ended early (Sensors.php, lines 373-380 and 522-639;        *)
(* BeanstalkService.php, lines 26-43; worker, lines 44-123).               *)
(***************************************************************************)
ArchiveIsCurrent ==
    \A s \in exists \ mixed :
        Pending(s) = {} /\ JobsOf(s) \cap (ready \cup reserved \cup lost) = {} =>
            archive[s].complete /\ jobs[archive[s].job].config = config[s]

(***************************************************************************)
(* Fairness: the worker, which its supervisor starts again whenever it     *)
(* ends, goes on.  No request has to be finished.                          *)
(***************************************************************************)
FairSpec == Spec /\ WF_vars(Worker)

\* A job needs no more work, or none can be done for it.
Served(j) ==
    LET s == jobs[j].sensor IN
    \/ s \notin exists
    \/ \E i \in lost : i >= j /\ jobs[i].sensor = s
    \/ archive[s].complete /\ archive[s].job >= j

(***************************************************************************)
(* Every job leads to an archive at least as new, although the worker      *)
(* keeps the jobs of deleted sensors, is ended by them again and again and *)
(* gets them first whenever it is back (worker, lines 44 and 61-63).       *)
(***************************************************************************)
EveryJobIsServed ==
    \A j \in 1..MaxJobs : j \in DOMAIN jobs ~> j \in DOMAIN jobs /\ Served(j)

(***************************************************************************)
(* The archive of a sensor is never replaced by the one of an older job,   *)
(* not even for a moment: jobs that are done again, because the worker was *)
(* killed or slow or has kept them, are done before any later one of the   *)
(* sensor (worker, lines 42-67, 112 and 123).                              *)
(***************************************************************************)
NeverGoesBack == [][\A s \in exists : archive'[s].job >= archive[s].job]_vars

-----------------------------------------------------------------------------
Concerns(c, s) == request[c] # Idle /\ request[c].sensor = s

(***************************************************************************)
(* "Render the config archive download when it's ready" (SensorEdit.js,    *)
(* line 85; until then the page says, in SensorEdit.tpl, line 254, that it *)
(* is being created): an archive nobody is to touch any more is available. *)
(***************************************************************************)
ReadyIsOffered ==
    \A s \in exists :
        /\ archive[s].complete
        /\ JobsOf(s) \cap (ready \cup reserved) = {}
        /\ \A c \in Client : ~ Concerns(c, s)
        => status[s] = Available

=============================================================================
