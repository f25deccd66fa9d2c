--------------------------- MODULE ConfigArchive ----------------------------
(***************************************************************************)
(* The configuration archives of the sensors, which a new sensor is set up *)
(* with: the requests that create, change and delete sensors, the jobs     *)
(* they put into beanstalkd, and the worker that packs an archive for each *)
(* job and tells by the sensor's configArchiveStatus how far it is.  A     *)
(* request stores its changes, puts its job and, if it creates the sensor, *)
(* stores the status, in steps of its own.                                 *)
(***************************************************************************)
EXTENDS Naturals, Sequences, FiniteSets

CONSTANTS
    Client,      \* PHP requests the web server handles at the same time
    Sensor,      \* identifiers of sensors, given out once each
    Setting,     \* what a sensor can be configured with
    MaxJobs,     \* bound: jobs put
    MaxFailures  \* bound: times the worker is killed or is slow, a job cannot
                 \* be put, or the container is restarted

ASSUME SettingAssumption == Setting # {}
ASSUME ArchiveBoundsAssumption == MaxJobs \in Nat /\ MaxFailures \in Nat

\* Stands for the configuration of a sensor there is not.
Default == CHOOSE v \in Setting : TRUE

VARIABLES
    born,      \* identifiers given out
    exists,    \* sensors in the database
    config,    \* their configuration
    status,    \* their configArchiveStatus
    request,   \* how far each client's request is
    jobs,      \* every job ever put, beanstalkd's identifiers being the indices
    ready,     \* jobs that wait in beanstalkd
    reserved,  \* jobs beanstalkd has given to the worker's connection
    lost,      \* jobs beanstalkd has forgotten
    worker,    \* where the worker is
    current,   \* the job it works on, or 0
    archive,   \* the archive files: the job they were packed for (0: no file),
               \* and whether they are complete
    failures,
    mixed      \* sensors of which two requests were under way at once, or whose
               \* request ended before it had put its job

sensors == <<born, exists, config, status>>
tube == <<jobs, ready, reserved, lost>>
packer == <<worker, current>>
vars == <<born, exists, config, status, request, jobs, ready, reserved, lost,
          worker, current, archive, failures, mixed>>

Unavailable == 0
Scheduled == 1
Creating == 2
Available == 3

Job == [sensor : Sensor, config : Setting]
Idle == [does |-> "nothing"]
Request ==
    {Idle}
    \cup [does : {"store"}, sensor : Sensor, config : Setting, read : Setting]
    \cup [does : {"enqueue"}, sensor : Sensor, config : Setting, new : BOOLEAN]
    \cup [does : {"schedule"}, sensor : Sensor]

Busy == {"check", "mark", "open", "pack", "finish", "remove"}

TypeOK ==
    /\ born \in SUBSET Sensor
    /\ exists \in SUBSET born
    /\ config \in [Sensor -> Setting]
    /\ status \in [Sensor -> Unavailable..Available]
    /\ request \in [Client -> Request]
    /\ jobs \in Seq(Job)
    /\ Len(jobs) <= MaxJobs
    /\ ready \in SUBSET DOMAIN jobs
    /\ reserved \in SUBSET DOMAIN jobs
    /\ lost \in SUBSET DOMAIN jobs
    /\ worker \in {"down", "wait"} \cup Busy
    /\ current \in 0..Len(jobs)
    /\ worker \in Busy <=> current # 0
    /\ archive \in [Sensor -> [job : 0..Len(jobs), complete : BOOLEAN]]
    /\ failures \in 0..MaxFailures
    /\ mixed \in SUBSET Sensor

Init ==
    /\ born = {}
    /\ exists = {}
    /\ config = [s \in Sensor |-> Default]
    /\ status = [s \in Sensor |-> Unavailable]
    /\ request = [c \in Client |-> Idle]
    /\ jobs = <<>>
    /\ ready = {}
    /\ reserved = {}
    /\ lost = {}
    /\ worker = "down"
    /\ current = 0
    /\ archive = [s \in Sensor |-> [job |-> 0, complete |-> FALSE]]
    /\ failures = 0
    /\ mixed = {}

-----------------------------------------------------------------------------
(* Requests *)

Continues(c, r) == request' = [request EXCEPT ![c] = r]

\* Mutant of StatusBecomes: the status is moved on instead of set.
StatusSteps(s, n) == status' = IF s \in exists THEN [status EXCEPT ![s] = @ + 1] ELSE status

\* Writing a row that is no longer there changes nothing.
StatusBecomes(s, n) == status' = IF s \in exists THEN [status EXCEPT ![s] = n] ELSE status

\* A request begins, while jobs are left to put.
Begins(c) == request[c] = Idle /\ Len(jobs) < MaxJobs

\* Requests that have yet to store a sensor or put its job.
Pending(s) ==
    {c \in Client : request[c].does \in {"store", "enqueue"} /\ request[c].sensor = s}

\* Sensors::create stores the new sensor, whose identifier its certificate needs.
BeginCreate(c) ==
    /\ Begins(c)
    /\ \E s \in Sensor \ born, v \in Setting :
        /\ born' = born \cup {s}
        /\ exists' = exists \cup {s}
        /\ config' = [config EXCEPT ![s] = v]
        /\ status' = [status EXCEPT ![s] = Unavailable]
        /\ Continues(c, [does |-> "enqueue", sensor |-> s, config |-> v, new |-> TRUE])
    /\ UNCHANGED <<tube, packer, archive, failures, mixed>>

\* Sensors::update finds the sensor ...
BeginUpdate(c) ==
    /\ Begins(c)
    /\ \E s \in exists, v \in Setting :
        /\ Continues(c, [does |-> "store", sensor |-> s, config |-> v, read |-> config[s]])
        /\ mixed' = IF Pending(s) = {} THEN mixed ELSE mixed \cup {s}
    /\ UNCHANGED <<sensors, tube, packer, archive, failures>>

\* Mutant of Store: the job will describe the sensor as it was found.
StoreOnly(c) ==
    /\ request[c].does = "store"
    /\ LET r == request[c] IN
        /\ config' = IF r.sensor \in exists THEN [config EXCEPT ![r.sensor] = r.config]
                     ELSE config
        /\ Continues(c, [does |-> "enqueue", sensor |-> r.sensor, config |-> r.read,
                         new |-> FALSE])
    /\ UNCHANGED <<born, exists, status, tube, packer, archive, failures, mixed>>

\* ... and writes what differs from what it has found.
Store(c) ==
    /\ request[c].does = "store"
    /\ LET r == request[c] IN
        /\ config' = IF r.sensor \in exists /\ r.config # r.read
                        THEN [config EXCEPT ![r.sensor] = r.config] ELSE config
        /\ Continues(c, [does |-> "enqueue", sensor |-> r.sensor, config |-> r.config,
                         new |-> FALSE])
    /\ UNCHANGED <<born, exists, status, tube, packer, archive, failures, mixed>>

\* putSensorConfigCreationJob describes the sensor as the request knows it.  The
\* status it gives the sensor stays in memory, and only create stores it afterwards.
Enqueue(c) ==
    /\ request[c].does = "enqueue"
    /\ Len(jobs) < MaxJobs
    /\ LET r == request[c] IN
        /\ jobs' = Append(jobs, [sensor |-> r.sensor, config |-> r.config])
        /\ ready' = ready \cup {Len(jobs) + 1}
        /\ Continues(c, IF r.new THEN [does |-> "schedule", sensor |-> r.sensor] ELSE Idle)
    /\ UNCHANGED <<sensors, reserved, lost, packer, archive, failures, mixed>>

\* beanstalkd cannot be reached: the exception ends the request.
EnqueueFails(c) ==
    /\ request[c].does = "enqueue"
    /\ failures < MaxFailures
    /\ Continues(c, Idle)
    /\ failures' = failures + 1
    /\ mixed' = mixed \cup {request[c].sensor}
    /\ UNCHANGED <<sensors, tube, packer, archive>>

\* The last flush of Sensors::create.
Schedule(c) ==
    /\ request[c].does = "schedule"
    /\ StatusBecomes(request[c].sensor, Scheduled)
    /\ Continues(c, Idle)
    /\ UNCHANGED <<born, exists, config, tube, packer, archive, failures, mixed>>

\* Sensors::delete; neither jobs nor the archive are removed.
Delete(c) ==
    /\ request[c] = Idle
    /\ \E s \in exists :
        /\ exists' = exists \ {s}
        /\ config' = [config EXCEPT ![s] = Default]
        /\ status' = [status EXCEPT ![s] = Unavailable]
    /\ UNCHANGED <<born, request, tube, packer, archive, failures, mixed>>

-----------------------------------------------------------------------------
(* The worker, line by line *)

Start ==
    /\ worker = "down"
    /\ worker' = "wait"
    /\ UNCHANGED <<sensors, request, tube, current, archive, failures, mixed>>

\* beanstalkd hands out the oldest job.
Reserve ==
    /\ worker = "wait"
    /\ \E j \in ready :
        /\ \A i \in ready : j <= i
        /\ ready' = ready \ {j}
        /\ reserved' = reserved \cup {j}
        /\ current' = j
    /\ worker' = "check"
    /\ UNCHANGED <<sensors, request, jobs, lost, archive, failures, mixed>>

\* A closed connection gives its jobs back.
Disconnects ==
    /\ worker' = "down"
    /\ current' = 0
    /\ ready' = ready \cup reserved
    /\ reserved' = {}

\* The worker waits for a job but has not deleted all it was given: one of those is
\* about to time out, which beanstalkd reports and beanstalkc raises.
DeadlineSoon ==
    /\ worker = "wait"
    /\ ready = {}
    /\ reserved # {}
    /\ Disconnects
    /\ UNCHANGED <<sensors, request, jobs, lost, archive, failures, mixed>>

\* Mutant of Check: the worker ends when the sensor is missing.
CheckExits ==
    /\ worker = "check"
    /\ IF jobs[current].sensor \in exists
          THEN worker' = "mark" /\ UNCHANGED <<ready, reserved, current>>
          ELSE Disconnects
    /\ UNCHANGED <<sensors, request, jobs, lost, archive, failures, mixed>>

\* Does the sensor exist?  If not the worker goes on to the next job and keeps this.
Check ==
    /\ worker = "check"
    /\ IF jobs[current].sensor \in exists
          THEN worker' = "mark" /\ current' = current
          ELSE worker' = "wait" /\ current' = 0
    /\ UNCHANGED <<sensors, request, tube, archive, failures, mixed>>

\* Mutant of Mark: the status stays while the archive is packed again.
MarkNot ==
    /\ worker = "mark"
    /\ worker' = "open"
    /\ UNCHANGED <<sensors, request, tube, current, archive, failures, mixed>>

Mark ==
    /\ worker = "mark"
    /\ StatusBecomes(jobs[current].sensor, Creating)
    /\ worker' = "open"
    /\ UNCHANGED <<born, exists, config, request, tube, current, archive, failures, mixed>>

\* Opening the archive to write it truncates the one that was there.
OpenArchive ==
    /\ worker = "open"
    /\ archive' = [archive EXCEPT ![jobs[current].sensor] =
                      [job |-> current, complete |-> FALSE]]
    /\ worker' = "pack"
    /\ UNCHANGED <<sensors, request, tube, current, failures, mixed>>

Pack ==
    /\ worker = "pack"
    /\ archive' = [archive EXCEPT ![jobs[current].sensor].complete = TRUE]
    /\ worker' = "finish"
    /\ UNCHANGED <<sensors, request, tube, current, failures, mixed>>

Finish ==
    /\ worker = "finish"
    /\ StatusBecomes(jobs[current].sensor, Available)
    /\ worker' = "remove"
    /\ UNCHANGED <<born, exists, config, request, tube, current, archive, failures, mixed>>

\* Mutant of RemoveJob: the job is done but not deleted.
RemoveJobNot ==
    /\ worker = "remove"
    /\ worker' = "wait"
    /\ current' = 0
    /\ UNCHANGED <<sensors, request, tube, archive, failures, mixed>>

\* Deleting a job succeeds, too, if it has timed out and waits again.
RemoveJob ==
    /\ worker = "remove"
    /\ ready' = ready \ {current}
    /\ reserved' = reserved \ {current}
    /\ worker' = "wait"
    /\ current' = 0
    /\ UNCHANGED <<sensors, request, jobs, lost, archive, failures, mixed>>

-----------------------------------------------------------------------------
(* Failures *)

\* Mutant of Crash: a job is delivered once at most.
CrashForgetsJobs ==
    /\ worker # "down"
    /\ failures < MaxFailures
    /\ worker' = "down"
    /\ current' = 0
    /\ reserved' = {}
    /\ failures' = failures + 1
    /\ UNCHANGED <<sensors, request, jobs, ready, lost, archive, mixed>>

\* The worker is killed, or fails as it reads a file or reaches the database.
Crash ==
    /\ worker # "down"
    /\ failures < MaxFailures
    /\ Disconnects
    /\ failures' = failures + 1
    /\ UNCHANGED <<sensors, request, jobs, lost, archive, mixed>>

\* While the worker is busy a job it was given times out.
Expire ==
    /\ worker \in Busy
    /\ failures < MaxFailures
    /\ \E j \in reserved :
        /\ ready' = ready \cup {j}
        /\ reserved' = reserved \ {j}
    /\ failures' = failures + 1
    /\ UNCHANGED <<sensors, request, jobs, lost, packer, archive, mixed>>

\* The container is restarted: requests end, and beanstalkd keeps nothing on disk.
Restart ==
    /\ failures < MaxFailures
    /\ request' = [c \in Client |-> Idle]
    /\ ready' = {}
    /\ reserved' = {}
    /\ lost' = lost \cup ready \cup reserved
    /\ worker' = "down"
    /\ current' = 0
    /\ failures' = failures + 1
    /\ mixed' = mixed \cup {s \in Sensor : Pending(s) # {}}
    /\ UNCHANGED <<sensors, jobs, archive>>

-----------------------------------------------------------------------------
Requests(c) ==
    \/ BeginCreate(c) \/ BeginUpdate(c) \/ Store(c) \/ Enqueue(c) \/ EnqueueFails(c)
    \/ Schedule(c) \/ Delete(c)

Worker ==
    \/ Start \/ Reserve \/ DeadlineSoon \/ Check \/ Mark \/ OpenArchive \/ Pack
    \/ Finish \/ RemoveJob

Next == (\E c \in Client : Requests(c)) \/ Worker \/ Crash \/ Expire \/ Restart

Spec == Init /\ [][Next]_vars

=============================================================================
