------------------------ MODULE ConfigArchiveProofs -------------------------
(***************************************************************************)
(* Proofs of the safety properties of ConfigArchive, for any number of     *)
(* requests, sensors, jobs and failures.                                   *)
(*                                                                         *)
(* That the archive is the one of the last job is not inductive: it rests  *)
(* on the jobs of a sensor being finished in the order they were put       *)
(* (Ordered), which in turn rests on what the worker is given being the    *)
(* oldest job (Oldest) and on its keeping only jobs of deleted sensors     *)
(* (KeepsOnlyUseless).  That it is the sensor's configuration rests, in    *)
(* addition, on what the request knows that changes it (InHand).           *)
(***************************************************************************)
EXTENDS ConfigArchiveProps, SequenceTheorems, TLAPS

USE SettingAssumption, ArchiveBoundsAssumption

Pend == ready \cup reserved

\* Requests and jobs are about sensors that have been given an identifier.
AboutBorn ==
    /\ \A c \in Client : request[c] # Idle => request[c].sensor \in born
    /\ \A j \in DOMAIN jobs : jobs[j].sensor \in born

\* What the worker was given and does not work on is for deleted sensors.
KeepsOnlyUseless == \A j \in reserved : j # current => jobs[j].sensor \notin exists

\* The job worked on is not done, and no job that waits for an existing sensor is older.
Oldest ==
    worker \in Busy =>
        /\ current \in Pend
        /\ \A i \in ready : i >= current \/ jobs[i].sensor \notin exists

\* The jobs of a sensor are finished in their order.
Ordered ==
    \A i \in Pend, j \in DOMAIN jobs :
        i < j /\ jobs[j].sensor = jobs[i].sensor /\ jobs[i].sensor \in exists =>
            j \in Pend \cup lost

\* What the worker has written so far.
Written ==
    /\ worker \in {"open", "pack"} /\ jobs[current].sensor \in exists =>
           status[jobs[current].sensor] # Available
    /\ worker = "pack" => archive[jobs[current].sensor].job = current
    /\ worker \in {"finish", "remove"} =>
           archive[jobs[current].sensor] = [job |-> current, complete |-> TRUE]

IInv ==
    /\ TypeOK
    /\ AboutBorn
    /\ KeepsOnlyUseless
    /\ Oldest
    /\ Ordered
    /\ Written
    /\ AvailableIsComplete
    /\ LastJobIsPacked

-----------------------------------------------------------------------------
(***************************************************************************)
(* What a request carries, by how far it is.                               *)
(***************************************************************************)
LEMMA RequestKinds ==
    ASSUME TypeOK, NEW c \in Client
    PROVE  /\ request[c].does = "store" =>
                /\ request[c].sensor \in Sensor
                /\ request[c].config \in Setting
                /\ request[c].read \in Setting
           /\ request[c].does = "enqueue" =>
                /\ request[c].sensor \in Sensor
                /\ request[c].config \in Setting
                /\ request[c].new \in BOOLEAN
           /\ request[c].does = "schedule" => request[c].sensor \in Sensor
           /\ request[c].does \in {"store", "enqueue", "schedule"} => request[c] # Idle
<1>1. request[c] \in Request
  BY DEF TypeOK
<1>. QED  BY <1>1 DEF Request, Idle

\* Putting a job keeps those already put.
LEMMA AppendJob ==
    ASSUME NEW q \in Seq(Job), NEW j \in Job
    PROVE  /\ Append(q, j) \in Seq(Job)
           /\ Len(Append(q, j)) = Len(q) + 1
           /\ DOMAIN Append(q, j) = DOMAIN q \cup {Len(q) + 1}
           /\ Append(q, j)[Len(q) + 1] = j
           /\ \A i \in DOMAIN q : Append(q, j)[i] = q[i]
BY AppendProperties

\* The job the worker works on.
LEMMA CurrentJob ==
    ASSUME TypeOK, worker \in Busy
    PROVE  current \in DOMAIN jobs /\ jobs[current] \in Job /\ jobs[current].sensor \in Sensor
<1>1. current \in 1..Len(jobs) /\ jobs \in Seq(Job)
  BY DEF TypeOK
<1>2. jobs[current] \in Job /\ current \in DOMAIN jobs
  BY <1>1, ElementOfSeq
<1>. QED  BY <1>2 DEF Job

\* Setting a status keeps the type of all.
LEMMA StatusType ==
    ASSUME TypeOK, NEW s \in Sensor, NEW n \in Unavailable..Available, StatusBecomes(s, n)
    PROVE  status' \in [Sensor -> Unavailable..Available]
BY DEF TypeOK, StatusBecomes

-----------------------------------------------------------------------------
(***************************************************************************)
(* Type correctness (all variables of ConfigArchive).                      *)
(***************************************************************************)
LEMMA TypeOKInit == Init => TypeOK
<1>. SUFFICES ASSUME Init PROVE TypeOK
  OBVIOUS
<1>1. Default \in Setting
  BY DEF Default
<1>2. jobs \in Seq(Job) /\ Len(jobs) = 0 /\ DOMAIN jobs = {}
  BY EmptySeq DEF Init
<1>. QED
  BY <1>1, <1>2 DEF Init, TypeOK, Busy, Request, Unavailable, Available

LEMMA TypeOKRequests ==
    ASSUME TypeOK, NEW c \in Client, Requests(c)
    PROVE  TypeOK'
<1>1. CASE BeginCreate(c)
  <2>1. PICK s \in Sensor \ born, v \in Setting :
            /\ born' = born \cup {s}
            /\ exists' = exists \cup {s}
            /\ config' = [config EXCEPT ![s] = v]
            /\ status' = [status EXCEPT ![s] = Unavailable]
            /\ Continues(c, [does |-> "enqueue", sensor |-> s, config |-> v, new |-> TRUE])
    BY <1>1 DEF BeginCreate
  <2>2. request' \in [Client -> Request]
    BY <2>1 DEF TypeOK, Request, Continues
  <2>3. status' \in [Sensor -> Unavailable..Available]
    BY <2>1 DEF TypeOK, Unavailable, Available
  <2>4. born' \in SUBSET Sensor /\ exists' \in SUBSET born' /\ config' \in [Sensor -> Setting]
    BY <2>1 DEF TypeOK
  <2>. QED
    BY <1>1, <2>2, <2>3, <2>4 DEF BeginCreate, TypeOK, tube, packer
<1>2. CASE BeginUpdate(c)
  <2>1. PICK s \in exists, v \in Setting :
            /\ Continues(c, [does |-> "store", sensor |-> s, config |-> v, read |-> config[s]])
            /\ mixed' = IF Pending(s) = {} THEN mixed ELSE mixed \cup {s}
    BY <1>2 DEF BeginUpdate
  <2>2. request' \in [Client -> Request] /\ mixed' \in SUBSET Sensor
    BY <2>1 DEF TypeOK, Request, Continues
  <2>. QED
    BY <1>2, <2>2 DEF BeginUpdate, TypeOK, sensors, tube, packer
<1>3. CASE Store(c)
  <2>1. request[c].sensor \in Sensor /\ request[c].config \in Setting
    BY <1>3, RequestKinds DEF Store
  <2>2. request' \in [Client -> Request] /\ config' \in [Sensor -> Setting]
    BY <1>3, <2>1 DEF Store, TypeOK, Request, Continues
  <2>. QED
    BY <1>3, <2>2 DEF Store, TypeOK, tube, packer
<1>4. CASE Enqueue(c)
  <2>1. request[c].sensor \in Sensor /\ request[c].config \in Setting
    BY <1>4, RequestKinds DEF Enqueue
  <2>2. request' \in [Client -> Request]
    BY <1>4, <2>1 DEF Enqueue, TypeOK, Request, Continues
  <2>3. [sensor |-> request[c].sensor, config |-> request[c].config] \in Job
    BY <2>1 DEF Job
  <2>4. /\ jobs' \in Seq(Job)
        /\ Len(jobs') = Len(jobs) + 1
        /\ DOMAIN jobs' = DOMAIN jobs \cup {Len(jobs) + 1}
    BY <1>4, <2>3, AppendJob DEF Enqueue, TypeOK
  <2>5. Len(jobs) \in Nat
    BY LenProperties DEF TypeOK
  <2>6. Len(jobs') <= MaxJobs /\ 0..Len(jobs) \subseteq 0..Len(jobs')
    BY <1>4, <2>4, <2>5 DEF Enqueue
  <2>7. archive' \in [Sensor -> [job : 0..Len(jobs'), complete : BOOLEAN]]
    BY <1>4, <2>6 DEF Enqueue, TypeOK
  <2>. QED
    BY <1>4, <2>2, <2>4, <2>6, <2>7 DEF Enqueue, TypeOK, sensors, packer
<1>5. CASE EnqueueFails(c)
  <2>1. request[c].sensor \in Sensor
    BY <1>5, RequestKinds DEF EnqueueFails
  <2>2. request' \in [Client -> Request]
    BY <1>5 DEF EnqueueFails, TypeOK, Request, Continues
  <2>. QED
    BY <1>5, <2>1, <2>2 DEF EnqueueFails, TypeOK, sensors, tube, packer
<1>6. CASE Schedule(c)
  <2>1. request[c].sensor \in Sensor
    BY <1>6, RequestKinds DEF Schedule
  <2>2. request' \in [Client -> Request]
    BY <1>6 DEF Schedule, TypeOK, Request, Continues
  <2>3. Scheduled \in Unavailable..Available
    BY DEF Scheduled, Unavailable, Available
  <2>4. status' \in [Sensor -> Unavailable..Available]
    BY <1>6, <2>1, <2>3, StatusType DEF Schedule
  <2>. QED
    BY <1>6, <2>2, <2>4 DEF Schedule, TypeOK, tube, packer
<1>7. CASE Delete(c)
  <2>1. Default \in Setting
    BY DEF Default
  <2>2. Unavailable \in Unavailable..Available
    BY DEF Unavailable, Available
  <2>. QED
    BY <1>7, <2>1, <2>2 DEF Delete, TypeOK, tube, packer
<1>. QED
  BY <1>1, <1>2, <1>3, <1>4, <1>5, <1>6, <1>7 DEF Requests

LEMMA TypeOKWorker ==
    ASSUME TypeOK, Worker
    PROVE  TypeOK'
<1>0. /\ Creating \in Unavailable..Available
      /\ Available \in Unavailable..Available
  BY DEF Creating, Unavailable, Available
<1>1. CASE Start
  BY <1>1 DEF Start, TypeOK, Busy, sensors, tube
<1>2. CASE Reserve
  <2>1. PICK j \in ready :
            ready' = ready \ {j} /\ reserved' = reserved \cup {j} /\ current' = j
    BY <1>2 DEF Reserve
  <2>2. j \in 1..Len(jobs)
    BY <2>1, LenProperties DEF TypeOK
  <2>. QED
    BY <1>2, <2>1, <2>2 DEF Reserve, TypeOK, Busy, sensors
<1>3. CASE DeadlineSoon
  <2>1. Len(jobs) \in Nat
    BY LenProperties DEF TypeOK
  <2>. QED
    BY <1>3, <2>1 DEF DeadlineSoon, Disconnects, TypeOK, Busy, sensors
<1>4. CASE Check
  <2>1. Len(jobs) \in Nat
    BY LenProperties DEF TypeOK
  <2>. QED
    BY <1>4, <2>1 DEF Check, TypeOK, Busy, sensors, tube
<1>5. CASE Mark
  <2>1. status' \in [Sensor -> Unavailable..Available]
    BY <1>0, <1>5, CurrentJob, StatusType DEF Mark, Busy
  <2>. QED
    BY <1>5, <2>1 DEF Mark, TypeOK, Busy, tube
<1>6. CASE OpenArchive
  <2>1. archive' \in [Sensor -> [job : 0..Len(jobs), complete : BOOLEAN]]
    BY <1>6 DEF OpenArchive, TypeOK
  <2>. QED
    BY <1>6, <2>1 DEF OpenArchive, TypeOK, Busy, sensors, tube
<1>7. CASE Pack
  <2>1. archive' \in [Sensor -> [job : 0..Len(jobs), complete : BOOLEAN]]
    BY <1>7 DEF Pack, TypeOK
  <2>. QED
    BY <1>7, <2>1 DEF Pack, TypeOK, Busy, sensors, tube
<1>8. CASE Finish
  <2>1. status' \in [Sensor -> Unavailable..Available]
    BY <1>0, <1>8, CurrentJob, StatusType DEF Finish, Busy
  <2>. QED
    BY <1>8, <2>1 DEF Finish, TypeOK, Busy, tube
<1>9. CASE RemoveJob
  <2>1. Len(jobs) \in Nat
    BY LenProperties DEF TypeOK
  <2>. QED
    BY <1>9, <2>1 DEF RemoveJob, TypeOK, Busy, sensors
<1>. QED
  BY <1>1, <1>2, <1>3, <1>4, <1>5, <1>6, <1>7, <1>8, <1>9 DEF Worker

LEMMA TypeOKNext == TypeOK /\ [Next]_vars => TypeOK'
<1>. SUFFICES ASSUME TypeOK, [Next]_vars PROVE TypeOK'
  OBVIOUS
<1>0. Len(jobs) \in Nat
  BY LenProperties DEF TypeOK
<1>1. CASE \E c \in Client : Requests(c)
  BY <1>1, TypeOKRequests
<1>2. CASE Worker
  BY <1>2, TypeOKWorker
<1>3. CASE Crash
  BY <1>0, <1>3 DEF Crash, Disconnects, TypeOK, Busy, sensors
<1>4. CASE Expire
  BY <1>4 DEF Expire, TypeOK, sensors, packer
<1>5. CASE Restart
  <2>1. request' \in [Client -> Request]
    BY <1>5 DEF Restart, Request
  <2>. QED
    BY <1>0, <1>5, <2>1 DEF Restart, TypeOK, Busy, sensors
<1>6. CASE UNCHANGED vars
  BY <1>6 DEF vars, TypeOK
<1>. QED
  BY <1>1, <1>2, <1>3, <1>4, <1>5, <1>6 DEF Next

(***************************************************************************)
(* Every variable of ConfigArchive keeps its type.                         *)
(***************************************************************************)
THEOREM TypeCorrect == Spec => []TypeOK
<1>. QED  BY TypeOKInit, TypeOKNext, PTL DEF Spec

-----------------------------------------------------------------------------
(***************************************************************************)
(* The inductive invariant.                                                *)
(***************************************************************************)

\* What the parts of the invariant say of the job worked on and of the jobs put.
LEMMA JobFacts ==
    ASSUME IInv
    PROVE  /\ TypeOK
           /\ Len(jobs) \in Nat
           /\ DOMAIN jobs = 1..Len(jobs)
           /\ worker \in Busy => current \in DOMAIN jobs /\ jobs[current].sensor \in Sensor
BY CurrentJob, LenProperties DEF IInv, TypeOK

LEMMA InvInit == Init => IInv
<1>. SUFFICES ASSUME Init PROVE IInv
  OBVIOUS
<1>1. DOMAIN jobs = {}
  BY EmptySeq DEF Init
<1>2. TypeOK
  BY TypeOKInit
<1>. QED
  BY <1>1, <1>2 DEF Init, IInv, AboutBorn, KeepsOnlyUseless, Oldest, Ordered, Pend, Written,
                    AvailableIsComplete, LastJobIsPacked, JobsOf, Busy, Idle

\* A new sensor has an identifier no request and no job has known before.
LEMMA InvBeginCreate ==
    ASSUME IInv, TypeOK', NEW c \in Client, BeginCreate(c)
    PROVE  IInv'
<1>. USE JobFacts
<1>1. PICK s \in Sensor \ born, v \in Setting :
          /\ born' = born \cup {s}
          /\ exists' = exists \cup {s}
          /\ status' = [status EXCEPT ![s] = Unavailable]
          /\ Continues(c, [does |-> "enqueue", sensor |-> s, config |-> v, new |-> TRUE])
  BY DEF BeginCreate
<1>2. UNCHANGED <<jobs, ready, reserved, lost, worker, current, archive>>
  BY DEF BeginCreate, tube, packer
<1>3. \A j \in DOMAIN jobs : jobs[j].sensor # s
  BY <1>1 DEF IInv, AboutBorn
<1>4. AboutBorn'
  BY <1>1, <1>2 DEF IInv, AboutBorn, TypeOK, Continues
<1>5. KeepsOnlyUseless'
  BY <1>1, <1>2, <1>3 DEF IInv, KeepsOnlyUseless, TypeOK
<1>6. Oldest'
  BY <1>1, <1>2, <1>3 DEF IInv, Oldest, Pend, TypeOK
<1>7. Ordered'
  BY <1>1, <1>2, <1>3 DEF IInv, Ordered, Pend, TypeOK
<1>8. Written'
  BY <1>1, <1>2, <1>3 DEF IInv, Written, TypeOK, Busy
<1>9. AvailableIsComplete'
  BY <1>1, <1>2 DEF IInv, AvailableIsComplete, TypeOK, Unavailable, Available
<1>10. LastJobIsPacked'
  BY <1>1, <1>2, <1>3 DEF IInv, LastJobIsPacked, JobsOf, TypeOK
<1>. QED  BY <1>4, <1>5, <1>6, <1>7, <1>8, <1>9, <1>10 DEF IInv

\* The new job is the newest of all, and waits.
LEMMA InvEnqueue ==
    ASSUME IInv, TypeOK', NEW c \in Client, Enqueue(c)
    PROVE  IInv'
<1>. DEFINE n == Len(jobs) + 1
<1>. USE JobFacts
<1>1. /\ DOMAIN jobs' = DOMAIN jobs \cup {n}
      /\ \A i \in DOMAIN jobs : jobs'[i] = jobs[i]
      /\ jobs'[n].sensor = request[c].sensor
  <2>1. [sensor |-> request[c].sensor, config |-> request[c].config] \in Job
    BY RequestKinds DEF Enqueue, Job
  <2>. QED  BY <2>1, AppendJob DEF Enqueue, TypeOK
<1>2. ready' = ready \cup {n}
  BY DEF Enqueue
<1>3. UNCHANGED <<born, exists, status, reserved, lost, worker, current, archive>>
  BY DEF Enqueue, sensors, packer
<1>4. \A i \in DOMAIN jobs : i < n
  OBVIOUS
<1>5. request[c] # Idle
  BY RequestKinds DEF Enqueue
<1>6. AboutBorn'
  BY <1>1, <1>3, <1>5 DEF IInv, AboutBorn, Enqueue, Continues, TypeOK
<1>7. KeepsOnlyUseless'
  BY <1>1, <1>3 DEF IInv, KeepsOnlyUseless, TypeOK
<1>8. Oldest'
  BY <1>1, <1>2, <1>3, <1>4 DEF IInv, Oldest, Pend, TypeOK
<1>9. Ordered'
  BY <1>1, <1>2, <1>3, <1>4 DEF IInv, Ordered, Pend, TypeOK
<1>10. Written'
  BY <1>1, <1>3 DEF IInv, Written, Busy
<1>11. AvailableIsComplete'
  BY <1>3 DEF IInv, AvailableIsComplete
<1>12. LastJobIsPacked'
  BY <1>1, <1>2, <1>3, <1>4 DEF IInv, LastJobIsPacked, JobsOf
<1>. QED  BY <1>6, <1>7, <1>8, <1>9, <1>10, <1>11, <1>12 DEF IInv

\* The other steps of requests leave jobs and archives alone.
LEMMA InvRequests ==
    ASSUME IInv, TypeOK', NEW c \in Client, Requests(c)
    PROVE  IInv'
<1>. USE JobFacts, RequestKinds
     DEF IInv, AboutBorn, KeepsOnlyUseless, Oldest, Ordered, Pend, Written,
         AvailableIsComplete, LastJobIsPacked, JobsOf, Busy, Idle, Continues
<1>1. CASE BeginUpdate(c)
  <2>1. UNCHANGED <<sensors, tube, packer, archive>>
    BY <1>1 DEF BeginUpdate
  <2>2. AboutBorn'
    BY <1>1, <2>1 DEF BeginUpdate, sensors, tube, TypeOK
  <2>. QED  BY <2>1, <2>2 DEF sensors, tube, packer
<1>2. CASE Store(c)
  BY <1>2 DEF Store, tube, packer
<1>3. CASE EnqueueFails(c)
  BY <1>3 DEF EnqueueFails, sensors, tube, packer
<1>4. CASE Schedule(c)
  BY <1>4 DEF Schedule, tube, packer, StatusBecomes, Scheduled, Available
<1>5. CASE Delete(c)
  BY <1>5 DEF Delete, tube, packer, Unavailable, Available
<1>. QED
  BY <1>1, <1>2, <1>3, <1>4, <1>5, InvBeginCreate, InvEnqueue DEF Requests

\* The job the worker is given is the oldest; what it had before is of no use.
LEMMA InvReserve ==
    ASSUME IInv, TypeOK', Reserve
    PROVE  IInv'
<1>. USE JobFacts
<1>1. PICK j \in ready :
          /\ \A i \in ready : j <= i
          /\ ready' = ready \ {j}
          /\ reserved' = reserved \cup {j}
          /\ current' = j
  BY DEF Reserve
<1>2. UNCHANGED <<born, exists, status, request, jobs, lost, archive>>
  BY DEF Reserve, sensors
<1>3. worker' = "check" /\ current = 0
  BY DEF Reserve, TypeOK, Busy
<1>4. Pend' = Pend
  BY <1>1 DEF Pend
<1>5. AboutBorn'
  BY <1>2 DEF IInv, AboutBorn
<1>6. KeepsOnlyUseless'
  <2>1. \A i \in reserved : i # 0
    BY DEF TypeOK
  <2>. QED  BY <1>1, <1>2, <1>3, <2>1 DEF IInv, KeepsOnlyUseless
<1>7. Oldest'
  BY <1>1, <1>4, TypeOK DEF Oldest, Pend, TypeOK
<1>8. Ordered'
  BY <1>2, <1>4 DEF IInv, Ordered
<1>9. Written'
  BY <1>3 DEF Written
<1>10. AvailableIsComplete'
  BY <1>2 DEF IInv, AvailableIsComplete
<1>11. LastJobIsPacked'
  BY <1>1, <1>2 DEF IInv, LastJobIsPacked, JobsOf
<1>. QED  BY <1>5, <1>6, <1>7, <1>8, <1>9, <1>10, <1>11 DEF IInv

\* The archive that is overwritten is not the one of the sensor's last job.
LEMMA InvOpenArchive ==
    ASSUME IInv, TypeOK', OpenArchive
    PROVE  IInv'
<1>. DEFINE n == jobs[current].sensor
<1>. USE JobFacts
<1>1. /\ archive' = [archive EXCEPT ![n] = [job |-> current, complete |-> FALSE]]
      /\ worker = "open" /\ worker' = "pack"
      /\ UNCHANGED <<sensors, request, tube, current>>
  BY DEF OpenArchive
<1>2. current \in DOMAIN jobs /\ n \in Sensor /\ current \in Pend
  BY <1>1 DEF IInv, Oldest, Busy
<1>3. AboutBorn' /\ KeepsOnlyUseless' /\ Ordered'
  BY <1>1 DEF IInv, AboutBorn, KeepsOnlyUseless, Ordered, Pend, sensors, tube
<1>4. Oldest'
  BY <1>1 DEF IInv, Oldest, Pend, Busy, sensors, tube
<1>5. Written'
  BY <1>1, <1>2 DEF IInv, Written, sensors, tube, TypeOK
<1>6. AvailableIsComplete'
  BY <1>1, <1>2 DEF IInv, AvailableIsComplete, Written, sensors, TypeOK
<1>7. LastJobIsPacked'
  <2>. SUFFICES ASSUME NEW s \in exists, NEW j \in JobsOf(s),
                       \A i \in JobsOf(s) : i <= j, j \notin Pend \cup lost
                PROVE  archive'[s] = [job |-> j, complete |-> TRUE]
    BY <1>1 DEF LastJobIsPacked, JobsOf, Pend, sensors, tube
  <2>1. s # n
    BY <1>2 DEF IInv, Ordered, JobsOf
  <2>2. archive[s] = [job |-> j, complete |-> TRUE]
    BY DEF IInv, LastJobIsPacked, Pend
  <2>. QED  BY <1>1, <2>1, <2>2 DEF TypeOK
<1>. QED  BY <1>3, <1>4, <1>5, <1>6, <1>7 DEF IInv

\* What is completed is the archive of the job worked on.
LEMMA InvPack ==
    ASSUME IInv, TypeOK', Pack
    PROVE  IInv'
<1>. DEFINE n == jobs[current].sensor
<1>. USE JobFacts
<1>1. /\ archive' = [archive EXCEPT ![n].complete = TRUE]
      /\ worker = "pack" /\ worker' = "finish"
      /\ UNCHANGED <<sensors, request, tube, current>>
  BY DEF Pack
<1>2. n \in Sensor /\ archive[n].job = current
  BY <1>1 DEF IInv, Written, Busy
<1>3. AboutBorn' /\ KeepsOnlyUseless' /\ Ordered'
  BY <1>1 DEF IInv, AboutBorn, KeepsOnlyUseless, Ordered, Pend, sensors, tube
<1>4. Oldest'
  BY <1>1 DEF IInv, Oldest, Pend, Busy, sensors, tube
<1>5. Written'
  <2>1. archive'[n] = [job |-> current, complete |-> TRUE]
    <3>1. archive'[n] = [archive[n] EXCEPT !.complete = TRUE]
      BY <1>1, <1>2 DEF TypeOK
    <3>2. archive[n] \in [job : 0..Len(jobs), complete : BOOLEAN]
      BY <1>2 DEF TypeOK
    <3>. QED  BY <1>2, <3>1, <3>2
  <2>. QED  BY <1>1, <2>1 DEF Written, sensors, tube
<1>6. AvailableIsComplete'
  BY <1>1 DEF IInv, AvailableIsComplete, sensors, TypeOK
<1>7. LastJobIsPacked'
  <2>. SUFFICES ASSUME NEW s \in exists, NEW j \in JobsOf(s),
                       \A i \in JobsOf(s) : i <= j, j \notin Pend \cup lost
                PROVE  archive'[s] = [job |-> j, complete |-> TRUE]
    BY <1>1 DEF LastJobIsPacked, JobsOf, Pend, sensors, tube
  <2>1. archive[s] = [job |-> j, complete |-> TRUE]
    BY DEF IInv, LastJobIsPacked, Pend
  <2>2. s # n
    BY <1>1 DEF IInv, Oldest, Ordered, JobsOf, Busy
  <2>. QED  BY <1>1, <2>1, <2>2 DEF TypeOK
<1>. QED  BY <1>3, <1>4, <1>5, <1>6, <1>7 DEF IInv

\* The job that is done was the oldest of its sensor, and its archive is there.
LEMMA InvRemoveJob ==
    ASSUME IInv, TypeOK', RemoveJob
    PROVE  IInv'
<1>. USE JobFacts
<1>1. /\ worker = "remove" /\ worker' = "wait" /\ current' = 0
      /\ ready' = ready \ {current} /\ reserved' = reserved \ {current}
      /\ UNCHANGED <<born, exists, status, request, jobs, lost, archive>>
  BY DEF RemoveJob, sensors
<1>2. Pend' = Pend \ {current} /\ current \in DOMAIN jobs
  BY <1>1 DEF Pend, Busy
<1>3. \A i \in Pend' : jobs[i].sensor \in exists => i > current
  BY <1>1 DEF IInv, KeepsOnlyUseless, Oldest, Pend, Busy, TypeOK
<1>4. AboutBorn'
  BY <1>1 DEF IInv, AboutBorn
<1>5. KeepsOnlyUseless'
  BY <1>1 DEF IInv, KeepsOnlyUseless
<1>6. Oldest' /\ Written'
  BY <1>1 DEF Oldest, Written, Busy
<1>7. Ordered'
  <2>. SUFFICES ASSUME NEW i \in Pend', NEW j \in DOMAIN jobs, i < j,
                       jobs[j].sensor = jobs[i].sensor, jobs[i].sensor \in exists
                PROVE  j \in Pend' \cup lost
    BY <1>1 DEF Ordered
  <2>1. i \in Pend /\ i > current /\ j # current
    BY <1>2, <1>3 DEF TypeOK, Pend
  <2>2. j \in Pend \cup lost
    BY <2>1 DEF IInv, Ordered
  <2>. QED  BY <1>2, <2>1, <2>2
<1>8. AvailableIsComplete'
  BY <1>1 DEF IInv, AvailableIsComplete
<1>9. LastJobIsPacked'
  <2>. SUFFICES ASSUME NEW s \in exists, NEW j \in JobsOf(s),
                       \A i \in JobsOf(s) : i <= j, j \notin Pend' \cup lost
                PROVE  archive[s] = [job |-> j, complete |-> TRUE]
    BY <1>1 DEF LastJobIsPacked, JobsOf, Pend
  <2>1. CASE j = current
    BY <1>1, <2>1 DEF IInv, Written, JobsOf
  <2>2. CASE j # current
    BY <1>2, <2>2 DEF IInv, LastJobIsPacked, Pend
  <2>. QED  BY <2>1, <2>2
<1>. QED  BY <1>4, <1>5, <1>6, <1>7, <1>8, <1>9 DEF IInv

\* The other steps of the worker change no archive and finish no job.
LEMMA InvWorker ==
    ASSUME IInv, TypeOK', Worker
    PROVE  IInv'
<1>. USE JobFacts
     DEF IInv, AboutBorn, KeepsOnlyUseless, Oldest, Ordered, Pend, Written,
         AvailableIsComplete, LastJobIsPacked, JobsOf, Busy
<1>1. CASE Start
  BY <1>1 DEF Start, sensors, tube
<1>2. CASE DeadlineSoon
  BY <1>2 DEF DeadlineSoon, Disconnects, sensors
<1>3. CASE Check
  BY <1>3 DEF Check, sensors, tube
<1>4. CASE Mark
  <2>1. /\ UNCHANGED <<born, exists, request, tube, current, archive>>
        /\ worker = "mark" /\ worker' = "open"
        /\ StatusBecomes(jobs[current].sensor, Creating)
    BY <1>4 DEF Mark
  <2>2. Written'
    BY <2>1 DEF StatusBecomes, Creating, Available, tube, TypeOK
  <2>3. AvailableIsComplete'
    BY <2>1 DEF StatusBecomes, Creating, Available, TypeOK
  <2>4. (AboutBorn /\ KeepsOnlyUseless /\ Oldest /\ Ordered /\ LastJobIsPacked)'
    BY <2>1 DEF tube
  <2>. QED  BY <2>2, <2>3, <2>4
<1>5. CASE Finish
  <2>1. /\ UNCHANGED <<born, exists, request, tube, current, archive>>
        /\ worker = "finish" /\ worker' = "remove"
        /\ StatusBecomes(jobs[current].sensor, Available)
    BY <1>5 DEF Finish
  <2>2. AvailableIsComplete'
    BY <2>1 DEF StatusBecomes, TypeOK
  <2>3. (AboutBorn /\ KeepsOnlyUseless /\ Oldest /\ Ordered /\ LastJobIsPacked /\ Written)'
    BY <2>1 DEF tube
  <2>. QED  BY <2>2, <2>3
<1>. QED
  BY <1>1, <1>2, <1>3, <1>4, <1>5, InvReserve, InvOpenArchive, InvPack, InvRemoveJob
  DEF Worker

LEMMA InvNext == IInv /\ [Next]_vars => IInv'
<1>. SUFFICES ASSUME IInv, [Next]_vars PROVE IInv'
  OBVIOUS
<1>0. TypeOK'
  BY TypeOKNext DEF IInv
<1>. USE JobFacts
<1>1. CASE \E c \in Client : Requests(c)
  BY <1>0, <1>1, InvRequests
<1>2. CASE Worker
  BY <1>0, <1>2, InvWorker
<1>. USE DEF IInv, AboutBorn, KeepsOnlyUseless, Oldest, Ordered, Pend, Written,
             AvailableIsComplete, LastJobIsPacked, JobsOf
<1>3. CASE Crash
  BY <1>0, <1>3 DEF Crash, Disconnects, sensors, Busy
<1>4. CASE Expire
  <2>1. PICK j \in reserved : ready' = ready \cup {j} /\ reserved' = reserved \ {j}
    BY <1>4 DEF Expire
  <2>2. UNCHANGED <<born, exists, status, request, jobs, lost, worker, current, archive>>
    BY <1>4 DEF Expire, sensors, packer
  <2>3. Oldest'
    BY <2>1, <2>2 DEF TypeOK
  <2>4. KeepsOnlyUseless' /\ Ordered' /\ LastJobIsPacked'
    BY <2>1, <2>2
  <2>5. AboutBorn' /\ Written' /\ AvailableIsComplete'
    BY <2>2
  <2>. QED  BY <1>0, <2>3, <2>4, <2>5
<1>5. CASE Restart
  BY <1>0, <1>5 DEF Restart, sensors, Busy
<1>6. CASE UNCHANGED vars
  BY <1>0, <1>6 DEF vars
<1>. QED
  BY <1>1, <1>2, <1>3, <1>4, <1>5, <1>6 DEF Next

(***************************************************************************)
(* Nobody is offered an archive that is not complete (worker, lines 65 and *)
(* 111-117; Sensors.php, lines 379-380).                                   *)
(***************************************************************************)
THEOREM OfferedAreComplete == Spec => []AvailableIsComplete
<1>1. IInv => AvailableIsComplete
  BY DEF IInv
<1>. QED  BY <1>1, InvInit, InvNext, PTL DEF Spec

(***************************************************************************)
(* The archive of a sensor is the one of the job put last, unless that job *)
(* is still to be worked on or was forgotten (worker, lines 44-123).       *)
(***************************************************************************)
THEOREM LastJobWins == Spec => []LastJobIsPacked
<1>1. IInv => LastJobIsPacked
  BY DEF IInv
<1>. QED  BY <1>1, InvInit, InvNext, PTL DEF Spec

-----------------------------------------------------------------------------
(***************************************************************************)
(* That the archive is the sensor's configuration needs more than IInv,    *)
(* namely what the request that changes the sensor knows of it: there is   *)
(* one at most, it writes over what it has read, and its job is to         *)
(* describe what it writes; when there is none, the newest job describes   *)
(* the sensor.                                                             *)
(***************************************************************************)
InHand ==
    \A s \in exists \ mixed :
        /\ \A c, d \in Pending(s) : c = d
        /\ \A c \in Pending(s) :
              /\ request[c].does = "store" => request[c].read = config[s]
              /\ request[c].does = "enqueue" => request[c].config = config[s]
        /\ Pending(s) = {} =>
              \E j \in JobsOf(s) : (\A i \in JobsOf(s) : i <= j) /\ jobs[j].config = config[s]

LEMMA InHandInit == Init => InHand
BY DEF Init, InHand

\* A step that leaves the sensors, their pending requests and the jobs alone.
LEMMA InHandKept ==
    ASSUME InHand, exists' \subseteq exists, mixed \subseteq mixed',
           \A s \in exists' : config'[s] = config[s],
           jobs' = jobs, request' = request
    PROVE  InHand'
BY DEF InHand, Pending, JobsOf

\* The first job of a new sensor is still to be put.
LEMMA InHandBeginCreate ==
    ASSUME IInv, InHand, NEW c \in Client, BeginCreate(c)
    PROVE  InHand'
<1>. USE JobFacts
<1>1. PICK s \in Sensor \ born, v \in Setting :
          /\ exists' = exists \cup {s}
          /\ config' = [config EXCEPT ![s] = v]
          /\ Continues(c, [does |-> "enqueue", sensor |-> s, config |-> v, new |-> TRUE])
  BY DEF BeginCreate
<1>2. UNCHANGED <<jobs, mixed>> /\ request[c] = Idle
  BY DEF BeginCreate, Begins, tube
<1>3. /\ request'[c] = [does |-> "enqueue", sensor |-> s, config |-> v, new |-> TRUE]
      /\ \A d \in Client : d # c => request'[d] = request[d]
  BY <1>1 DEF Continues, TypeOK
<1>4. \A d \in Client :
          d # c => ~(request'[d].does \in {"store", "enqueue"} /\ request'[d].sensor = s)
  BY <1>1, <1>3 DEF IInv, AboutBorn, Idle
<1>5. config'[s] = v /\ \A x \in exists : x # s /\ config'[x] = config[x]
  BY <1>1 DEF TypeOK
<1>6. \A x \in exists : Pending(x)' = Pending(x)
  BY <1>2, <1>3, <1>5 DEF Pending, Idle
<1>. QED
  BY <1>1, <1>2, <1>3, <1>4, <1>5, <1>6 DEF InHand, Pending, JobsOf, Idle

\* A second request for the sensor mixes it; a first one has read its configuration.
LEMMA InHandBeginUpdate ==
    ASSUME IInv, InHand, NEW c \in Client, BeginUpdate(c)
    PROVE  InHand'
<1>. USE JobFacts
<1>1. PICK s \in exists, v \in Setting :
          /\ Continues(c, [does |-> "store", sensor |-> s, config |-> v, read |-> config[s]])
          /\ mixed' = IF Pending(s) = {} THEN mixed ELSE mixed \cup {s}
  BY DEF BeginUpdate
<1>2. UNCHANGED <<jobs, exists, config>> /\ request[c] = Idle
  BY DEF BeginUpdate, Begins, tube, sensors
<1>3. /\ request'[c] = [does |-> "store", sensor |-> s, config |-> v, read |-> config[s]]
      /\ \A d \in Client : d # c => request'[d] = request[d]
  BY <1>1 DEF Continues, TypeOK
<1>. SUFFICES ASSUME NEW x \in exists \ mixed'
              PROVE  /\ \A d, e \in Pending(x)' : d = e
                     /\ \A d \in Pending(x)' :
                          /\ request'[d].does = "store" => request'[d].read = config[x]
                          /\ request'[d].does = "enqueue" => request'[d].config = config[x]
                     /\ Pending(x)' = {} =>
                          \E j \in JobsOf(x) : (\A i \in JobsOf(x) : i <= j)
                                               /\ jobs[j].config = config[x]
  BY <1>2 DEF InHand, JobsOf
<1>4. x \in exists \ mixed
  BY <1>1
<1>5. CASE x = s
  <2>1. Pending(s) = {}
    BY <1>1, <1>5
  <2>2. \A d \in Pending(x)' : d = c
    BY <1>3, <1>5, <2>1 DEF Pending
  <2>3. c \in Pending(x)'
    BY <1>3, <1>5 DEF Pending
  <2>. QED  BY <1>3, <1>5, <2>2, <2>3
<1>6. CASE x # s
  <2>1. Pending(x)' = Pending(x) /\ c \notin Pending(x)
    BY <1>2, <1>3, <1>6 DEF Pending, Idle
  <2>2. \A d \in Pending(x) : request'[d] = request[d]
    BY <1>3, <2>1 DEF Pending
  <2>. QED  BY <1>4, <2>1, <2>2 DEF InHand
<1>. QED  BY <1>5, <1>6

\* What is written is what the job is to describe, even when nothing has changed.
LEMMA InHandStore ==
    ASSUME IInv, InHand, NEW c \in Client, Store(c)
    PROVE  InHand'
<1>. USE JobFacts
<1>. DEFINE r == request[c]
<1>1. /\ r.does = "store"
      /\ config' = IF r.sensor \in exists /\ r.config # r.read
                      THEN [config EXCEPT ![r.sensor] = r.config] ELSE config
      /\ request' = [request EXCEPT ![c] = [does |-> "enqueue", sensor |-> r.sensor,
                                            config |-> r.config, new |-> FALSE]]
      /\ UNCHANGED <<exists, jobs, mixed>>
  BY DEF Store, tube, Continues
<1>2. /\ request'[c] = [does |-> "enqueue", sensor |-> r.sensor, config |-> r.config, new |-> FALSE]
      /\ \A d \in Client : d # c => request'[d] = request[d]
  BY <1>1 DEF TypeOK
<1>. SUFFICES ASSUME NEW x \in exists \ mixed
              PROVE  /\ \A d, e \in Pending(x)' : d = e
                     /\ \A d \in Pending(x)' :
                          /\ request'[d].does = "store" => request'[d].read = config'[x]
                          /\ request'[d].does = "enqueue" => request'[d].config = config'[x]
                     /\ Pending(x)' = {} =>
                          \E j \in JobsOf(x) : (\A i \in JobsOf(x) : i <= j)
                                               /\ jobs[j].config = config'[x]
  BY <1>1 DEF InHand, JobsOf
<1>3. Pending(x)' = Pending(x)
  BY <1>1, <1>2 DEF Pending
<1>4. CASE x = r.sensor
  <2>1. c \in Pending(x)
    BY <1>1, <1>4 DEF Pending
  <2>2. \A d \in Pending(x) : d = c
    BY <2>1 DEF InHand
  <2>3. r.read = config[x]
    BY <1>1, <2>1 DEF InHand
  <2>4. config'[x] = r.config
    BY <1>1, <1>4, <2>3 DEF TypeOK
  <2>. QED  BY <1>2, <1>3, <2>1, <2>2, <2>4
<1>5. CASE x # r.sensor
  <2>1. c \notin Pending(x) /\ config'[x] = config[x]
    BY <1>1, <1>5 DEF Pending, TypeOK
  <2>2. \A d \in Pending(x) : request'[d] = request[d]
    BY <1>2, <2>1 DEF Pending
  <2>. QED  BY <1>3, <2>1, <2>2 DEF InHand
<1>. QED  BY <1>4, <1>5

\* The newest job describes the sensor once its request has put it.
LEMMA InHandEnqueue ==
    ASSUME IInv, InHand, NEW c \in Client, Enqueue(c)
    PROVE  InHand'
<1>. DEFINE r == request[c]
            n == Len(jobs) + 1
<1>. USE JobFacts
<1>1. /\ DOMAIN jobs' = DOMAIN jobs \cup {n}
      /\ \A i \in DOMAIN jobs : jobs'[i] = jobs[i] /\ i < n
      /\ jobs'[n] = [sensor |-> r.sensor, config |-> r.config]
  <2>1. [sensor |-> r.sensor, config |-> r.config] \in Job
    BY RequestKinds DEF Enqueue, Job
  <2>. QED  BY <2>1, AppendJob DEF Enqueue, TypeOK
<1>2. /\ r.does = "enqueue"
      /\ UNCHANGED <<exists, config, mixed>>
  BY DEF Enqueue, sensors
<1>3. /\ request'[c].does \notin {"store", "enqueue"}
      /\ \A d \in Client : d # c => request'[d] = request[d]
  BY DEF Enqueue, Continues, TypeOK, Idle
<1>. SUFFICES ASSUME NEW x \in exists \ mixed
              PROVE  /\ \A d, e \in Pending(x)' : d = e
                     /\ \A d \in Pending(x)' :
                          /\ request'[d].does = "store" => request'[d].read = config[x]
                          /\ request'[d].does = "enqueue" => request'[d].config = config[x]
                     /\ Pending(x)' = {} =>
                          \E j \in JobsOf(x)' : (\A i \in JobsOf(x)' : i <= j)
                                                /\ jobs'[j].config = config[x]
  BY <1>2 DEF InHand
<1>4. CASE x = r.sensor
  <2>1. c \in Pending(x)
    BY <1>2, <1>4 DEF Pending
  <2>2. Pending(x)' = {}
    BY <1>3, <2>1 DEF Pending, InHand
  <2>3. r.config = config[x]
    BY <1>2, <2>1 DEF InHand
  <2>4. n \in JobsOf(x)' /\ \A i \in JobsOf(x)' : i <= n
    BY <1>1, <1>4 DEF JobsOf
  <2>. QED  BY <1>1, <2>2, <2>3, <2>4
<1>5. CASE x # r.sensor
  <2>1. Pending(x)' = Pending(x)
    BY <1>2, <1>3, <1>5 DEF Pending
  <2>2. \A d \in Pending(x) : request'[d] = request[d]
    BY <1>3, <1>5 DEF Pending
  <2>3. JobsOf(x)' = JobsOf(x) /\ \A j \in JobsOf(x) : jobs'[j] = jobs[j]
    BY <1>1, <1>5 DEF JobsOf
  <2>. QED  BY <2>1, <2>2, <2>3 DEF InHand
<1>. QED  BY <1>4, <1>5

\* A request that ends early, with its job not put, mixes its sensor.
LEMMA InHandEnds ==
    ASSUME IInv, InHand, NEW c \in Client,
           request[c].does \in {"store", "enqueue"} => request[c].sensor \in mixed',
           request' = [request EXCEPT ![c] = Idle],
           mixed \subseteq mixed', UNCHANGED <<exists, config, jobs>>
    PROVE  InHand'
<1>1. TypeOK
  BY DEF IInv
<1>2. /\ request'[c].does = "nothing"
      /\ \A d \in Client : d # c => request'[d] = request[d]
  BY <1>1 DEF TypeOK, Idle
<1>3. \A x \in exists \ mixed' : Pending(x)' = Pending(x) /\ c \notin Pending(x)
  BY <1>2 DEF Pending
<1>4. \A x \in exists \ mixed' : \A d \in Pending(x) : request'[d] = request[d]
  BY <1>2, <1>3 DEF Pending
<1>. QED  BY <1>3, <1>4 DEF InHand, JobsOf

LEMMA InHandNext == IInv /\ InHand /\ [Next]_vars => InHand'
<1>. SUFFICES ASSUME IInv, InHand, [Next]_vars PROVE InHand'
  OBVIOUS
<1>1. ASSUME NEW c \in Client, Requests(c) PROVE InHand'
  <2>1. CASE EnqueueFails(c)
    BY <2>1, InHandEnds DEF EnqueueFails, Continues, sensors, tube
  <2>2. CASE Schedule(c)
    BY <2>2, InHandEnds DEF Schedule, Continues, tube
  <2>3. CASE Delete(c)
    <3>1. exists' \subseteq exists /\ \A s \in exists' : config'[s] = config[s]
      BY <2>3 DEF Delete, IInv, TypeOK
    <3>. QED  BY <2>3, <3>1, InHandKept DEF Delete, tube
  <2>. QED
    BY <1>1, <2>1, <2>2, <2>3, InHandBeginCreate, InHandBeginUpdate, InHandStore,
       InHandEnqueue DEF Requests
<1>2. CASE Worker
  <2>1. UNCHANGED <<exists, config, request, jobs, mixed>>
    BY <1>2 DEF Worker, Start, Reserve, DeadlineSoon, Check, Mark, OpenArchive, Pack,
                Finish, RemoveJob, sensors, tube
  <2>. QED  BY <2>1, InHandKept
<1>3. CASE Crash \/ Expire \/ UNCHANGED vars
  BY <1>3, InHandKept DEF Crash, Expire, sensors, vars
<1>4. CASE Restart
  <2>1. /\ \A c \in Client : request'[c].does = "nothing"
        /\ UNCHANGED <<exists, config, jobs>>
        /\ mixed \subseteq mixed'
        /\ \A s \in Sensor : Pending(s) # {} => s \in mixed'
    BY <1>4 DEF Restart, sensors, Idle
  <2>2. \A s \in exists \ mixed' : Pending(s)' = {} /\ Pending(s) = {}
    BY <2>1 DEF Pending, IInv, TypeOK
  <2>. QED  BY <2>1, <2>2 DEF InHand, JobsOf
<1>. QED  BY <1>1, <1>2, <1>3, <1>4 DEF Next

(***************************************************************************)
(* When nothing is in hand for a sensor its archive is complete and holds  *)
(* the sensor's configuration (Sensors.php, lines 373-380 and 522-639;     *)
(* BeanstalkService.php, lines 26-43; worker, lines 44-123).               *)
(***************************************************************************)
THEOREM ArchivesAreCurrent == Spec => []ArchiveIsCurrent
<1>1. IInv /\ InHand => ArchiveIsCurrent
  <2>. SUFFICES ASSUME IInv, InHand, NEW s \in exists \ mixed, Pending(s) = {},
                       JobsOf(s) \cap (ready \cup reserved \cup lost) = {}
                PROVE  archive[s].complete /\ jobs[archive[s].job].config = config[s]
    BY DEF ArchiveIsCurrent
  <2>1. PICK j \in JobsOf(s) : (\A i \in JobsOf(s) : i <= j) /\ jobs[j].config = config[s]
    BY DEF InHand
  <2>2. archive[s] = [job |-> j, complete |-> TRUE]
    BY <2>1 DEF IInv, LastJobIsPacked
  <2>. QED  BY <2>1, <2>2
<1>. QED  BY <1>1, InvInit, InvNext, InHandInit, InHandNext, PTL DEF Spec

-----------------------------------------------------------------------------
(***************************************************************************)
(* No job that may still be done is older than the archive it would        *)
(* replace.                                                                *)
(***************************************************************************)
NoneOlder ==
    \A i \in Pend : jobs[i].sensor \in exists => archive[jobs[i].sensor].job <= i

LEMMA NoneOlderInit == Init => NoneOlder
BY DEF Init, NoneOlder, Pend

LEMMA NoneOlderNext ==
    ASSUME IInv, NoneOlder, [Next]_vars
    PROVE  NoneOlder'
<1>. USE JobFacts DEF NoneOlder, Pend
<1>1. ASSUME NEW c \in Client, Requests(c) PROVE NoneOlder'
  <2>1. CASE BeginCreate(c)
    <3>1. PICK s \in Sensor \ born : exists' = exists \cup {s}
      BY <2>1 DEF BeginCreate
    <3>2. UNCHANGED <<jobs, ready, reserved, archive>>
      BY <2>1 DEF BeginCreate, tube
    <3>3. \A j \in DOMAIN jobs : jobs[j].sensor # s
      BY DEF IInv, AboutBorn
    <3>. QED  BY <3>1, <3>2, <3>3 DEF TypeOK
  <2>2. CASE Enqueue(c)
    <3>1. [sensor |-> request[c].sensor, config |-> request[c].config] \in Job
      BY <2>2, RequestKinds DEF Enqueue, Job
    <3>2. /\ \A i \in DOMAIN jobs : jobs'[i] = jobs[i]
          /\ jobs'[Len(jobs) + 1].sensor = request[c].sensor
          /\ request[c].sensor \in Sensor
      <4>1. jobs \in Seq(Job) /\ request[c].sensor \in Sensor
        BY <2>2, RequestKinds DEF Enqueue, TypeOK
      <4>2. jobs' = Append(jobs, [sensor |-> request[c].sensor, config |-> request[c].config])
        BY <2>2 DEF Enqueue
      <4>. QED  BY <3>1, <4>1, <4>2, AppendJob
    <3>3. archive[request[c].sensor].job <= Len(jobs) + 1
      BY <3>2 DEF TypeOK
    <3>4. /\ ready' = ready \cup {Len(jobs) + 1}
          /\ UNCHANGED <<exists, reserved, archive>>
      BY <2>2 DEF Enqueue, sensors
    <3>. QED  BY <3>2, <3>3, <3>4 DEF TypeOK
  <2>3. CASE BeginUpdate(c) \/ Store(c) \/ EnqueueFails(c) \/ Schedule(c) \/ Delete(c)
    <3>1. exists' \subseteq exists /\ UNCHANGED <<jobs, ready, reserved, archive>>
      BY <2>3 DEF BeginUpdate, Store, EnqueueFails, Schedule, Delete, sensors, tube
    <3>. QED  BY <3>1
  <2>. QED  BY <1>1, <2>1, <2>2, <2>3 DEF Requests
<1>2. CASE OpenArchive
  <2>1. /\ archive' = [archive EXCEPT ![jobs[current].sensor] =
                          [job |-> current, complete |-> FALSE]]
        /\ worker = "open"
        /\ UNCHANGED <<exists, jobs, ready, reserved>>
    BY <1>2 DEF OpenArchive, sensors, tube
  <2>2. \A i \in Pend : jobs[i].sensor \in exists => i >= current
    BY <2>1 DEF IInv, Oldest, KeepsOnlyUseless, Busy, TypeOK
  <2>3. jobs[current].sensor \in Sensor
    BY <2>1 DEF Busy
  <2>. QED  BY <2>1, <2>2, <2>3 DEF TypeOK
<1>3. CASE Pack
  <2>1. /\ \A s \in Sensor : archive'[s].job = archive[s].job
        /\ UNCHANGED <<exists, jobs, ready, reserved>>
    BY <1>3 DEF Pack, sensors, tube, TypeOK
  <2>. QED  BY <2>1 DEF TypeOK
<1>4. CASE \/ Start \/ Reserve \/ DeadlineSoon \/ Check \/ Mark \/ Finish \/ RemoveJob
           \/ Crash \/ Expire \/ Restart \/ UNCHANGED vars
  <2>1. ready' \cup reserved' \subseteq ready \cup reserved
    BY <1>4 DEF Start, Reserve, DeadlineSoon, Check, Mark, Finish, RemoveJob, Crash,
                Expire, Restart, Disconnects, tube, vars
  <2>2. UNCHANGED <<exists, jobs, archive>>
    BY <1>4 DEF Start, Reserve, DeadlineSoon, Check, Mark, Finish, RemoveJob, Crash,
                Expire, Restart, sensors, tube, vars
  <2>. QED  BY <2>1, <2>2
<1>. QED  BY <1>1, <1>2, <1>3, <1>4 DEF Next, Worker

(***************************************************************************)
(* The archive of a sensor is never replaced by the one of an older job,   *)
(* however often jobs are done again (worker, lines 42-67, 112 and 123).   *)
(***************************************************************************)
THEOREM ArchivesNeverGoBack == Spec => NeverGoesBack
<1>1. IInv /\ NoneOlder /\ [Next]_vars =>
          [\A s \in exists : archive'[s].job >= archive[s].job]_vars
  <2>. SUFFICES ASSUME IInv, NoneOlder, Next, NEW s \in exists
                PROVE  archive'[s].job >= archive[s].job
    OBVIOUS
  <2>. USE JobFacts
  <2>0. s \in Sensor /\ archive[s].job \in Nat
    BY DEF TypeOK
  <2>1. CASE OpenArchive
    <3>1. /\ archive' = [archive EXCEPT ![jobs[current].sensor] =
                            [job |-> current, complete |-> FALSE]]
          /\ current \in Pend
      BY <2>1 DEF OpenArchive, IInv, Oldest, Busy
    <3>2. CASE s = jobs[current].sensor
      BY <2>0, <3>1, <3>2 DEF NoneOlder, TypeOK
    <3>3. CASE s # jobs[current].sensor
      BY <2>0, <3>1, <3>3 DEF TypeOK
    <3>. QED  BY <3>2, <3>3
  <2>2. CASE Pack
    BY <2>0, <2>2 DEF Pack, TypeOK
  <2>3. CASE archive' = archive
    BY <2>0, <2>3
  <2>. QED
    BY <2>1, <2>2, <2>3
    DEF Next, Requests, BeginCreate, BeginUpdate, Store, Enqueue, EnqueueFails, Schedule,
        Delete, Worker, Start, Reserve, DeadlineSoon, Check, Mark, Finish, RemoveJob,
        Crash, Expire, Restart
<1>2. IInv /\ NoneOlder /\ [Next]_vars => NoneOlder'
  BY NoneOlderNext
<1>. QED
  BY <1>1, <1>2, InvInit, InvNext, NoneOlderInit, PTL DEF Spec, NeverGoesBack

=============================================================================
