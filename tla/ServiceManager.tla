--------------------------- MODULE ServiceManager ---------------------------
(***************************************************************************)
(* The containers of a sensor's honeypot services (services.py).  With     *)
(* every poll the server names the services the sensor is to run, each     *)
(* with the revision of its image.  The StateWorker starts those one by    *)
(* one and then destroys the others.  It works with what it remembers of   *)
(* each service, while docker goes its own way: requests to docker fail,   *)
(* containers end, the manager is started again and adopts what it finds.  *)
(*                                                                         *)
(* A container is found by its name, and a name matches if it contains     *)
(* the one looked for: s1 also finds s12.  Names of three services that    *)
(* contain each other, as s1, s12 and s123, are left out.                  *)
(*                                                                         *)
(* One service may be the catch-all: a rule of the firewall redirects what *)
(* nobody else wants to the address its container was given at its start.  *)
(***************************************************************************)
EXTENDS Naturals, FiniteSets

CONSTANTS
    Service,       \* the services of the server
    SharesName,    \* for each, the services whose container's name contains its own
    CatchAll,      \* the pairs <<service, revision>> that are catch-alls
    MaxRevision,   \* revisions of a service
    MaxAddress,    \* addresses of the service network
    MaxFaults,     \* bound: failures of docker, containers that end, restarts
    MaxChanges     \* bound: changes of the assignment or the network, firmware updates

ASSUME ServiceAssumption ==
    /\ SharesName \in [Service -> SUBSET Service]
    /\ \A s \in Service : s \in SharesName[s]
    /\ \A s, c \in Service : c \in SharesName[s] \ {s} => SharesName[c] = {c}
    /\ IsFiniteSet(Service)
    /\ MaxRevision \in Nat
    /\ MaxAddress \in Nat /\ Cardinality(Service) <= MaxAddress
    /\ MaxFaults \in Nat /\ MaxChanges \in Nat

VARIABLES
    wanted,      \* the server: the revision assigned, None or Foreign
    container,   \* docker: the revision of the container named after a service, or None
    address,     \* docker: the address of a running container, or None
    images,      \* docker: the images it has
    rules,       \* the firewall: the addresses it redirects to
    target,      \* _catchall_target: no service or one
    known,       \* the keys of _services
    ref,         \* the revision of the container a service is remembered to have
    data,        \* the revision it was last asked to have
    phase,       \* what the StateWorker is doing
    job,         \* the assignment it applies
    todo,        \* the services it has not come to yet
    at,          \* the service it is starting
    faults, changes,
    hit,         \* services for whom a destroy went wrong or hit the wrong container
    leftover     \* addresses whose rule is left behind in a known way

docker == <<container, address, images>>
firewall == <<rules, target, leftover>>
memory == <<known, ref, data>>
control == <<phase, job, todo, at>>
bounds == <<faults, changes>>
vars == <<wanted, docker, firewall, memory, control, bounds, hit>>

None == 0
Revision == 1..MaxRevision
Address == 1..MaxAddress
\* The service is assigned, but has no image for the architecture of the sensor.
Foreign == MaxRevision + 1
Assignment == [Service -> Revision \cup {None, Foreign}]
Nothing == [s \in Service |-> None]

Starting == {"look", "find", "launch", "redirect"}
Phases == {"off", "dead", "idle", "clear", "start", "delete"} \cup Starting

TypeOK ==
    /\ wanted \in Assignment
    /\ container \in [Service -> Revision \cup {None}]
    /\ address \in [Service -> Address \cup {None}]
    /\ images \in SUBSET (Service \X Revision)
    /\ rules \in SUBSET Address /\ leftover \in SUBSET Address
    /\ target = {} \/ \E s \in Service : target = {s}
    /\ known \in SUBSET Service
    /\ ref \in [Service -> Revision \cup {None}]
    /\ data \in [Service -> Revision \cup {None}]
    /\ phase \in Phases
    /\ job \in Assignment
    /\ todo \in SUBSET Service
    /\ IF phase \in Starting THEN \E s \in Service : at = {s} ELSE at = {}
    /\ faults \in 0..MaxFaults /\ changes \in 0..MaxChanges
    /\ hit \in SUBSET Service

\* A new sensor: no manager runs yet, services may be assigned.
Init ==
    /\ wanted \in Assignment
    /\ container = Nothing /\ address = Nothing /\ images = {}
    /\ rules = {} /\ target = {} /\ leftover = {}
    /\ known = {} /\ ref = Nothing /\ data = Nothing
    /\ phase = "off" /\ job = Nothing /\ todo = {} /\ at = {}
    /\ faults = 0 /\ changes = 0
    /\ hit = {}

Fault == faults < MaxFaults /\ faults' = faults + 1 /\ UNCHANGED changes
Change == changes < MaxChanges /\ changes' = changes + 1 /\ UNCHANGED faults
Works == UNCHANGED bounds

-----------------------------------------------------------------------------
(* The catch-all. *)

\* Mutant of Disable: containers are stopped first and have no address any more.
DisableStopped(S) ==
    /\ rules' = rules
    /\ target' = target \ S

\* The rule of the target's address goes, if the target is among S and runs.
Disable(S) ==
    /\ rules' = rules \ {address[s] : s \in S \cap target}
    /\ target' = target \ S

-----------------------------------------------------------------------------
(* destroy *)

Matching(s) == {c \in SharesName[s] : container[c] # None}

(***************************************************************************)
(* The containers in `gone' are removed with their images; the one in      *)
(* `broken', if any, is not: docker refuses to remove it once it is        *)
(* stopped, or its image once it is removed.                               *)
(***************************************************************************)
Remove(s, gone, broken) ==
    /\ \E lost \in {{}, broken} :
         container' = [c \in Service |->
             IF c \in gone \cup lost THEN None ELSE container[c]]
    /\ address' = [c \in Service |->
           IF c \in gone \cup broken THEN None ELSE address[c]]
    /\ images' = images \ {<<c, container[c]>> : c \in gone}
    /\ Disable({s})
    /\ hit' = hit \cup (gone \ {s}) \cup broken \cup (IF broken = {} THEN {} ELSE {s})
    /\ leftover' = leftover
           \cup ({address[c] : c \in target \cap ((gone \cup broken) \ {s})} \ {None})

\* Nothing has this name: there is not even a rule to be removed.
NothingToDestroy(s) ==
    /\ Matching(s) = {}
    /\ UNCHANGED <<docker, firewall, hit>>

\* Only the reference of s is dropped, after each container that is removed.
Drop(s, gone) == ref' = IF gone = {} THEN ref ELSE [ref EXCEPT ![s] = None]

DestroyAll(s) ==
    /\ Matching(s) # {}
    /\ Remove(s, Matching(s), {})

DestroySucceeds(s) ==
    /\ Works
    /\ NothingToDestroy(s) \/ DestroyAll(s)

DestroyBreaks(s, gone) ==
    /\ Fault
    /\ \E c \in Matching(s) \ gone : Remove(s, gone, {c})
DestroyRaises(s) ==
    \E gone \in SUBSET Matching(s) : DestroyBreaks(s, gone) /\ Drop(s, gone)

-----------------------------------------------------------------------------
(* The StateWorker takes the answer of a poll. *)

Assigned == {s \in Service : job[s] # None}
Startable(a) == {s \in Service : a[s] \in Revision}

\* The network has changed: first of all what runs is stopped.
StopAll ==
    LET stopped == {s \in known : ref[s] # None /\ address[s] # None} IN
    /\ Disable(stopped)
    /\ address' = [s \in Service |-> IF s \in stopped THEN None ELSE address[s]]

\* A hook before apply_services may also remove all containers (a firmware update, another
\* service network); whatever becomes of it, the services are started afterwards.
TakeJob ==
    /\ phase = "idle"
    /\ job' = wanted
    /\ \/ Works /\ phase' = "start" /\ UNCHANGED <<address, rules, target>>
       \/ Change /\ phase' = "start" /\ StopAll
       \/ Change /\ phase' = "clear" /\ (StopAll \/ UNCHANGED <<address, rules, target>>)
    /\ todo' = IF phase' = "clear" THEN known ELSE Startable(wanted)
    /\ UNCHANGED <<wanted, container, images, leftover, memory, at, hit>>

\* docker is not usable, or a hook before apply_services raises: the thread ends.
WorkerDies ==
    /\ phase = "idle"
    /\ phase' = "dead"
    /\ Fault
    /\ UNCHANGED <<wanted, docker, firewall, memory, job, todo, at, hit>>

\* destroy_all goes on whatever happens to one of them.
Clear(s) ==
    /\ phase = "clear"
    /\ s \in todo
    /\ \/ DestroySucceeds(s) /\ Drop(s, Matching(s))
       \/ DestroyRaises(s)
    /\ todo' = todo \ {s}
    /\ UNCHANGED <<wanted, known, data, phase, job, at>>

Cleared ==
    /\ phase = "clear"
    /\ todo = {}
    /\ phase' = "start"
    /\ todo' = Startable(job)
    /\ UNCHANGED <<wanted, docker, firewall, memory, job, at, bounds, hit>>

-----------------------------------------------------------------------------
(* start *)

Goes(p) == phase' = p /\ at' = (IF p = "start" THEN {} ELSE at)
\* start raises: the service waits for the next answer.
Gives == Goes("start")

StartService(s) ==
    /\ phase = "start"
    /\ s \in todo
    /\ todo' = todo \ {s}
    /\ known' = known \cup {s}
    /\ data' = [data EXCEPT ![s] = job[s]]
    /\ phase' = IF ref[s] # None THEN "look" ELSE "find"
    /\ at' = {s}
    /\ UNCHANGED <<wanted, docker, firewall, ref, job, bounds, hit>>

\* Mutant of Outdated: any container is taken for outdated.
AlwaysOutdated(s) == TRUE

\* Whether the container remembered has another image than is asked for.
Outdated(s) == ref[s] # data[s]

\* The image of the container that is remembered, if any; docker raises if it has no
\* such image any more.  When an outdated container is destroyed, start goes on with the
\* containers it had listed before, and raises at the first of this name: it has no image.
Look(s) ==
    /\ phase = "look"
    /\ at = {s}
    /\ \/ /\ IF <<s, ref[s]>> \in images THEN ~ Outdated(s) /\ Goes("launch") ELSE Gives
          /\ Works
          /\ UNCHANGED <<docker, firewall, ref, hit>>
       \/ /\ <<s, ref[s]>> \in images /\ Outdated(s)
          /\ \/ /\ DestroySucceeds(s)
                /\ ref' = [ref EXCEPT ![s] = None]
                /\ Goes(IF Matching(s) = {} THEN "find" ELSE "start")
             \/ DestroyRaises(s) /\ Gives
    /\ UNCHANGED <<wanted, known, data, job, todo>>

\* The image is pulled if possible, and a container made of it.
Create(s) ==
    /\ Matching(s) = {}
    /\ container' = [container EXCEPT ![s] = data[s]]
    /\ images' = images \cup {<<s, data[s]>>}
    /\ ref' = [ref EXCEPT ![s] = data[s]]
    /\ hit' = hit \ {s}
    /\ Works
    /\ Goes("launch")
    /\ UNCHANGED <<address, firewall>>

CreateRaises(s) ==
    /\ Matching(s) = {}
    /\ Fault
    /\ Gives
    /\ UNCHANGED <<docker, firewall, ref, hit>>

\* The container is there already.
Adopt(s) ==
    /\ Matching(s) = {s} /\ container[s] = data[s]
    /\ ref' = [ref EXCEPT ![s] = data[s]]
    /\ Works
    /\ Goes("launch")
    /\ UNCHANGED <<docker, firewall, hit>>

(***************************************************************************)
(* A container of this name has another image: they are all destroyed.  If *)
(* there were several, the loop goes on over containers that are gone: it  *)
(* raises, or ends with one of them as the container of the service.       *)
(***************************************************************************)
DestroyIncompatible(s) ==
    /\ Matching(s) # {}
    /\ Matching(s) # {s} \/ container[s] # data[s]
    /\ \/ /\ DestroyAll(s)
          /\ Works
          /\ \/ /\ ref' = [ref EXCEPT ![s] = None]
                /\ Goes(IF Cardinality(Matching(s)) = 1 THEN "find" ELSE "start")
             \/ /\ Cardinality(Matching(s)) > 1 /\ container[s] = data[s]
                /\ ref' = [ref EXCEPT ![s] = data[s]]
                /\ Goes("launch")
       \/ DestroyRaises(s) /\ Gives

\* There is no container remembered: look for one of the name, or make one.
Find(s) ==
    /\ phase = "find"
    /\ at = {s}
    /\ Create(s) \/ CreateRaises(s) \/ Adopt(s) \/ DestroyIncompatible(s)
    /\ UNCHANGED <<wanted, known, data, job, todo>>

Started(s) == Goes(IF <<s, data[s]>> \in CatchAll THEN "redirect" ELSE "start")

\* The container is started if it does not run, and is given an address.
Launch(s) ==
    /\ phase = "launch"
    /\ at = {s}
    /\ \/ container[s] = None /\ Works /\ Gives /\ UNCHANGED address
       \/ container[s] # None /\ address[s] # None /\ Works /\ Started(s) /\ UNCHANGED address
       \/ /\ container[s] # None /\ address[s] = None
          /\ \/ /\ \E a \in Address \ {address[c] : c \in Service} :
                     address' = [address EXCEPT ![s] = a]
                /\ Works
                /\ Started(s)
             \/ Fault /\ Gives /\ UNCHANGED address
    /\ UNCHANGED <<wanted, container, images, firewall, memory, job, todo, hit>>

\* Mutant of EnableCatchAll: the target before it is not forgotten.
EnableAnother(s) ==
    /\ rules' = rules \cup ({address[s]} \ {None})
    /\ target' = target \cup {s}
    /\ leftover' = leftover \cup (rules \ {address[s]})

\* A rule of this address is appended, whatever rules there are.
EnableCatchAll(s) ==
    /\ rules' = rules \cup ({address[s]} \ {None})
    /\ target' = {s}
    /\ leftover' = leftover \cup (rules \ {address[s]})

Redirect(s) ==
    /\ phase = "redirect"
    /\ at = {s}
    /\ EnableCatchAll(s)
    /\ Goes("start")
    /\ UNCHANGED <<wanted, docker, memory, job, todo, bounds, hit>>

-----------------------------------------------------------------------------
(* What is not assigned any more is destroyed. *)

\* Mutant of AllStarted: containers that were adopted and never assigned are kept.
AllStartedKeeps ==
    /\ phase = "start"
    /\ todo = {}
    /\ phase' = "delete"
    /\ todo' = {s \in known \ Assigned : data[s] # None}
    /\ UNCHANGED <<wanted, docker, firewall, memory, job, at, bounds, hit>>

AllStarted ==
    /\ phase = "start"
    /\ todo = {}
    /\ phase' = "delete"
    /\ todo' = known \ Assigned
    /\ UNCHANGED <<wanted, docker, firewall, memory, job, at, bounds, hit>>

Pop(s) ==
    /\ known' = known \ {s}
    /\ ref' = [ref EXCEPT ![s] = None]
    /\ data' = [data EXCEPT ![s] = None]

\* Mutant of Delete: the service is forgotten although its container was not removed.
DeleteAnyway(s) ==
    /\ phase = "delete"
    /\ s \in todo
    /\ todo' = todo \ {s}
    /\ DestroySucceeds(s) \/ \E gone \in SUBSET Matching(s) : DestroyBreaks(s, gone)
    /\ Pop(s)
    /\ UNCHANGED <<wanted, phase, job, at>>

Delete(s) ==
    /\ phase = "delete"
    /\ s \in todo
    /\ todo' = todo \ {s}
    /\ \/ DestroySucceeds(s) /\ Pop(s)
       \/ DestroyRaises(s) /\ UNCHANGED <<known, data>>
    /\ UNCHANGED <<wanted, phase, job, at>>

AllDeleted ==
    /\ phase = "delete"
    /\ todo = {}
    /\ phase' = "idle"
    /\ UNCHANGED <<wanted, docker, firewall, memory, job, todo, at, bounds, hit>>

-----------------------------------------------------------------------------
(* The surroundings. *)

\* An administrator assigns services, other revisions of them, or takes them away.
Assign ==
    /\ Change
    /\ wanted' \in Assignment \ {wanted}
    /\ UNCHANGED <<docker, firewall, memory, control, hit>>

\* A container ends by itself.
Die(s) ==
    /\ address[s] # None
    /\ Fault
    /\ address' = [address EXCEPT ![s] = None]
    /\ leftover' = leftover \cup {address[c] : c \in target \cap {s}}
    /\ UNCHANGED <<wanted, container, images, rules, target, memory, control, hit>>

\* The manager ends, alone or with the whole sensor.  Containers it leaves as they are.
Crash ==
    /\ phase # "off"
    /\ Fault
    /\ address' \in {address, Nothing}
    /\ target' = {}
    /\ known' = {} /\ ref' = Nothing /\ data' = Nothing
    /\ phase' = "off" /\ job' = Nothing /\ todo' = {} /\ at' = {}
    /\ leftover' = leftover \cup rules
    /\ UNCHANGED <<wanted, container, images, rules, hit>>

\* The manager starts: its chains of the firewall are emptied, containers are adopted
\* under the name they have.
Boot ==
    /\ phase = "off"
    /\ phase' = "idle"
    /\ rules' = {} /\ leftover' = {}
    /\ known' = {s \in Service : container[s] # None}
    /\ ref' = container
    /\ hit' = {}
    /\ UNCHANGED <<wanted, docker, target, data, job, todo, at, bounds>>

-----------------------------------------------------------------------------
Work(s) ==
    \/ Clear(s) \/ StartService(s) \/ Look(s) \/ Find(s) \/ Launch(s) \/ Redirect(s)
    \/ Delete(s)

Worker ==
    \/ TakeJob \/ WorkerDies \/ Cleared \/ AllStarted \/ AllDeleted
    \/ \E s \in Service : Work(s)

Next ==
    \/ Worker
    \/ \E s \in Service : Die(s)
    \/ Assign
    \/ Crash
    \/ Boot

Spec == Init /\ [][Next]_vars

=============================================================================
