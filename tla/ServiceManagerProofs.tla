------------------------ MODULE ServiceManagerProofs ------------------------
(***************************************************************************)
(* Proofs of the safety properties of ServiceManager, for any services,    *)
(* names, revisions, addresses and numbers of faults and changes.          *)
(*                                                                         *)
(* That the manager tracks the containers rests on what it knows of the    *)
(* service it is starting (AtHand): it is among the known ones, it has a   *)
(* revision, and while a container is looked for none is remembered.       *)
(***************************************************************************)
EXTENDS ServiceManagerProps, TLAPS

USE ServiceAssumption

\* The service being started.
AtHand ==
    phase \in Starting => \A s \in at :
        /\ s \in known
        /\ data[s] \in Revision
        /\ phase = "find" => ref[s] = None

\* What is to be started has a revision.
ToStart == phase \in Starting \cup {"start"} => todo \subseteq Startable(job)

IInv == TypeOK /\ TracksContainers /\ RedirectsToTarget /\ AtHand /\ ToStart

-----------------------------------------------------------------------------
(* The bounds, and how start goes on. *)

LEMMA BoundsStep ==
    ASSUME TypeOK, Fault \/ Change \/ Works
    PROVE  faults' \in 0..MaxFaults /\ changes' \in 0..MaxChanges
BY DEF TypeOK, Fault, Change, Works, bounds

\* A step that starts no other service.
LEMMA GoesStep ==
    ASSUME TypeOK, phase \in Starting, NEW p \in {"find", "launch", "redirect", "start"},
           Goes(p)
    PROVE  /\ phase' \in Phases
           /\ IF phase' \in Starting THEN \E s \in Service : at' = {s} ELSE at' = {}
           /\ phase' \in Starting => at' = at
           /\ phase' = p
BY DEF TypeOK, Goes, Starting, Phases

-----------------------------------------------------------------------------
(* Removing containers. *)

\* Docker and the firewall, as TypeOK has them.
Outside ==
    /\ container \in [Service -> Revision \cup {None}]
    /\ address \in [Service -> Address \cup {None}]
    /\ images \in SUBSET (Service \X Revision)
    /\ rules \in SUBSET Address /\ leftover \in SUBSET Address
    /\ target = {} \/ \E t \in Service : target = {t}
    /\ hit \in SUBSET Service

\* Containers only go, and those of other services than s are recorded as hit.
Effect(s) ==
    /\ \A c \in Service : container'[c] \in {None, container[c]}
    /\ \A c \in Service \ {s} : container'[c] = container[c] \/ c \in hit'
    /\ hit \subseteq hit'

LEMMA RemoveType ==
    ASSUME TypeOK, NEW s \in Service, NEW gone \in SUBSET Service,
           NEW broken \in SUBSET Service, Remove(s, gone, broken)
    PROVE  Outside'
<1>1. container' \in [Service -> Revision \cup {None}]
  <2>1. PICK lost \in {{}, broken} :
            container' = [c \in Service |->
                IF c \in gone \cup lost THEN None ELSE container[c]]
    BY DEF Remove
  <2> QED BY <2>1 DEF TypeOK
<1>2. address' \in [Service -> Address \cup {None}]
  BY DEF Remove, TypeOK
<1>3. images' \in SUBSET (Service \X Revision)
  BY DEF Remove, TypeOK
<1>4. rules' \in SUBSET Address /\ (target' = {} \/ \E t \in Service : target' = {t})
  BY DEF Remove, Disable, TypeOK
<1>5. leftover' \in SUBSET Address
  <2>1. {address[c] : c \in target \cap ((gone \cup broken) \ {s})} \ {None}
            \subseteq Address
    BY DEF TypeOK
  <2> QED BY <2>1 DEF Remove, TypeOK
<1>6. hit' \in SUBSET Service
  BY DEF Remove, TypeOK
<1> QED BY <1>1, <1>2, <1>3, <1>4, <1>5, <1>6 DEF Outside

LEMMA RemoveEffect ==
    ASSUME TypeOK, NEW s \in Service, NEW gone \in SUBSET Service,
           NEW broken \in SUBSET Service, Remove(s, gone, broken)
    PROVE  /\ Effect(s)
           /\ \A c \in gone : container'[c] = None
           /\ broken # {} => s \in hit'
<1>1. PICK lost \in {{}, broken} :
          container' = [c \in Service |->
              IF c \in gone \cup lost THEN None ELSE container[c]]
  BY DEF Remove
<1>2. hit' = hit \cup (gone \ {s}) \cup broken \cup (IF broken = {} THEN {} ELSE {s})
  BY DEF Remove
<1> QED BY <1>1, <1>2 DEF Effect

LEMMA RemoveRedirects ==
    ASSUME TypeOK, RedirectsToTarget, NEW s \in Service, NEW gone \in SUBSET Service,
           NEW broken \in SUBSET Service, Remove(s, gone, broken)
    PROVE  RedirectsToTarget'
<1> DEFINE others == {address[c] : c \in target \cap ((gone \cup broken) \ {s})} \ {None}
<1>1. leftover' = leftover \cup others /\ rules' \subseteq rules
  BY DEF Remove, Disable
<1>2. CASE target = {}
  BY <1>1, <1>2 DEF RedirectsToTarget, Remove, Disable
<1>3. CASE target = {s}
  <2>1. rules' \subseteq leftover
    BY <1>3 DEF RedirectsToTarget, Remove, Disable
  <2> QED BY <1>1, <2>1 DEF RedirectsToTarget
<1>4. ASSUME NEW t \in Service, target = {t}, t # s
      PROVE  RedirectsToTarget'
  <2>1. target' = {t} /\ rules \subseteq leftover \cup {address[t]}
    BY <1>4 DEF RedirectsToTarget, Remove, Disable
  <2>2. CASE t \in gone \cup broken
    <3>1. address[t] # None => address[t] \in others
      BY <1>4, <2>2
    <3>2. None \notin rules
      BY DEF TypeOK, Address, None
    <3> QED BY <1>1, <2>1, <3>1, <3>2 DEF RedirectsToTarget
  <2>3. CASE t \notin gone \cup broken
    <3>1. address'[t] = address[t]
      BY <2>3 DEF Remove
    <3> QED BY <1>1, <2>1, <3>1 DEF RedirectsToTarget
  <2> QED BY <2>2, <2>3
<1> QED BY <1>2, <1>3, <1>4 DEF TypeOK

LEMMA MatchingFacts ==
    ASSUME NEW s \in Service
    PROVE  /\ Matching(s) \subseteq Service
           /\ Matching(s) = {} => container[s] = None
           /\ container[s] # None => s \in Matching(s)
BY DEF Matching

LEMMA DestroyAllStep ==
    ASSUME TypeOK, RedirectsToTarget, NEW s \in Service, DestroyAll(s)
    PROVE  Outside' /\ Effect(s) /\ container'[s] = None /\ RedirectsToTarget'
<1>1. Matching(s) \in SUBSET Service /\ {} \in SUBSET Service
  BY MatchingFacts
<1>2. Remove(s, Matching(s), {})
  BY DEF DestroyAll
<1>3. Outside' /\ RedirectsToTarget'
  BY <1>1, <1>2, RemoveType, RemoveRedirects
<1>4. Effect(s) /\ \A c \in Matching(s) : container'[c] = None
  BY <1>1, <1>2, RemoveEffect
<1>5. container'[s] = None
  <2>1. CASE container[s] = None
    BY <1>4, <2>1 DEF Effect
  <2>2. CASE container[s] # None
    BY <1>4, <2>2, MatchingFacts
  <2> QED BY <2>1, <2>2
<1> QED BY <1>3, <1>4, <1>5

LEMMA DestroySucceedsStep ==
    ASSUME TypeOK, RedirectsToTarget, NEW s \in Service, DestroySucceeds(s)
    PROVE  Outside' /\ Effect(s) /\ container'[s] = None /\ RedirectsToTarget'
<1>1. CASE DestroyAll(s)
  BY <1>1, DestroyAllStep
<1>2. CASE NothingToDestroy(s)
  BY <1>2, MatchingFacts
  DEF NothingToDestroy, docker, firewall, TypeOK, Outside, Effect, RedirectsToTarget
<1> QED BY <1>1, <1>2 DEF DestroySucceeds

LEMMA DestroyRaisesStep ==
    ASSUME TypeOK, RedirectsToTarget, NEW s \in Service, DestroyRaises(s)
    PROVE  /\ Outside' /\ Effect(s) /\ s \in hit' /\ RedirectsToTarget'
           /\ ref' \in [Service -> Revision \cup {None}]
           /\ \A c \in Service \ {s} : ref'[c] = ref[c]
           /\ Fault
<1>1. PICK gone \in SUBSET Matching(s) : DestroyBreaks(s, gone) /\ Drop(s, gone)
  BY DEF DestroyRaises
<1>2. PICK c \in Matching(s) \ gone : Remove(s, gone, {c})
  BY <1>1 DEF DestroyBreaks
<1>3. gone \in SUBSET Service /\ {c} \in SUBSET Service
  BY <1>1, <1>2, MatchingFacts
<1>4. Outside' /\ RedirectsToTarget'
  BY <1>2, <1>3, RemoveType, RemoveRedirects
<1>5. Effect(s) /\ s \in hit'
  BY <1>2, <1>3, RemoveEffect
<1>6. /\ ref' \in [Service -> Revision \cup {None}]
      /\ \A d \in Service \ {s} : ref'[d] = ref[d]
  BY <1>1 DEF Drop, TypeOK
<1>7. Fault
  BY <1>1 DEF DestroyBreaks
<1> QED BY <1>4, <1>5, <1>6, <1>7

\* What a step with this effect must do with the memory of its service.
LEMMA TracksStep ==
    ASSUME TracksContainers, Manages, NEW s \in Service, Effect(s),
           known \ {s} \subseteq known',
           \A c \in Service \ {s} : ref'[c] = ref[c],
           container'[s] # None => s \in known',
           s \notin hit' => ref'[s] = container'[s]
    PROVE  TracksContainers'
<1> SUFFICES ASSUME NEW c \in Service
             PROVE  /\ container'[c] # None => c \in known'
                    /\ c \notin hit' => ref'[c] = container'[c]
  BY DEF TracksContainers
<1>1. CASE c = s
  BY <1>1
<1>2. CASE c # s
  BY <1>2 DEF TracksContainers, Effect
<1> QED BY <1>1, <1>2

-----------------------------------------------------------------------------
(* The actions. *)

LEMMA InitIInv == Init => IInv
BY DEF Init, IInv, TypeOK, TracksContainers, RedirectsToTarget, AtHand, ToStart, Manages,
       Assignment, Nothing, Phases, Starting, None, Revision, Foreign

LEMMA TakeJobStep == IInv /\ TakeJob => IInv'
<1> SUFFICES ASSUME IInv, TakeJob
             PROVE  IInv'
  OBVIOUS
<1> USE DEF IInv
<1>1. TracksContainers' /\ AtHand' /\ ToStart'
  BY DEF TakeJob, TracksContainers, Manages, AtHand, ToStart, Starting, Startable, memory
<1>2. faults' \in 0..MaxFaults /\ changes' \in 0..MaxChanges
  BY BoundsStep DEF TakeJob
<1>3. CASE StopAll
  <2> DEFINE stopped == {s \in known : ref[s] # None /\ address[s] # None}
  <2>1. /\ rules' = rules \ {address[s] : s \in stopped \cap target}
        /\ target' = target \ stopped
        /\ address' = [s \in Service |-> IF s \in stopped THEN None ELSE address[s]]
    BY <1>3 DEF StopAll, Disable
  <2> HIDE DEF stopped
  <2>2. RedirectsToTarget'
    <3>1. CASE target = {}
      BY <2>1, <3>1 DEF RedirectsToTarget, TakeJob
    <3>2. ASSUME NEW t \in Service, target = {t}
          PROVE  RedirectsToTarget'
      <4>1. leftover' = leftover
        BY DEF TakeJob
      <4>2. CASE t \in stopped
        BY <2>1, <3>2, <4>1, <4>2 DEF RedirectsToTarget
      <4>3. CASE t \notin stopped
        BY <2>1, <3>2, <4>1, <4>3 DEF RedirectsToTarget
      <4> QED BY <4>2, <4>3
    <3> QED BY <3>1, <3>2 DEF TypeOK
  <2>3. TypeOK'
    <3>1. address' \in [Service -> Address \cup {None}] /\ rules' \in SUBSET Address
          /\ (target' = {} \/ \E s \in Service : target' = {s})
      BY <2>1 DEF TypeOK
    <3> QED BY <1>2, <3>1 DEF TypeOK, TakeJob, Startable, memory, Phases, Starting
  <2> QED BY <1>1, <2>2, <2>3
<1>4. CASE UNCHANGED <<address, rules, target>>
  <2>1. RedirectsToTarget'
    BY <1>4 DEF RedirectsToTarget, TakeJob
  <2>2. TypeOK'
    BY <1>2, <1>4 DEF TypeOK, TakeJob, Startable, memory, Phases, Starting
  <2> QED BY <1>1, <2>1, <2>2
<1> QED BY <1>3, <1>4 DEF TakeJob

LEMMA WorkerDiesStep == IInv /\ WorkerDies => IInv'
<1> SUFFICES ASSUME IInv, WorkerDies
             PROVE  IInv'
  OBVIOUS
<1>1. faults' \in 0..MaxFaults /\ changes' \in 0..MaxChanges
  BY BoundsStep DEF IInv, WorkerDies
<1> QED BY <1>1 DEF IInv, WorkerDies, TypeOK, TracksContainers, RedirectsToTarget, AtHand,
        ToStart, Manages, docker, firewall, memory, Phases, Starting

LEMMA ClearStep == ASSUME NEW s \in Service, IInv, Clear(s) PROVE IInv'
<1>1. TypeOK /\ RedirectsToTarget /\ TracksContainers /\ Manages
  BY DEF IInv, Clear, Manages
<1>2. faults' \in 0..MaxFaults /\ changes' \in 0..MaxChanges
  BY <1>1, BoundsStep, DestroyRaisesStep DEF Clear, DestroySucceeds
<1>3. CASE DestroySucceeds(s) /\ Drop(s, Matching(s))
  <2>1. Outside' /\ Effect(s) /\ container'[s] = None /\ RedirectsToTarget'
    BY <1>1, <1>3, DestroySucceedsStep
  <2>2. /\ ref' \in [Service -> Revision \cup {None}]
        /\ \A c \in Service \ {s} : ref'[c] = ref[c]
        /\ s \notin hit' => ref'[s] = None
    <3>1. CASE Matching(s) = {}
      <4>1. container[s] = None
        BY <3>1, MatchingFacts
      <4>2. hit \subseteq hit' /\ ref' = ref
        BY <1>3, <2>1, <3>1 DEF Effect, Drop
      <4> QED BY <1>1, <4>1, <4>2 DEF TracksContainers, TypeOK
    <3>2. CASE Matching(s) # {}
      BY <1>1, <1>3, <3>2 DEF Drop, TypeOK
    <3> QED BY <3>1, <3>2
  <2>3. known' = known
    BY DEF Clear
  <2>4. TracksContainers'
    BY <1>1, <2>1, <2>2, <2>3, TracksStep
  <2> QED BY <1>1, <1>2, <2>1, <2>2, <2>3, <2>4
      DEF IInv, TypeOK, Outside, Clear, AtHand, ToStart, Starting
<1>4. CASE DestroyRaises(s)
  <2>1. /\ Outside' /\ Effect(s) /\ s \in hit' /\ RedirectsToTarget'
        /\ ref' \in [Service -> Revision \cup {None}]
        /\ \A c \in Service \ {s} : ref'[c] = ref[c]
    BY <1>1, <1>4, DestroyRaisesStep
  <2>2. known' = known /\ (container'[s] # None => s \in known')
    BY <1>1, <2>1 DEF Clear, Effect, TracksContainers
  <2>3. TracksContainers'
    BY <1>1, <2>1, <2>2, TracksStep
  <2> QED BY <1>1, <1>2, <2>1, <2>2, <2>3
      DEF IInv, TypeOK, Outside, Clear, AtHand, ToStart, Starting
<1> QED BY <1>3, <1>4 DEF Clear

\* Steps that only concern what the StateWorker does next.
LEMMA TurnStep == IInv /\ (Cleared \/ AllStarted \/ AllDeleted) => IInv'
<1> SUFFICES ASSUME IInv, Cleared \/ AllStarted \/ AllDeleted
             PROVE  IInv'
  OBVIOUS
<1>1. UNCHANGED <<wanted, docker, firewall, memory, job, at, bounds, hit>>
  BY DEF Cleared, AllStarted, AllDeleted
<1>2. phase' \in {"start", "delete", "idle"} /\ todo' \in SUBSET Service /\ at = {}
  BY DEF Cleared, AllStarted, AllDeleted, IInv, TypeOK, Startable, Starting
<1>3. ToStart'
  BY <1>1 DEF Cleared, AllStarted, AllDeleted, ToStart, Startable, Starting
<1>4. Manages
  BY DEF Cleared, AllStarted, AllDeleted, Manages
<1> QED BY <1>1, <1>2, <1>3, <1>4 DEF IInv, TypeOK, TracksContainers, RedirectsToTarget,
        AtHand, docker, firewall, memory, bounds, Phases, Starting

LEMMA StartServiceStep == ASSUME NEW s \in Service, IInv, StartService(s) PROVE IInv'
<1>1. job[s] \in Revision
  BY DEF IInv, ToStart, StartService, Startable
<1>2. data' \in [Service -> Revision \cup {None}] /\ data'[s] = job[s]
  BY <1>1 DEF IInv, TypeOK, StartService
<1>3. TypeOK'
  BY <1>2 DEF IInv, TypeOK, StartService, docker, firewall, bounds, Phases, Starting
<1>4. AtHand' /\ ToStart'
  BY <1>1, <1>2 DEF IInv, AtHand, ToStart, StartService, Starting, Startable
<1>5. TracksContainers' /\ RedirectsToTarget'
  BY DEF IInv, TracksContainers, RedirectsToTarget, Manages, StartService, docker,
         firewall, Starting
<1> QED BY <1>3, <1>4, <1>5 DEF IInv

\* A step of start on the service at hand that may remove containers.
LEMMA AtHandStep ==
    ASSUME NEW s \in Service, IInv, phase \in Starting, at = {s},
           NEW p \in {"find", "launch", "redirect", "start"}, Goes(p),
           UNCHANGED <<wanted, known, data, job, todo>>,
           Fault \/ Works, Outside', Effect(s), RedirectsToTarget',
           ref' \in [Service -> Revision \cup {None}],
           \A c \in Service \ {s} : ref'[c] = ref[c],
           s \notin hit' => ref'[s] = container'[s],
           p = "find" => ref'[s] = None
    PROVE  IInv'
<1>1. TypeOK /\ TracksContainers /\ Manages /\ s \in known
  BY DEF IInv, Manages, AtHand, Starting
<1>2. /\ phase' \in Phases /\ phase' = p
      /\ IF phase' \in Starting THEN \E t \in Service : at' = {t} ELSE at' = {}
      /\ phase' \in Starting => at' = at
  BY <1>1, GoesStep
<1>3. TypeOK'
  BY <1>1, <1>2, BoundsStep DEF TypeOK, Outside
<1>4. TracksContainers'
  BY <1>1, TracksStep
<1>5. AtHand'
  BY <1>2 DEF IInv, AtHand
<1>6. ToStart'
  BY <1>2 DEF IInv, ToStart, Startable
<1> QED BY <1>3, <1>4, <1>5, <1>6 DEF IInv

LEMMA LookStep == ASSUME NEW s \in Service, IInv, Look(s) PROVE IInv'
<1>1. TypeOK /\ RedirectsToTarget /\ TracksContainers /\ Manages
  BY DEF IInv, Look, Manages
<1>2. phase \in Starting /\ at = {s} /\ UNCHANGED <<wanted, known, data, job, todo>>
  BY DEF Look, Starting
<1>3. ASSUME Goes("launch") \/ Goes("start"), Works, UNCHANGED <<docker, firewall, ref, hit>>
      PROVE  IInv'
  <2>1. PICK p \in {"launch", "start"} : Goes(p)
    BY <1>3
  <2>2. Outside' /\ Effect(s) /\ RedirectsToTarget'
    BY <1>1, <1>3 DEF TypeOK, Outside, Effect, RedirectsToTarget, docker, firewall
  <2>3. s \notin hit' => ref'[s] = container'[s]
    BY <1>1, <1>3 DEF TracksContainers, docker
  <2>4. /\ ref' \in [Service -> Revision \cup {None}]
        /\ \A c \in Service \ {s} : ref'[c] = ref[c]
    BY <1>1, <1>3 DEF TypeOK
  <2> QED BY <1>2, <1>3, <2>1, <2>2, <2>3, <2>4, AtHandStep
<1>4. ASSUME DestroySucceeds(s), ref' = [ref EXCEPT ![s] = None],
             Goes("find") \/ Goes("start")
      PROVE  IInv'
  <2>1. Outside' /\ Effect(s) /\ container'[s] = None /\ RedirectsToTarget' /\ Works
    BY <1>1, <1>4, DestroySucceedsStep DEF DestroySucceeds
  <2>2. /\ ref' \in [Service -> Revision \cup {None}]
        /\ \A c \in Service \ {s} : ref'[c] = ref[c]
        /\ ref'[s] = None
    BY <1>1, <1>4 DEF TypeOK
  <2> QED BY <1>2, <1>4, <2>1, <2>2, AtHandStep
<1>5. CASE DestroyRaises(s) /\ Goes("start")
  BY <1>1, <1>2, <1>5, DestroyRaisesStep, AtHandStep
<1> QED BY <1>3, <1>4, <1>5 DEF Look, Gives

LEMMA CreateStep ==
    ASSUME NEW s \in Service, IInv, Create(s), phase = "find", at = {s},
           UNCHANGED <<wanted, known, data, job, todo>>
    PROVE  IInv'
<1>1. TypeOK /\ TracksContainers /\ phase \in Starting
  BY DEF IInv, Starting
<1>2. data[s] \in Revision /\ s \in known
  BY <1>1 DEF IInv, AtHand
<1>3. TypeOK'
  <2>1. container' \in [Service -> Revision \cup {None}]
        /\ ref' \in [Service -> Revision \cup {None}]
        /\ images' \in SUBSET (Service \X Revision)
        /\ hit' \in SUBSET Service
    BY <1>1, <1>2 DEF Create, TypeOK
  <2>2. faults' \in 0..MaxFaults /\ changes' \in 0..MaxChanges
    BY <1>1, BoundsStep DEF Create
  <2>3. phase' \in Phases /\ at' = at /\ phase' \in Starting
    BY DEF Create, Goes, Phases, Starting
  <2> QED BY <1>1, <2>1, <2>2, <2>3 DEF TypeOK, Create, firewall
<1>4. TracksContainers'
  <2> SUFFICES ASSUME NEW c \in Service
               PROVE  /\ container'[c] # None => c \in known'
                      /\ c \notin hit' => ref'[c] = container'[c]
    BY DEF TracksContainers
  <2>1. Manages
    BY DEF Manages
  <2>2. CASE c = s
    BY <1>1, <1>2, <2>2 DEF Create, TypeOK
  <2>3. CASE c # s
    BY <1>1, <2>1, <2>3 DEF Create, TypeOK, TracksContainers
  <2> QED BY <2>2, <2>3
<1> QED BY <1>1, <1>2, <1>3, <1>4
    DEF IInv, Create, Goes, RedirectsToTarget, firewall, AtHand, ToStart, Starting, Startable

LEMMA DestroyIncompatibleStep ==
    ASSUME NEW s \in Service, IInv, DestroyIncompatible(s), phase = "find", at = {s},
           UNCHANGED <<wanted, known, data, job, todo>>
    PROVE  IInv'
<1>1. TypeOK /\ RedirectsToTarget /\ TracksContainers /\ Manages /\ phase \in Starting
  BY DEF IInv, Manages, Starting
<1>2. data[s] \in Revision /\ ref[s] = None
  BY <1>1 DEF IInv, AtHand
<1>3. CASE DestroyAll(s) /\ Works
  <2>1. Outside' /\ Effect(s) /\ container'[s] = None /\ RedirectsToTarget'
    BY <1>1, <1>3, DestroyAllStep
  <2>2. CASE ref' = [ref EXCEPT ![s] = None] /\ (Goes("find") \/ Goes("start"))
    <3>1. PICK p \in {"find", "start"} : Goes(p)
      BY <2>2
    <3>2. /\ ref' \in [Service -> Revision \cup {None}]
          /\ \A c \in Service \ {s} : ref'[c] = ref[c]
          /\ ref'[s] = None
      BY <1>1, <2>2 DEF TypeOK
    <3> QED BY <1>1, <1>3, <2>1, <3>1, <3>2, AtHandStep
  \* It ends with a container that is gone: that was not remembered, so s is hit.
  <2>3. CASE container[s] = data[s] /\ ref' = [ref EXCEPT ![s] = data[s]] /\ Goes("launch")
    <3>1. s \in hit'
      BY <1>1, <1>2, <2>1, <2>3 DEF TracksContainers, Effect, Revision, None
    <3>2. /\ ref' \in [Service -> Revision \cup {None}]
          /\ \A c \in Service \ {s} : ref'[c] = ref[c]
      BY <1>1, <1>2, <2>3 DEF TypeOK
    <3> QED BY <1>1, <1>3, <2>1, <2>3, <3>1, <3>2, AtHandStep
  <2>4. \/ ref' = [ref EXCEPT ![s] = None] /\ (Goes("find") \/ Goes("start"))
        \/ container[s] = data[s] /\ ref' = [ref EXCEPT ![s] = data[s]] /\ Goes("launch")
        \/ DestroyRaises(s) /\ Goes("start")
    BY DEF DestroyIncompatible, Gives
  <2>5. ~ DestroyRaises(s)
    <3>1. faults \in Nat
      BY <1>1 DEF TypeOK
    <3> QED BY <1>1, <1>3, <3>1, DestroyRaisesStep DEF Fault, Works, bounds
  <2> QED BY <2>2, <2>3, <2>4, <2>5
<1>4. CASE DestroyRaises(s) /\ Goes("start")
  BY <1>1, <1>4, DestroyRaisesStep, AtHandStep
<1> QED BY <1>3, <1>4 DEF DestroyIncompatible, Gives

LEMMA FindStep == ASSUME NEW s \in Service, IInv, Find(s) PROVE IInv'
<1>1. TypeOK /\ RedirectsToTarget /\ TracksContainers /\ Manages /\ phase \in Starting
  BY DEF IInv, Manages, Find, Starting
<1>2. phase = "find" /\ at = {s} /\ UNCHANGED <<wanted, known, data, job, todo>>
  BY DEF Find
<1>3. CASE Create(s)
  BY <1>2, <1>3, CreateStep
<1>4. CASE CreateRaises(s)
  <2>1. /\ Goes("start") /\ Fault
        /\ UNCHANGED <<docker, firewall, ref, hit>>
    BY <1>4 DEF CreateRaises, Gives
  <2>2. Outside' /\ Effect(s) /\ RedirectsToTarget'
    BY <1>1, <2>1 DEF TypeOK, Outside, Effect, RedirectsToTarget, docker, firewall
  <2>3. /\ s \notin hit' => ref'[s] = container'[s]
        /\ ref' \in [Service -> Revision \cup {None}]
        /\ \A c \in Service \ {s} : ref'[c] = ref[c]
    BY <1>1, <2>1 DEF TracksContainers, TypeOK, docker
  <2> QED BY <1>1, <1>2, <2>1, <2>2, <2>3, AtHandStep
<1>5. CASE Adopt(s)
  <2>1. /\ Goes("launch") /\ Works
        /\ UNCHANGED <<docker, firewall, hit>>
        /\ container[s] = data[s]
        /\ ref' = [ref EXCEPT ![s] = data[s]]
    BY <1>5 DEF Adopt
  <2>2. Outside' /\ Effect(s) /\ RedirectsToTarget'
    BY <1>1, <2>1 DEF TypeOK, Outside, Effect, RedirectsToTarget, docker, firewall
  <2>3. data[s] \in Revision
    BY <1>1, <1>2 DEF IInv, AtHand
  <2>4. /\ s \notin hit' => ref'[s] = container'[s]
        /\ ref' \in [Service -> Revision \cup {None}]
        /\ \A c \in Service \ {s} : ref'[c] = ref[c]
    BY <1>1, <2>1, <2>3 DEF TypeOK, docker
  <2> QED BY <1>1, <1>2, <2>1, <2>2, <2>4, AtHandStep
<1>6. CASE DestroyIncompatible(s)
  BY <1>2, <1>6, DestroyIncompatibleStep
<1> QED BY <1>3, <1>4, <1>5, <1>6 DEF Find

LEMMA LaunchStep == ASSUME NEW s \in Service, IInv, Launch(s) PROVE IInv'
<1>1. TypeOK /\ RedirectsToTarget /\ TracksContainers /\ Manages /\ phase \in Starting
  BY DEF IInv, Manages, Launch, Starting
<1>2. /\ at = {s} /\ UNCHANGED <<wanted, known, data, job, todo>>
      /\ UNCHANGED <<container, images, firewall, ref, hit>>
  BY DEF Launch, memory
<1>3. PICK p \in {"redirect", "start"} : Goes(p)
  BY DEF Launch, Gives, Started
<1>4. \/ address' = address
      \/ address[s] = None /\ \E a \in Address : address' = [address EXCEPT ![s] = a]
  BY DEF Launch
<1>5. Outside' /\ Effect(s)
  BY <1>1, <1>2, <1>4 DEF TypeOK, Outside, Effect, firewall
<1>6. RedirectsToTarget'
  <2>1. CASE address' = address
    BY <1>1, <1>2, <2>1 DEF RedirectsToTarget, firewall
  <2>2. ASSUME address[s] = None, NEW a \in Address, address' = [address EXCEPT ![s] = a]
        PROVE  RedirectsToTarget'
    <3>1. None \notin rules
      BY <1>1 DEF TypeOK, Address, None
    <3>2. \A r \in rules : r \in leftover \/ \E t \in target : t # s /\ r = address[t]
      BY <1>1, <2>2, <3>1 DEF RedirectsToTarget
    <3>3. \A t \in target : t # s => address'[t] = address[t]
      BY <1>1, <2>2 DEF TypeOK
    <3> QED BY <1>2, <3>2, <3>3 DEF RedirectsToTarget, firewall
  <2> QED BY <1>4, <2>1, <2>2
<1>7. /\ s \notin hit' => ref'[s] = container'[s]
      /\ ref' \in [Service -> Revision \cup {None}]
      /\ \A c \in Service \ {s} : ref'[c] = ref[c]
  BY <1>1, <1>2 DEF TracksContainers, TypeOK
<1>8. Fault \/ Works
  BY DEF Launch
<1> QED BY <1>1, <1>2, <1>3, <1>5, <1>6, <1>7, <1>8, AtHandStep

LEMMA RedirectStep == ASSUME NEW s \in Service, IInv, Redirect(s) PROVE IInv'
<1>1. TypeOK /\ RedirectsToTarget /\ TracksContainers /\ Manages /\ phase \in Starting
  BY DEF IInv, Manages, Redirect, Starting
<1>2. /\ at = {s} /\ UNCHANGED <<wanted, docker, known, ref, data, job, todo, hit>>
      /\ Goes("start") /\ Works
  BY DEF Redirect, memory, Works
<1>3. /\ rules' = rules \cup ({address[s]} \ {None})
      /\ target' = {s}
      /\ leftover' = leftover \cup (rules \ {address[s]})
  BY DEF Redirect, EnableCatchAll
<1>4. RedirectsToTarget'
  BY <1>2, <1>3 DEF RedirectsToTarget, docker
<1>5. Outside' /\ Effect(s)
  BY <1>1, <1>2, <1>3 DEF TypeOK, Outside, Effect, docker
<1>6. /\ s \notin hit' => ref'[s] = container'[s]
      /\ ref' \in [Service -> Revision \cup {None}]
      /\ \A c \in Service \ {s} : ref'[c] = ref[c]
  BY <1>1, <1>2 DEF TracksContainers, TypeOK, docker
<1> QED BY <1>1, <1>2, <1>4, <1>5, <1>6, AtHandStep

LEMMA DeleteStep == ASSUME NEW s \in Service, IInv, Delete(s) PROVE IInv'
<1>1. TypeOK /\ RedirectsToTarget /\ TracksContainers /\ Manages
  BY DEF IInv, Delete, Manages
<1>2. phase' = "delete" /\ phase = "delete" /\ at' = at /\ UNCHANGED <<wanted, job>>
      /\ todo' \subseteq todo
  BY DEF Delete
<1>3. CASE DestroySucceeds(s) /\ Pop(s)
  <2>1. Outside' /\ Effect(s) /\ container'[s] = None /\ RedirectsToTarget' /\ Works
    BY <1>1, <1>3, DestroySucceedsStep DEF DestroySucceeds
  <2>2. /\ ref' \in [Service -> Revision \cup {None}]
        /\ data' \in [Service -> Revision \cup {None}]
        /\ \A c \in Service \ {s} : ref'[c] = ref[c]
        /\ ref'[s] = None
        /\ known' = known \ {s}
    BY <1>1, <1>3 DEF Pop, TypeOK
  <2>3. TracksContainers'
    BY <1>1, <2>1, <2>2, TracksStep
  <2>4. TypeOK'
    BY <1>1, <1>2, <2>1, <2>2, BoundsStep DEF TypeOK, Outside, Starting
  <2> QED BY <1>2, <2>1, <2>3, <2>4 DEF IInv, AtHand, ToStart, Starting
<1>4. CASE DestroyRaises(s) /\ UNCHANGED <<known, data>>
  <2>1. /\ Outside' /\ Effect(s) /\ s \in hit' /\ RedirectsToTarget' /\ Fault
        /\ ref' \in [Service -> Revision \cup {None}]
        /\ \A c \in Service \ {s} : ref'[c] = ref[c]
    BY <1>1, <1>4, DestroyRaisesStep
  <2>2. container'[s] # None => s \in known'
    BY <1>1, <1>4, <2>1 DEF TracksContainers, Effect
  <2>3. TracksContainers'
    BY <1>1, <1>4, <2>1, <2>2, TracksStep
  <2>4. TypeOK'
    BY <1>1, <1>2, <1>4, <2>1, BoundsStep DEF TypeOK, Outside, Starting
  <2> QED BY <1>2, <2>1, <2>3, <2>4 DEF IInv, AtHand, ToStart, Starting
<1> QED BY <1>3, <1>4 DEF Delete

LEMMA DieStep == ASSUME NEW s \in Service, IInv, Die(s) PROVE IInv'
<1>1. faults' \in 0..MaxFaults /\ changes' \in 0..MaxChanges
  BY BoundsStep DEF IInv, Die
<1>2. RedirectsToTarget'
  <2>1. target' = target /\ rules' = rules
        /\ leftover' = leftover \cup {address[c] : c \in target \cap {s}}
        /\ address' = [address EXCEPT ![s] = None]
    BY DEF Die
  <2>2. \A t \in target : t # s => address'[t] = address[t]
    BY <2>1 DEF IInv, TypeOK
  <2> QED BY <2>1, <2>2 DEF IInv, RedirectsToTarget
<1>3. TypeOK'
  <2>1. leftover' \in SUBSET Address /\ address' \in [Service -> Address \cup {None}]
    BY DEF Die, IInv, TypeOK
  <2> QED BY <1>1, <2>1 DEF Die, IInv, TypeOK, memory, control
<1> QED BY <1>2, <1>3
    DEF IInv, Die, TracksContainers, Manages, AtHand, ToStart, memory, control

LEMMA AssignStep == IInv /\ Assign => IInv'
<1> SUFFICES ASSUME IInv, Assign
             PROVE  IInv'
  OBVIOUS
<1>1. faults' \in 0..MaxFaults /\ changes' \in 0..MaxChanges
  BY BoundsStep DEF IInv, Assign
<1> QED BY <1>1 DEF IInv, Assign, TypeOK, TracksContainers, RedirectsToTarget, Manages,
        AtHand, ToStart, docker, firewall, memory, control

LEMMA CrashStep == IInv /\ Crash => IInv'
<1> SUFFICES ASSUME IInv, Crash
             PROVE  IInv'
  OBVIOUS
<1>1. faults' \in 0..MaxFaults /\ changes' \in 0..MaxChanges
  BY BoundsStep DEF IInv, Crash
<1>2. TypeOK'
  BY <1>1 DEF IInv, Crash, TypeOK, Nothing, Assignment, Phases, Starting
<1> QED BY <1>2 DEF IInv, Crash, TracksContainers, RedirectsToTarget, Manages, AtHand,
        ToStart, Starting

LEMMA BootStep == IInv /\ Boot => IInv'
<1> SUFFICES ASSUME IInv, Boot
             PROVE  IInv'
  OBVIOUS
<1> QED BY DEF IInv, Boot, TypeOK, TracksContainers, RedirectsToTarget, Manages, AtHand,
           ToStart, Starting, Phases, docker, bounds

LEMMA StutterStep == IInv /\ UNCHANGED vars => IInv'
BY DEF IInv, vars, TypeOK, TracksContainers, RedirectsToTarget, Manages, AtHand, ToStart,
       docker, firewall, memory, control, bounds

LEMMA NextIInv == IInv /\ [Next]_vars => IInv'
<1> SUFFICES ASSUME IInv, [Next]_vars
             PROVE  IInv'
  OBVIOUS
<1>1. ASSUME NEW s \in Service, Work(s)
      PROVE  IInv'
  BY <1>1, ClearStep, StartServiceStep, LookStep, FindStep, LaunchStep, RedirectStep,
     DeleteStep DEF Work
<1>2. CASE Worker
  BY <1>1, <1>2, TakeJobStep, WorkerDiesStep, TurnStep DEF Worker
<1>3. CASE \E s \in Service : Die(s)
  BY <1>3, DieStep
<1>4. CASE Assign \/ Crash \/ Boot
  BY <1>4, AssignStep, CrashStep, BootStep
<1>5. CASE UNCHANGED vars
  BY <1>5, StutterStep
<1> QED BY <1>2, <1>3, <1>4, <1>5 DEF Next

-----------------------------------------------------------------------------
(* The theorems. *)

LEMMA SpecIInv == Spec => []IInv
BY InitIInv, NextIInv, PTL DEF Spec

(***************************************************************************)
(* Every variable keeps its type: the firewall never has two targets, and  *)
(* the StateWorker is at a service exactly while it starts one.            *)
(***************************************************************************)
THEOREM TypeCorrect == Spec => []TypeOK
<1>1. IInv => TypeOK
  BY DEF IInv
<1> QED BY <1>1, SpecIInv, PTL

(***************************************************************************)
(* The manager (start, destroy, apply_services) knows of every container   *)
(* there is, and what it remembers of a service that was not hit is there. *)
(***************************************************************************)
THEOREM TracksContainersHolds == Spec => []TracksContainers
<1>1. IInv => TracksContainers
  BY DEF IInv
<1> QED BY <1>1, SpecIInv, PTL

(***************************************************************************)
(* Every rule of the firewall that the manager (enable_catch_all, disable, *)
(* destroy) has not left behind leads to the container of the target.      *)
(***************************************************************************)
THEOREM RedirectsToTargetHolds == Spec => []RedirectsToTarget
<1>1. IInv => RedirectsToTarget
  BY DEF IInv
<1> QED BY <1>1, SpecIInv, PTL

-----------------------------------------------------------------------------
(* That applying an answer leaves alone what runs already. *)

\* A service is started with the revision of the answer, what is destroyed in the end is
\* not assigned, and only containers have addresses.
AsAnswered == phase \in Starting => \A s \in at : data[s] = job[s]
ToDelete == phase = "delete" => todo \cap Assigned = {}
Addressed == \A s \in Service : address[s] # None => container[s] # None
RInv == IInv /\ AsAnswered /\ ToDelete /\ Addressed

\* What Remove does to services other than s is recorded in hit.
LEMMA RemoveAddressed ==
    ASSUME TypeOK, Addressed, NEW s \in Service, NEW gone \in SUBSET Service,
           NEW broken \in SUBSET Service, Remove(s, gone, broken)
    PROVE  /\ Addressed'
           /\ \A c \in Service \ {s} : Touched(c) => c \in hit'
           /\ hit \subseteq hit'
<1>1. PICK lost \in {{}, broken} :
          container' = [c \in Service |->
              IF c \in gone \cup lost THEN None ELSE container[c]]
  BY DEF Remove
<1>2. /\ address' = [c \in Service |->
             IF c \in gone \cup broken THEN None ELSE address[c]]
      /\ hit' = hit \cup (gone \ {s}) \cup broken \cup (IF broken = {} THEN {} ELSE {s})
  BY DEF Remove
<1> QED BY <1>1, <1>2 DEF Addressed, Touched

LEMMA DestroyAddressed ==
    ASSUME TypeOK, Addressed, NEW s \in Service,
           DestroyAll(s) \/ DestroySucceeds(s) \/ DestroyRaises(s)
    PROVE  /\ Addressed'
           /\ \A c \in Service \ {s} : Touched(c) => c \in hit'
           /\ hit \subseteq hit'
<1>1. CASE DestroyAll(s)
  <2>1. Matching(s) \in SUBSET Service /\ {} \in SUBSET Service
    BY MatchingFacts
  <2> QED BY <1>1, <2>1, RemoveAddressed DEF DestroyAll
<1>2. CASE NothingToDestroy(s)
  BY <1>2 DEF NothingToDestroy, docker, Addressed, Touched
<1>3. CASE DestroyRaises(s)
  <2>1. PICK gone \in SUBSET Matching(s) : DestroyBreaks(s, gone)
    BY <1>3 DEF DestroyRaises
  <2>2. PICK c \in Matching(s) \ gone : Remove(s, gone, {c})
    BY <2>1 DEF DestroyBreaks
  <2>3. gone \in SUBSET Service /\ {c} \in SUBSET Service
    BY <2>1, <2>2, MatchingFacts
  <2> QED BY <2>2, <2>3, RemoveAddressed
<1> QED BY <1>1, <1>2, <1>3 DEF DestroySucceeds

LEMMA NextAddressed == IInv /\ Addressed /\ [Next]_vars => Addressed'
<1> SUFFICES ASSUME IInv, Addressed, [Next]_vars
             PROVE  Addressed'
  OBVIOUS
<1>1. TypeOK
  BY DEF IInv
<1>2. ASSUME NEW s \in Service, Work(s)
      PROVE  Addressed'
  <2>1. CASE DestroyAll(s) \/ DestroySucceeds(s) \/ DestroyRaises(s)
    BY <1>1, <2>1, DestroyAddressed
  <2>2. CASE UNCHANGED docker
    BY <2>2 DEF Addressed, docker
  <2>3. CASE Create(s)
    <3>1. container[s] = None /\ address' = address
          /\ container' = [container EXCEPT ![s] = data[s]]
      BY <2>3, MatchingFacts DEF Create
    <3> QED BY <1>1, <3>1 DEF Addressed, TypeOK
  <2>4. CASE Launch(s)
    BY <1>1, <2>4 DEF Launch, Addressed, TypeOK
  <2> QED BY <1>2, <2>1, <2>2, <2>3, <2>4
          DEF Work, Clear, StartService, Look, Find, CreateRaises, Adopt,
              DestroyIncompatible, Redirect, Delete
<1>3. CASE TakeJob
  BY <1>1, <1>3 DEF TakeJob, StopAll, Addressed, TypeOK
<1>4. CASE WorkerDies \/ Cleared \/ AllStarted \/ AllDeleted \/ Assign \/ Boot
           \/ UNCHANGED vars
  BY <1>4 DEF WorkerDies, Cleared, AllStarted, AllDeleted, Assign, Boot, vars, docker,
         Addressed
<1>5. CASE \E s \in Service : Die(s)
  BY <1>1, <1>5 DEF Die, Addressed, TypeOK
<1>6. CASE Crash
  BY <1>6 DEF Crash, Addressed, Nothing
<1> QED BY <1>2, <1>3, <1>4, <1>5, <1>6 DEF Next, Worker

LEMMA NextAsAnswered ==
    IInv /\ AsAnswered /\ ToDelete /\ [Next]_vars => AsAnswered' /\ ToDelete'
<1> SUFFICES ASSUME IInv, AsAnswered, ToDelete, [Next]_vars
             PROVE  AsAnswered' /\ ToDelete'
  OBVIOUS
<1> USE DEF AsAnswered, ToDelete, Assigned, Starting
<1>1. ASSUME NEW s \in Service, Work(s)
      PROVE  AsAnswered' /\ ToDelete'
  <2>1. CASE Clear(s) \/ Delete(s)
    BY <2>1 DEF Clear, Delete
  <2>2. CASE StartService(s)
    <3>1. data'[s] = job[s]
      BY <2>2 DEF StartService, IInv, TypeOK
    <3> QED BY <2>2, <3>1 DEF StartService
  <2>3. CASE Look(s)
    BY <2>3 DEF Look, Goes, Gives
  <2>4. CASE Find(s)
    BY <2>4 DEF Find, Create, CreateRaises, Adopt, DestroyIncompatible, Goes, Gives
  <2>5. CASE Launch(s)
    BY <2>5 DEF Launch, Started, Goes, Gives, memory
  <2>6. CASE Redirect(s)
    BY <2>6 DEF Redirect, Goes, memory
  <2> QED BY <1>1, <2>1, <2>2, <2>3, <2>4, <2>5, <2>6 DEF Work
<1>2. CASE TakeJob \/ WorkerDies \/ Cleared \/ AllStarted \/ AllDeleted
  BY <1>2 DEF TakeJob, WorkerDies, Cleared, AllStarted, AllDeleted
<1>3. CASE \/ \E s \in Service : Die(s)
           \/ Assign \/ Crash \/ Boot \/ UNCHANGED vars
  BY <1>3 DEF Die, Assign, Crash, Boot, vars, control, memory
<1> QED BY <1>1, <1>2, <1>3 DEF Next, Worker

LEMMA SpecRInv == Spec => []RInv
<1>1. Init => RInv
  BY InitIInv DEF Init, RInv, AsAnswered, ToDelete, Addressed, Starting, Nothing
<1>2. RInv /\ [Next]_vars => RInv'
  BY NextIInv, NextAddressed, NextAsAnswered DEF RInv
<1> QED BY <1>1, <1>2, PTL DEF Spec

\* Destroying s leaves a service alone that is fine, provided s itself is not.
LEMMA DestroyLeaves ==
    ASSUME RInv, NEW s \in Service, NEW c \in Service, Fine(c), ~ Fine(s),
           DestroyAll(s) \/ DestroySucceeds(s) \/ DestroyRaises(s)
    PROVE  ~ Touched(c)
<1>1. \A d \in Service \ {s} : Touched(d) => d \in hit'
  BY DestroyAddressed DEF RInv, IInv
<1> QED BY <1>1 DEF Fine

\* A service that is fine is remembered, so long as nothing unhits it.
LEMMA FineIsRemembered ==
    ASSUME RInv, Manages, NEW s \in Service, Fine(s), hit \subseteq hit'
    PROVE  ref[s] = container[s] /\ container[s] = job[s] /\ job[s] # None
BY DEF RInv, IInv, TracksContainers, Fine, Addressed

LEMMA LeavesRunning ==
    ASSUME RInv, Next, Applies, NEW c \in Service, Fine(c)
    PROVE  ~ Touched(c)
<1>1. TypeOK /\ Manages /\ phase \in Starting \cup {"start", "delete"}
  BY DEF RInv, IInv, Applies, Manages, Starting
<1>2. CASE UNCHANGED docker
  BY <1>2 DEF docker, Touched
<1>3. bounds' = bounds
  BY DEF Applies
<1>4. ASSUME NEW s \in Service, Fine(s), phase \in {"look", "find"}, at = {s},
             hit \subseteq hit'
      PROVE  phase = "look" /\ ~ Outdated(s)
  <2>1. ref[s] = job[s] /\ job[s] # None
    BY <1>1, <1>4, FineIsRemembered
  <2> QED BY <1>4, <2>1 DEF RInv, IInv, AtHand, AsAnswered, Outdated, Starting
<1>5. ASSUME NEW s \in Service, Look(s)
      PROVE  ~ Touched(c)
  <2>1. CASE UNCHANGED docker
    BY <1>2, <2>1
  <2>2. CASE Outdated(s) /\ (DestroySucceeds(s) \/ DestroyRaises(s))
    <3>1. hit \subseteq hit'
      BY <2>2, DestroyAddressed DEF RInv, IInv
    <3>2. ~ Fine(s)
      BY <1>4, <1>5, <2>2, <3>1 DEF Look
    <3> QED BY <2>2, <3>2, DestroyLeaves
  <2> QED BY <1>5, <2>1, <2>2 DEF Look
<1>6. ASSUME NEW s \in Service, Find(s)
      PROVE  ~ Touched(c)
  <2>1. CASE UNCHANGED docker
    BY <1>2, <2>1
  <2>2. CASE Create(s)
    <3>1. container[s] = None /\ address' = address
          /\ container' = [container EXCEPT ![s] = data[s]]
      BY <2>2, MatchingFacts DEF Create
    <3>2. c # s
      BY <3>1 DEF Fine, RInv, Addressed
    <3> QED BY <1>1, <3>1, <3>2 DEF Touched, TypeOK
  <2>3. CASE DestroyAll(s) \/ DestroyRaises(s)
    <3>1. hit \subseteq hit'
      BY <2>3, DestroyAddressed DEF RInv, IInv
    <3>2. ~ Fine(s)
      BY <1>4, <1>6, <3>1 DEF Find
    <3> QED BY <2>3, <3>2, DestroyLeaves
  <2> QED BY <1>6, <2>1, <2>2, <2>3 DEF Find, CreateRaises, Adopt, DestroyIncompatible
<1>7. ASSUME NEW s \in Service, Launch(s)
      PROVE  ~ Touched(c)
  BY <1>1, <1>7 DEF Launch, Fine, Touched, TypeOK
<1>8. ASSUME NEW s \in Service, Delete(s)
      PROVE  ~ Touched(c)
  <2>1. DestroySucceeds(s) \/ DestroyRaises(s)
    BY <1>8 DEF Delete
  <2>2. hit \subseteq hit'
    BY <2>1, DestroyAddressed DEF RInv, IInv
  <2>3. ~ Fine(s)
    <3>1. job[s] = None
      BY <1>8 DEF Delete, RInv, ToDelete, Assigned
    <3> QED BY <1>1, <2>2, <3>1, FineIsRemembered
  <2> QED BY <2>1, <2>3, DestroyLeaves
<1>9. ASSUME NEW s \in Service, Work(s)
      PROVE  ~ Touched(c)
  BY <1>1, <1>2, <1>5, <1>6, <1>7, <1>8, <1>9
  DEF Work, Clear, StartService, Redirect, Starting
<1>10. CASE Cleared \/ AllStarted \/ AllDeleted
  BY <1>2, <1>10 DEF Cleared, AllStarted, AllDeleted
<1>11. CASE TakeJob \/ WorkerDies \/ Boot
  BY <1>1, <1>11 DEF TakeJob, WorkerDies, Boot, Starting
<1>12. ~ Change /\ ~ Fault
  BY <1>1, <1>3 DEF Change, Fault, bounds, TypeOK
<1> QED BY <1>9, <1>10, <1>11, <1>12 DEF Next, Worker, Die, Assign, Crash

(***************************************************************************)
(* Applying an answer (apply_services, start) does not touch a container   *)
(* that runs and has the revision assigned.                                *)
(***************************************************************************)
THEOREM KeepsRunningHolds == Spec => KeepsRunning
<1>1. RInv /\ [Next]_vars =>
          [Applies => \A s \in Service : Fine(s) => ~ Touched(s)]_vars
  BY LeavesRunning
<1> QED BY <1>1, SpecRInv, PTL DEF Spec, KeepsRunning

=============================================================================
