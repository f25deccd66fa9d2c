------------------------ MODULE ServiceManagerProps ------------------------
(***************************************************************************)
(* The correctness properties of ServiceManager.                           *)
(***************************************************************************)
EXTENDS ServiceManager

Manages == phase \notin {"off", "dead"}

(***************************************************************************)
(* The manager knows of every container there is, whatever docker refused  *)
(* to do: one it had forgotten would go on running although its service is *)
(* not assigned.  What it remembers is there, except for a service whose   *)
(* container was destroyed through the name of another, or for which       *)
(* destroy has failed.                                                     *)
(***************************************************************************)
TracksContainers ==
    Manages => \A s \in Service :
        /\ container[s] # None => s \in known
        /\ s \notin hit => ref[s] = container[s]

(***************************************************************************)
(* "The service instance that netfilter currently redirects packets to"    *)
(* (services.py, line 23): every rule leads to the container of the        *)
(* target.  Left behind are the rules of a target that was replaced by     *)
(* another, that ended by itself, or was destroyed through the name of     *)
(* another.                                                                *)
(***************************************************************************)
RedirectsToTarget == rules \subseteq leftover \cup {address[s] : s \in target}

\* What an answer asks for already runs and is not hit through its name.
Fine(s) == container[s] = job[s] /\ address[s] # None /\ s \notin hit'
Applies == phase \in Starting \cup {"start", "delete"} /\ bounds' = bounds
Touched(s) == container'[s] # container[s] \/ address'[s] # address[s]

(***************************************************************************)
(* Applying an answer does not touch a container that runs and has the     *)
(* revision assigned, unless destroy hits it through its name.             *)
(***************************************************************************)
KeepsRunning ==
    [][Applies => \A s \in Service : Fine(s) => ~ Touched(s)]_vars

-----------------------------------------------------------------------------
(***************************************************************************)
(* Fairness.  The manager is started when it does not run, the server      *)
(* answers its polls, docker serves its requests: the StateWorker goes on. *)
(***************************************************************************)
FairSpec == Spec /\ WF_vars(Boot) /\ WF_vars(Worker)

Follows ==
    \A s \in Service :
        /\ wanted[s] \in Revision /\ s \notin hit =>
               container[s] = wanted[s] /\ address[s] # None
        /\ wanted[s] = None => container[s] = None

(***************************************************************************)
(* As long as the StateWorker lives, the services that run become those    *)
(* that are assigned, in their revision: containers that have ended are    *)
(* started again, those docker refused to remove are removed.              *)
(***************************************************************************)
FollowsAssignment == []<>(phase = "dead") \/ <>[]Follows

=============================================================================
