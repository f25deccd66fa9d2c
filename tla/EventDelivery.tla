--------------------------- MODULE EventDelivery ---------------------------
(***************************************************************************)
(* What a sensor promises to a honeypot service whose event it has         *)
(* acknowledged, without threads, buffers or requests: events wait in the  *)
(* order of their acknowledgement, reach the server at least once and in   *)
(* that order, and are given up unsent only as the oldest of more than     *)
(* Capacity waiting ones, or when the sensor manager ends.                 *)
(***************************************************************************)
EXTENDS Naturals, Sequences

CONSTANT Capacity

VARIABLES
    accepted,   \* number of events acknowledged
    waiting,    \* events the sensor still holds, oldest first
    stored      \* events the server has

vars == <<accepted, waiting, stored>>

Events(s) == {s[i] : i \in 1..Len(s)}

Init == accepted = 0 /\ waiting = <<>> /\ stored = {}

Accept ==
    /\ accepted' = accepted + 1
    /\ waiting' = Append(waiting, accepted + 1)
    /\ UNCHANGED stored

\* A batch of acknowledged events reaches the server.  No event overtakes an
\* older one that still waits.
Deliver ==
    /\ \E batch \in SUBSET (1..accepted) :
          /\ stored' = stored \cup batch
          /\ \A e \in Events(waiting) : (\E f \in batch : e < f) => e \in stored \cup batch
    /\ UNCHANGED <<accepted, waiting>>

\* The sensor forgets its oldest events once the server has them.
Forget ==
    /\ \E n \in 1..Len(waiting) :
          /\ Events(SubSeq(waiting, 1, n)) \subseteq stored
          /\ waiting' = SubSeq(waiting, n + 1, Len(waiting))
    /\ UNCHANGED <<accepted, stored>>

\* More events wait than the sensor has room for: the oldest is overwritten.
Overwrite ==
    /\ Len(waiting) > Capacity
    /\ waiting' = Tail(waiting)
    /\ UNCHANGED <<accepted, stored>>

\* The sensor manager ends.
Lose ==
    /\ waiting' = <<>>
    /\ UNCHANGED <<accepted, stored>>

Next == Accept \/ Deliver \/ Forget \/ Overwrite \/ Lose

Spec == Init /\ [][Next]_vars

=============================================================================
