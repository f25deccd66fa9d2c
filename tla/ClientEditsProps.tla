-------------------------- MODULE ClientEditsProps --------------------------
(***************************************************************************)
(* The correctness properties of ClientSync and ClientEdits together.      *)
(***************************************************************************)
EXTENDS ClientEdits

(***************************************************************************)
(* Whatever a client does not have yet its next poll will be supplied      *)
(* with: a collection that differs from its table is one whose stamp is    *)
(* not older than lastUpdateTimestamp.  The exceptions are recorded in     *)
(* `lost': a change of another session committed after a poll has passed   *)
(* its stamp, and answers that arrive too late: a poll's while one asked   *)
(* later is under way, an edit's after a poll has passed what it is about. *)
(* A change the client makes itself is never lost that way.                *)
(***************************************************************************)
NothingMissed ==
    user = "in" => \A t \in Table \ lost : col[t] = View(t) \/ stamp[t] >= ts

\* The request for this draft is under way and its model still in the collection.
InFlight(d) ==
    \E e \in Edit : edit[e].phase \in {"asked", "confirmed"} /\ d \in Drafted(e)

(***************************************************************************)
(* What a client shows of a change it has made is confirmed, or on its     *)
(* way, or was refused, or the next poll replaces it: a change the server  *)
(* has made although its answer was lost does not stay unconfirmed.        *)
(***************************************************************************)
DraftsAreAccountedFor ==
    user = "in" =>
        \A d \in draft :
            InFlight(d) \/ d \in refused \/ d[1] \in lost \/ stamp[d[1]] >= ts

-----------------------------------------------------------------------------
(***************************************************************************)
(* Fairness.  The counter of a logged-in client goes on, the server works  *)
(* on the polls it has, an answered poll arrives and a flush ends: while   *)
(* any of this can be done something of it is.  Nothing forces a write,    *)
(* the clock, a login, an edit or its answer.                              *)
(***************************************************************************)
GoOn ==
    \/ /\ \/ \E p \in Poll : FetchUpdates(p)
          \/ ServePolls
          \/ \E w \in Writer \ Edit : Commit(w)
       /\ UNCHANGED edits
    \/ \E p \in Poll : ApplyOverDrafts(p)
    \/ \E e \in Edit : CommitEdit(e)
FairEditsSpec == EditsSpec /\ WF_allVars(GoOn)

Loses == \E p \in Poll : LosePoll(p)
CaughtUp ==
    /\ \A t \in Table \ lost : col[t] = View(t)
    /\ \A d \in draft : InFlight(d) \/ d \in refused \/ d[1] \in lost

(***************************************************************************)
(* A client that stays logged in and whose polls are answered from some    *)
(* time on catches up once the writing ends: every collection that has     *)
(* lost nothing becomes its table, and stays it.                           *)
(***************************************************************************)
CatchesUp ==
    (<>[](user = "in" /\ session = "user") /\ <>[][~ Loses]_poll) => <>[]CaughtUp

=============================================================================
