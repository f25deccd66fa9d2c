---------------------------- MODULE ClientEdits -----------------------------
(***************************************************************************)
(* What a logged-in client changes itself, on top of ClientSync: a model   *)
(* is saved, created, destroyed, or its collection fetched again, each     *)
(* with one request.  Saving and creating change the collection at once,   *)
(* before the server has agreed, and nothing takes the change back when it *)
(* does not.  The server's answer goes into the collection whenever it     *)
(* arrives, unless a poll has removed the model from it meanwhile.         *)
(*                                                                         *)
(* A change the server has not confirmed is a draft: it hides what the     *)
(* server has supplied until the server supplies that table again.         *)
(***************************************************************************)
EXTENDS ClientSync

CONSTANTS
    Edit,       \* of the writers, the requests of the client itself
    MaxEdits    \* bound: changes the client makes itself

ASSUME EditsAssumption == Edit \subseteq Writer /\ MaxEdits \in Nat

VARIABLES
    edit,      \* the client's requests for a change
    changes,   \* changes begun
    draft,     \* rows of which the client shows what it has sent
    refused    \* drafts the server is known not to have taken over

drafts == <<draft, refused>>
edits == <<edit, changes, drafts>>
allVars == <<vars, edits>>

\* A model that has no identifier yet.
NewRow == "new row"
Place == Table \X (Row \cup {NewRow})

NoEdit == [phase |-> "none"]
Kind == {"save", "wait", "create", "destroy", "fetch"}
AnEdit ==
    {NoEdit}
    \cup [phase : {"asked"}, kind : Kind, table : Table, row : Row \cup {NewRow},
          attached : BOOLEAN]
    \cup [phase : {"confirmed"}, kind : Kind \ {"fetch"}, table : Table, row : Row,
          content : Content, attached : BOOLEAN]
    \cup [phase : {"fetched"}, table : Table, data : [Row -> Content]]

EditsTypeOK ==
    /\ TypeOK
    /\ edit \in [Edit -> AnEdit]
    /\ changes \in 0..MaxEdits
    /\ draft \in SUBSET Place
    /\ refused \in SUBSET draft

EditsInit ==
    /\ Init
    /\ edit = [e \in Edit |-> NoEdit]
    /\ changes = 0
    /\ draft = {}
    /\ refused = {}

-----------------------------------------------------------------------------
(* The client asks. *)

\* The change is shown before it is sent, or with wait only once it is confirmed.
DraftsAtOnce(k) == k \in {"save", "create"}

Ask(e, k, t, r) ==
    /\ user = "in"
    /\ edit[e] = NoEdit
    /\ changes < MaxEdits
    /\ IF k \in {"create", "fetch"} THEN r = NewRow
       ELSE r # NewRow /\ (col[t][r] # New \/ <<t, r>> \in draft)
    /\ edit' = [edit EXCEPT ![e] =
           [phase |-> "asked", kind |-> k, table |-> t, row |-> r, attached |-> TRUE]]
    /\ draft' = IF DraftsAtOnce(k) THEN draft \cup {<<t, r>>} ELSE draft
    /\ refused' = IF DraftsAtOnce(k) THEN refused \ {<<t, r>>} ELSE refused
    /\ UNCHANGED <<vars, changes>>

-----------------------------------------------------------------------------
(* The server.  The lock of the session keeps its scripts apart. *)

OwnIdle == \A e \in Edit : ~ writer[e].active
SessionFree == OwnIdle /\ \A p \in Poll : ~ Running(p)

\* The script writes the row; a new one gets its identifier.
BeginEdit(e) ==
    /\ edit[e].phase = "asked"
    /\ edit[e].kind # "fetch"
    /\ session = "user"
    /\ SessionFree
    /\ changes < MaxEdits
    /\ \E r \in Row :
         /\ RowFree(edit[e].table, r)
         /\ IF edit[e].kind = "create" THEN db[edit[e].table][r] = New
            ELSE r = edit[e].row /\ Shown(db[edit[e].table][r]) # New
         /\ writer' = [writer EXCEPT ![e] =
                [active |-> TRUE, table |-> edit[e].table, row |-> r,
                 content |-> IF edit[e].kind = "destroy" THEN Deleted
                             ELSE MaxWrites + 2 + changes,
                 at |-> now]]
    /\ changes' = changes + 1
    /\ UNCHANGED <<now, server, writes, session, client, poll, lost, edit, drafts>>

\* What has been written is confirmed to the client with the answer.
Confirmed(e) ==
    edit' = [edit EXCEPT ![e] =
        [phase |-> "confirmed", kind |-> edit[e].kind, table |-> edit[e].table,
         row |-> writer[e].row, content |-> Shown(writer[e].content),
         attached |-> edit[e].attached]]

\* Mutant of CommitEdit: the listener does not stamp the table.
CommitUnstamped(e) ==
    /\ writer[e].active
    /\ StampsFirst(writer[e])
    /\ db' = [db EXCEPT ![writer[e].table][writer[e].row] = writer[e].content]
    /\ stamp' = stamp
    /\ writer' = [writer EXCEPT ![e] = NoFlush]
    /\ Confirmed(e)
    /\ UNCHANGED <<now, writes, session, client, poll, lost, changes, drafts>>

CommitEdit(e) ==
    /\ writer[e].active
    /\ StampsFirst(writer[e])
    /\ Commits(writer[e])
    /\ writer' = [writer EXCEPT ![e] = NoFlush]
    /\ Confirmed(e)
    /\ UNCHANGED <<now, writes, session, client, poll, lost, changes, drafts>>

\* The answer to a fetch of the whole collection.
ReadCollection(e) ==
    /\ edit[e].phase = "asked"
    /\ edit[e].kind = "fetch"
    /\ session = "user"
    /\ SessionFree
    /\ edit' = [edit EXCEPT ![e] =
           [phase |-> "fetched", table |-> edit[e].table, data |-> View(edit[e].table)]]
    /\ UNCHANGED <<vars, changes, drafts>>

-----------------------------------------------------------------------------
(* The client and the answers. *)

\* The row a request is about, and the draft its model shows meanwhile, if any.
Target(e) ==
    <<edit[e].table, IF edit[e].kind = "create" THEN NewRow ELSE edit[e].row>>
Drafted(e) ==
    IF edit[e].attached /\ DraftsAtOnce(edit[e].kind) THEN {Target(e)} ELSE {}

\* The request is lost or refused, or its flush is rolled back: the draft stays.
Refuse(e) ==
    /\ edit[e].phase = "asked"
    /\ edit' = [edit EXCEPT ![e] = NoEdit]
    /\ writer' = [writer EXCEPT ![e] = NoFlush]
    /\ refused' = refused \cup (draft \cap Drafted(e))
    /\ UNCHANGED <<now, server, writes, session, client, poll, lost, changes, draft>>

\* The answer is lost.
LoseAnswer(e) ==
    /\ edit[e].phase \in {"confirmed", "fetched"}
    /\ edit' = [edit EXCEPT ![e] = NoEdit]
    /\ UNCHANGED <<vars, changes, drafts>>

\* What is put into the collection is outdated and no poll will supply it again.
Outdated(t, c) == c # View(t) /\ PassedBy(t, stamp[t])

\* Some views ask for the state once they are answered.
FetchesAfter ==
    \/ UNCHANGED poll
    \/ \E p \in Poll :
         /\ poll[p] = NoPoll
         /\ poll' = [poll EXCEPT ![p] =
                [phase |-> "asked", full |-> FALSE, since |-> ts]]

Replace(t, c) ==
    /\ col' = [col EXCEPT ![t] = c]
    /\ lost' = IF Outdated(t, c) THEN lost \cup {t} ELSE lost

\* The answer replaces the attributes of the model, or removes it.
Confirm(e) ==
    LET t == edit[e].table IN
    /\ edit[e].phase = "confirmed"
    /\ edit' = [edit EXCEPT ![e] = NoEdit]
    /\ IF edit[e].attached
       THEN /\ Replace(t, [col[t] EXCEPT ![edit[e].row] = edit[e].content])
            /\ draft' = draft \ {Target(e)}
            /\ refused' = refused \ {Target(e)}
       ELSE UNCHANGED <<col, lost, drafts>>
    /\ FetchesAfter
    /\ UNCHANGED <<now, server, writer, writes, session, user, ts, changes>>

\* The requests about models that are in the collections of these tables.
Models(tables) ==
    {e \in Edit : /\ edit[e].phase \in {"asked", "confirmed"}
                  /\ edit[e].kind # "fetch"
                  /\ edit[e].table \in tables}

\* Mutant of Resupply: it is not forgotten which drafts were refused.
ResupplyKeepsRefused(tables, gone, rest) ==
    /\ draft' = {d \in draft : d[1] \notin tables}
    /\ refused' = refused
    /\ edit' = [e \in Edit |->
           IF e \in gone THEN [rest[e] EXCEPT !.attached = FALSE] ELSE rest[e]]
    /\ UNCHANGED changes

\* The collections of some tables are given other rows: drafts go, and so do the
\* models of some requests.
Resupply(tables, gone, rest) ==
    /\ draft' = {d \in draft : d[1] \notin tables}
    /\ refused' = {d \in refused : d[1] \notin tables}
    /\ edit' = [e \in Edit |->
           IF e \in gone THEN [rest[e] EXCEPT !.attached = FALSE] ELSE rest[e]]
    /\ UNCHANGED changes

\* The collection is reset to the rows that were read.
FetchDone(e) ==
    /\ edit[e].phase = "fetched"
    /\ Replace(edit[e].table, edit[e].data)
    /\ Resupply({edit[e].table}, Models({edit[e].table}), [edit EXCEPT ![e] = NoEdit])
    /\ UNCHANGED <<now, server, writer, writes, session, user, ts, poll>>

-----------------------------------------------------------------------------
(* The steps of ClientSync among them. *)

\* The full state resets the collections.  The rows of another poll are merged: models
\* stay if they are among the rows.
Gone(p) ==
    {e \in Models(poll[p].tables) :
        \/ poll[p].full
        \/ edit[e].kind = "create"
        \/ poll[p].data[edit[e].table][edit[e].row] = New}

ApplyOverDrafts(p) == Apply(p) /\ Resupply(poll[p].tables, Gone(p), edit)

LogoutWithDrafts == Logout /\ Resupply(Table, Models(Table), edit)

WriteOfOthers ==
    \E w \in Writer \ Edit :
        Commit(w) \/ \E t \in Table, r \in Row : BeginFlush(w, t, r)

\* No other script of the session runs when one begins.
ServePolls ==
    \E p \in Poll : (BeginPoll(p) /\ OwnIdle) \/ ListTables(p) \/ ReadTables(p)

\* Steps that neither concern nor disturb an edit.
BesideEdits ==
    \/ Tick
    \/ WriteOfOthers
    \/ ServePolls
    \/ \E p \in Poll : (Login(p) /\ OwnIdle) \/ FetchUpdates(p) \/ LosePoll(p)
    \/ EndSession /\ OwnIdle

SyncStep ==
    \/ BesideEdits /\ UNCHANGED edits
    \/ \E p \in Poll : ApplyOverDrafts(p)
    \/ LogoutWithDrafts

EditStep(e) ==
    \/ \E k \in Kind, t \in Table, r \in Row \cup {NewRow} : Ask(e, k, t, r)
    \/ BeginEdit(e) \/ CommitEdit(e) \/ ReadCollection(e)
    \/ Refuse(e) \/ LoseAnswer(e) \/ Confirm(e) \/ FetchDone(e)

EditsNext == SyncStep \/ \E e \in Edit : EditStep(e)

EditsSpec == EditsInit /\ [][EditsNext]_allVars

=============================================================================
