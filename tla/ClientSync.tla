----------------------------- MODULE ClientSync -----------------------------
(***************************************************************************)
(* How the browser keeps its collections equal to the tables of the server. *)
(* A client holds a copy of each table and the time as of which it is      *)
(* complete; every ten seconds it asks for what has changed since.  The    *)
(* server stamps a table in `last_updates' with the time, to the second,   *)
(* of the last change of its rows, and answers with every table whose      *)
(* stamp is not older than the time asked for.                             *)
(*                                                                         *)
(* A poll is answered in steps between which other requests may commit;    *)
(* polls under way at the same time may be answered in any order, or not   *)
(* at all.  PHP's lock of the session file keeps the requests of one       *)
(* session apart while a script runs.                                      *)
(***************************************************************************)
EXTENDS Integers, FiniteSets

CONSTANTS
    Table,        \* tables every change of which is stamped in last_updates
    Row,          \* identifiers of rows, given out once each per table
    Poll,         \* requests for the state that can be under way at once
    Writer,       \* requests of other sessions that can write at once
    MaxTime,      \* bound: seconds that pass
    MaxWrites     \* bound: changes made by other sessions

ASSUME SyncBoundsAssumption == MaxTime \in Nat /\ MaxWrites \in Nat

VARIABLES
    now,       \* the server's clock, in seconds
    db,        \* what is committed: the content of each row of each table
    stamp,     \* last_updates
    writer,    \* the flush each request of another session is in
    writes,    \* changes begun
    session,   \* whether the server takes the client for a user
    user,      \* what the client takes itself for
    col,       \* the client's collections
    ts,        \* lastUpdateTimestamp
    poll,      \* the requests for the state
    lost       \* tables of which the client has lost a change in a known way

server == <<db, stamp>>
client == <<user, col, ts>>
vars == <<now, db, stamp, writer, writes, session, user, col, ts, poll, lost>>

Time == 0..MaxTime

(***************************************************************************)
(* A row has not been created, or has a content (one number per change),   *)
(* or has been deleted.  A client sees no difference between the first and *)
(* the last.                                                               *)
(***************************************************************************)
New == 0
Deleted == -1
Content == Nat
Shown(c) == IF c = Deleted THEN New ELSE c
View(t) == [r \in Row |-> Shown(db[t][r])]
Empty == [r \in Row |-> New]

NoFlush == [active |-> FALSE]
Flush ==
    {NoFlush}
    \cup [active : {TRUE}, table : Table, row : Row, content : Content \cup {Deleted},
          at : Time]

NoPoll == [phase |-> "none"]
Asked == [phase : {"asked"}, full : BOOLEAN, since : Time]
Begun == [phase : {"begun"}, full : BOOLEAN, since : Time, at : Time]
Listed == [phase : {"listed"}, full : BOOLEAN, since : Time, at : Time,
           tables : SUBSET Table]
Answered == [phase : {"answered"}, full : BOOLEAN, since : Time, at : Time,
             tables : SUBSET Table, data : [Table -> [Row -> Content]]]

TypeOK ==
    /\ now \in Time
    /\ db \in [Table -> [Row -> Content \cup {Deleted}]]
    /\ stamp \in [Table -> Time]
    /\ writer \in [Writer -> Flush]
    /\ writes \in 0..MaxWrites
    /\ session \in {"guest", "user"}
    /\ user \in {"out", "entering", "in"}
    /\ col \in [Table -> [Row -> Content]]
    /\ ts \in Time
    /\ poll \in [Poll -> {NoPoll} \cup Asked \cup Begun \cup Listed \cup Answered]
    /\ lost \in SUBSET Table

\* Each table may hold rows already; nobody has loaded the page yet.
Init ==
    /\ now = 0
    /\ db \in [Table -> [Row -> {New, 1}]]
    /\ stamp = [t \in Table |-> 0]
    /\ writer = [w \in Writer |-> NoFlush]
    /\ writes = 0
    /\ session = "guest"
    /\ user = "out"
    /\ col = [t \in Table |-> Empty]
    /\ ts = 0
    /\ poll = [p \in Poll |-> NoPoll]
    /\ lost = {}

Tick ==
    /\ now < MaxTime
    /\ now' = now + 1
    /\ UNCHANGED <<db, stamp, writer, writes, session, user, col, ts, poll, lost>>

-----------------------------------------------------------------------------
(* The server: changes made by other sessions. *)

\* A row that is being written is locked.
RowFree(t, r) ==
    \A w \in Writer : writer[w].active => writer[w].table # t \/ writer[w].row # r

(***************************************************************************)
(* A flush writes its row and then, from the listener of the entity, the   *)
(* time into last_updates, both in one transaction that is still open.     *)
(***************************************************************************)
BeginFlush(w, t, r) ==
    /\ ~ writer[w].active
    /\ writes < MaxWrites
    /\ RowFree(t, r)
    /\ db[t][r] # Deleted
    /\ \E c \in {writes + 2} \cup (IF db[t][r] = New THEN {} ELSE {Deleted}) :
         writer' = [writer EXCEPT ![w] =
             [active |-> TRUE, table |-> t, row |-> r, content |-> c, at |-> now]]
    /\ writes' = writes + 1
    /\ UNCHANGED <<now, server, session, client, poll, lost>>

\* What a commit makes visible.
Commits(f) ==
    /\ db' = [db EXCEPT ![f.table][f.row] = f.content]
    /\ stamp' = [stamp EXCEPT ![f.table] = f.at]

\* The row of last_updates is locked by the flush that stamped it first.
StampsFirst(f) ==
    \A v \in Writer :
        writer[v].active /\ writer[v].table = f.table => f.at <= writer[v].at

\* A poll under way will not supply a change of t stamped x, nor will the next one
\* after it.
Misses(q, t, x) ==
    \/ q.phase \in {"asked", "begun"} /\ ~ q.full /\ q.since > x
    \/ q.phase \in {"listed", "answered"} /\ t \notin q.tables /\ q.at > x
PassedBy(t, x) == ts > x \/ \E p \in Poll : Misses(poll[p], t, x)

\* A change of t stamped x is committed too late for what has been read or asked for.
Crossed(t, x) ==
    PassedBy(t, x) \/ \E p \in Poll : poll[p].phase = "answered" /\ poll[p].at > x

Commit(w) ==
    /\ writer[w].active
    /\ StampsFirst(writer[w])
    /\ Commits(writer[w])
    /\ writer' = [writer EXCEPT ![w] = NoFlush]
    /\ lost' = IF Crossed(writer[w].table, writer[w].at)
               THEN lost \cup {writer[w].table} ELSE lost
    /\ UNCHANGED <<now, writes, session, client, poll>>

-----------------------------------------------------------------------------
(* The client and its requests for the state. *)

Running(p) == poll[p].phase \in {"begun", "listed"}

\* The page is loaded or the user logs in: the client asks for the full state.
Login(p) ==
    /\ user # "in"
    /\ poll[p].phase = "none"
    /\ \A q \in Poll : ~ Running(q)
    /\ session' = "user"
    /\ user' = "entering"
    /\ poll' = [poll EXCEPT ![p] = [phase |-> "asked", full |-> TRUE, since |-> 0]]
    /\ UNCHANGED <<now, server, writer, writes, col, ts, lost>>

\* Mutant of FetchUpdates: what has changed since the time by the client's own clock.
FetchSinceNow(p) ==
    /\ user = "in"
    /\ poll[p].phase = "none"
    /\ poll' = [poll EXCEPT ![p] = [phase |-> "asked", full |-> FALSE, since |-> now]]
    /\ UNCHANGED <<now, server, writer, writes, session, client, lost>>

\* The counter reaches zero, or a view wants the state refreshed.
FetchUpdates(p) ==
    /\ user = "in"
    /\ poll[p].phase = "none"
    /\ poll' = [poll EXCEPT ![p] = [phase |-> "asked", full |-> FALSE, since |-> ts]]
    /\ UNCHANGED <<now, server, writer, writes, session, client, lost>>

\* The script has the lock of the session and takes the time of its answer.
BeginPoll(p) ==
    /\ poll[p].phase = "asked"
    /\ session = "user"
    /\ \A q \in Poll : ~ Running(q)
    /\ poll' = [poll EXCEPT ![p] =
           [phase |-> "begun", full |-> poll[p].full, since |-> poll[p].since,
            at |-> now]]
    /\ UNCHANGED <<now, server, writer, writes, session, client, lost>>

\* Mutant of ListTables: a table stamped in the very second asked for is left out.
ListLaterTables(p) ==
    /\ poll[p].phase = "begun"
    /\ poll' = [poll EXCEPT ![p] =
           [phase |-> "listed", full |-> poll[p].full, since |-> poll[p].since,
            at |-> poll[p].at,
            tables |-> IF poll[p].full THEN Table
                       ELSE {t \in Table : stamp[t] > poll[p].since}]]
    /\ UNCHANGED <<now, server, writer, writes, session, client, lost>>

\* The tables the answer will have.
ListTables(p) ==
    /\ poll[p].phase = "begun"
    /\ poll' = [poll EXCEPT ![p] =
           [phase |-> "listed", full |-> poll[p].full, since |-> poll[p].since,
            at |-> poll[p].at,
            tables |-> IF poll[p].full THEN Table
                       ELSE {t \in Table : stamp[t] >= poll[p].since}]]
    /\ UNCHANGED <<now, server, writer, writes, session, client, lost>>

\* The rows are read.
ReadTables(p) ==
    /\ poll[p].phase = "listed"
    /\ poll' = [poll EXCEPT ![p] =
           [phase |-> "answered", full |-> poll[p].full, since |-> poll[p].since,
            at |-> poll[p].at, tables |-> poll[p].tables,
            data |-> [t \in Table |-> IF t \in poll[p].tables THEN View(t) ELSE Empty]]]
    /\ UNCHANGED <<now, server, writer, writes, session, client, lost>>

\* There will be no answer: the request or the answer is lost, or the script fails, as
\* it does for a guest.  The client has no handler for it.
LosePoll(p) ==
    /\ poll[p].phase \in {"asked", "begun", "listed"}
    /\ poll' = [poll EXCEPT ![p] = NoPoll]
    /\ UNCHANGED <<now, server, writer, writes, session, client, lost>>

\* The answer p is overtaken: a poll under way asks from a later time on.
Overtaken(p) ==
    \E q \in Poll \ {p} :
        poll[q].phase # "none" /\ ~ poll[q].full /\ poll[q].since > poll[p].at

\* Polls under way once p has been answered.
Others(p) == {q \in Poll \ {p} : poll[q].phase # "none"}

LostBy(p) ==
    IF Others(p) = {}
    THEN lost \ {t \in poll[p].tables : poll[p].data[t] = View(t)}
    ELSE lost \cup (IF Overtaken(p) THEN poll[p].tables ELSE {})

\* The client takes over the answer, whatever it has taken over since it asked.
Apply(p) ==
    /\ poll[p].phase = "answered"
    /\ ts' = poll[p].at
    /\ col' = [t \in Table |-> IF t \in poll[p].tables THEN poll[p].data[t] ELSE col[t]]
    /\ user' = IF poll[p].full THEN "in" ELSE user
    /\ poll' = [poll EXCEPT ![p] = NoPoll]
    /\ lost' = LostBy(p)
    /\ UNCHANGED <<now, server, writer, writes, session>>

\* The server ends the session ...
EndSession ==
    /\ user = "in"
    /\ session = "user"
    /\ \A p \in Poll : ~ Running(p)
    /\ session' = "guest"
    /\ UNCHANGED <<now, server, writer, writes, client, poll, lost>>

\* ... and the client learns of it, stops the counter and clears its collections.
Logout ==
    /\ user = "in"
    /\ session = "guest"
    /\ user' = "out"
    /\ col' = [t \in Table |-> Empty]
    /\ UNCHANGED <<now, server, writer, writes, session, ts, poll, lost>>

-----------------------------------------------------------------------------
Write ==
    \/ \E w \in Writer, t \in Table, r \in Row : BeginFlush(w, t, r)
    \/ \E w \in Writer : Commit(w)

Serve(p) == BeginPoll(p) \/ ListTables(p) \/ ReadTables(p)

Next ==
    \/ Tick
    \/ Write
    \/ \E p \in Poll :
         \/ Login(p)
         \/ FetchUpdates(p)
         \/ Serve(p)
         \/ LosePoll(p)
         \/ Apply(p)
    \/ EndSession
    \/ Logout

Spec == Init /\ [][Next]_vars

=============================================================================
