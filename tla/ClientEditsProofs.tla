------------------------- MODULE ClientEditsProofs -------------------------
(***************************************************************************)
(* Theorems about ClientEdits, for every value of its constants.           *)
(***************************************************************************)
EXTENDS ClientEditsProps, TLAPS

-----------------------------------------------------------------------------
(* The inductive invariant. *)

HasTime(q) == q.phase \in {"begun", "listed", "answered"}
HasTables(q) == q.phase \in {"listed", "answered"}

\* The client has read and asked for nothing later than x.
UpTo(q, x) == (q.phase # "none" => q.since <= x) /\ (HasTime(q) => q.at <= x)
ReadUpTo(x) == ts <= x /\ \A p \in Poll : UpTo(poll[p], x)

\* Stamps are in the past, and older than the flushes under way on their tables.
Clocks ==
    /\ ReadUpTo(now)
    /\ \A t \in Table : stamp[t] <= now
    /\ \A w \in Writer :
         writer[w].active =>
             stamp[writer[w].table] <= writer[w].at /\ writer[w].at <= now

\* While a change of the client's own is flushed no poll takes its time.
OwnFlushes ==
    \A e \in Edit :
        writer[e].active =>
            /\ edit[e].phase = "asked"
            /\ edit[e].kind # "fetch"
            /\ writer[e].table = edit[e].table
            /\ ReadUpTo(writer[e].at)

ListsAll(q) == HasTables(q) /\ q.full => q.tables = Table
FullListsAll == \A p \in Poll : ListsAll(poll[p])

\* A copy of table t of time x lacks only what will be supplied after x.
Fresh(t, copy, x) == copy = View(t) \/ stamp[t] >= x

CollectionFresh(t) == user = "in" => Fresh(t, col[t], ts)

(***************************************************************************)
(* What a poll is about: an answer is fresh, a question is old enough for  *)
(* the collection, and a table that was not listed has not been changed    *)
(* since, or will be supplied by a later poll.                             *)
(***************************************************************************)
AnswerFresh(t, q) ==
    q.phase = "answered" /\ t \in q.tables => Fresh(t, q.data[t], q.at)
QuestionFresh(t, q) ==
    user = "in" /\ q.phase \in {"asked", "begun"} /\ ~ q.full => Fresh(t, col[t], q.since)
OmissionFresh(t, q) ==
    HasTables(q) /\ t \notin q.tables =>
        \/ stamp[t] >= q.at
        \/ stamp[t] < q.since /\ (user = "in" => col[t] = View(t))

PollFresh(t, q) == AnswerFresh(t, q) /\ QuestionFresh(t, q) /\ OmissionFresh(t, q)

CopiesFresh ==
    \A t \in Table \ lost :
        CollectionFresh(t) /\ \A p \in Poll : PollFresh(t, poll[p])

\* The request for a draft has not been served yet.
Unserved(d) ==
    \E e \in Edit : edit[e].phase = "asked" /\ d \in Drafted(e)

DraftsSupplied ==
    user = "in" =>
        \A d \in draft \ refused :
            Unserved(d) \/ d[1] \in lost \/ ~ PassedBy(d[1], stamp[d[1]])

IInv ==
    /\ EditsTypeOK
    /\ Clocks
    /\ OwnFlushes
    /\ FullListsAll
    /\ CopiesFresh
    /\ DraftsSupplied

-----------------------------------------------------------------------------
(* Requests and their types. *)

LEMMA PollTypes ==
    ASSUME NEW q, q \in {NoPoll} \cup Asked \cup Begun \cup Listed \cup Answered
    PROVE  /\ q.phase \in {"none", "asked", "begun", "listed", "answered"}
           /\ q.phase = "none" => q = NoPoll
           /\ q.phase # "none" => q.full \in BOOLEAN /\ q.since \in Time
           /\ HasTime(q) => q.at \in Time
           /\ HasTables(q) => q.tables \in SUBSET Table
           /\ q.phase = "answered" => q.data \in [Table -> [Row -> Content]]
  BY DEF NoPoll, Asked, Begun, Listed, Answered, HasTime, HasTables

LEMMA EditTypes ==
    ASSUME NEW c, c \in AnEdit
    PROVE  /\ c.phase \in {"none", "asked", "confirmed", "fetched"}
           /\ c.phase = "none" => c = NoEdit
           /\ c.phase # "none" => c.table \in Table
           /\ c.phase \in {"asked", "confirmed"} => c.kind \in Kind /\ c.attached \in BOOLEAN
           /\ c.phase = "asked" => c.row \in Row \cup {NewRow}
           /\ c.phase = "confirmed" => c.row \in Row /\ c.content \in Content
           /\ c.phase = "fetched" => c.data \in [Row -> Content]
  BY DEF AnEdit, NoEdit, Kind

LEMMA DetachedType ==
    ASSUME NEW c, c \in AnEdit, c.phase \in {"asked", "confirmed"}
    PROVE  [c EXCEPT !.attached = FALSE] \in AnEdit
<1>1. CASE c.phase = "asked"
  <2>1. c \in [phase : {"asked"}, kind : Kind, table : Table, row : Row \cup {NewRow},
               attached : BOOLEAN]
    BY <1>1 DEF AnEdit, NoEdit
  <2> QED
    BY <2>1 DEF AnEdit
<1>2. CASE c.phase = "confirmed"
  <2>1. c \in [phase : {"confirmed"}, kind : Kind \ {"fetch"}, table : Table, row : Row,
               content : Content, attached : BOOLEAN]
    BY <1>2 DEF AnEdit, NoEdit
  <2> QED
    BY <2>1 DEF AnEdit
<1> QED
  BY <1>1, <1>2

LEMMA FlushTypes ==
    ASSUME NEW f, f \in Flush
    PROVE  /\ f.active \in BOOLEAN
           /\ f.active => /\ f.table \in Table /\ f.row \in Row /\ f.at \in Time
                          /\ f.content \in Content \cup {Deleted}
<1>1. CASE f = NoFlush
  BY <1>1 DEF NoFlush
<1>2. CASE f # NoFlush
  <2>1. f \in [active : {TRUE}, table : Table, row : Row,
                content : Content \cup {Deleted}, at : Time]
    BY <1>2 DEF Flush
  <2>2. f.active = TRUE /\ f.table \in Table /\ f.row \in Row /\ f.at \in Time
        /\ f.content \in Content \cup {Deleted}
    BY <2>1
  <2> QED
    BY <2>2
<1> QED
  BY <1>1, <1>2

LEMMA ViewType ==
    ASSUME TypeOK, NEW t \in Table
    PROVE  View(t) \in [Row -> Content]
  BY DEF TypeOK, View, Shown, New, Deleted, Content

PollSet == {NoPoll} \cup Asked \cup Begun \cup Listed \cup Answered

-----------------------------------------------------------------------------
(* One request for the state goes on, or is begun, or is lost. *)

\* What a new state q of a request must be for the invariant to hold.
GoodPoll(q) ==
    /\ q \in PollSet
    /\ UpTo(q, now)
    /\ \A e \in Edit : writer[e].active => UpTo(q, writer[e].at)
    /\ ListsAll(q)
    /\ \A t \in Table \ lost : PollFresh(t, q)
    /\ user = "in" =>
         \A t \in Table : ~ PassedBy(t, stamp[t]) => ~ Misses(q, t, stamp[t])

LEMMA PollStep ==
    ASSUME IInv, NEW p \in Poll, NEW q, GoodPoll(q),
           poll' = [poll EXCEPT ![p] = q],
           user' = user \/ user' = "entering",
           session' \in {"guest", "user"},
           UNCHANGED <<now, server, writer, writes, col, ts, lost, edits>>
    PROVE  IInv'
<1> USE DEF IInv, EditsTypeOK
<1>1. EditsTypeOK'
  BY DEF TypeOK, GoodPoll, PollSet, edits, drafts, server
<1>2. \A r \in Poll : poll'[r] = IF r = p THEN q ELSE poll[r]
  BY DEF TypeOK
<1>3. Clocks'
  BY <1>2 DEF Clocks, ReadUpTo, GoodPoll, UpTo, HasTime, server
<1>4. OwnFlushes'
  BY <1>2 DEF OwnFlushes, ReadUpTo, GoodPoll, UpTo, HasTime, edits, drafts
<1>5. FullListsAll'
  BY <1>2 DEF FullListsAll, GoodPoll, ListsAll, HasTables
<1>6. CopiesFresh'
  <2> SUFFICES ASSUME NEW t \in Table \ lost
               PROVE  CollectionFresh(t)' /\ \A r \in Poll : PollFresh(t, poll[r])'
    BY DEF CopiesFresh
  <2>1. CollectionFresh(t)'
    BY DEF CopiesFresh, CollectionFresh, Fresh, View, server
  <2>2. ASSUME NEW r \in Poll
        PROVE  PollFresh(t, poll[r])'
    <3>1. PollFresh(t, poll'[r])
      BY <1>2 DEF CopiesFresh, GoodPoll
    <3> QED
      BY <3>1 DEF PollFresh, AnswerFresh, QuestionFresh, OmissionFresh, Fresh, View, server
  <2> QED
    BY <2>1, <2>2
<1>7. DraftsSupplied'
  <2> SUFFICES ASSUME user' = "in", NEW d \in draft \ refused, ~ Unserved(d)', d[1] \notin lost
               PROVE  ~ PassedBy(d[1], stamp[d[1]])'
    BY DEF DraftsSupplied, edits, drafts
  <2>1. d[1] \in Table
    BY DEF Place
  <2>2. ~ PassedBy(d[1], stamp[d[1]])
    BY DEF DraftsSupplied, Unserved, Drafted, Target, edits, drafts
  <2>3. ~ Misses(q, d[1], stamp[d[1]])
    BY <2>1, <2>2 DEF GoodPoll
  <2> QED
    BY <1>2, <2>2, <2>3 DEF PassedBy, Misses, server
<1> QED
  BY <1>1, <1>3, <1>4, <1>5, <1>6, <1>7

LEMMA PollFacts ==
    ASSUME IInv, NEW p \in Poll
    PROVE  /\ poll[p] \in PollSet
           /\ UpTo(poll[p], now)
           /\ \A e \in Edit : writer[e].active => UpTo(poll[p], writer[e].at)
           /\ ListsAll(poll[p])
           /\ \A t \in Table \ lost : PollFresh(t, poll[p])
           /\ \A t \in Table : ~ PassedBy(t, stamp[t]) => ~ Misses(poll[p], t, stamp[t])
  BY DEF IInv, EditsTypeOK, TypeOK, PollSet, Clocks, OwnFlushes, ReadUpTo, FullListsAll,
         CopiesFresh, PassedBy

LEMMA LoginStep ==
    ASSUME IInv, NEW p \in Poll, Login(p), OwnIdle, UNCHANGED edits
    PROVE  IInv'
<1> DEFINE q == [phase |-> "asked", full |-> TRUE, since |-> 0]
<1>1. 0 \in Time /\ now \in Time
  BY SyncBoundsAssumption DEF Time, IInv, EditsTypeOK, TypeOK
<1>2. GoodPoll(q)
  BY <1>1 DEF GoodPoll, PollSet, Asked, UpTo, HasTime, ListsAll, HasTables, Time, OwnIdle,
              PollFresh, AnswerFresh, QuestionFresh, OmissionFresh, Misses
<1> QED
  BY <1>2, PollStep DEF Login, server

LEMMA FetchUpdatesStep ==
    ASSUME IInv, NEW p \in Poll, FetchUpdates(p), UNCHANGED edits
    PROVE  IInv'
<1> DEFINE q == [phase |-> "asked", full |-> FALSE, since |-> ts]
<1>1. ts \in Time /\ session \in {"guest", "user"} /\ stamp \in [Table -> Time]
  BY DEF IInv, EditsTypeOK, TypeOK
<1>2. ts <= now /\ \A e \in Edit : writer[e].active => ts <= writer[e].at
  BY DEF IInv, Clocks, OwnFlushes, ReadUpTo
<1>3. \A t \in Table \ lost : Fresh(t, col[t], ts)
  BY DEF IInv, CopiesFresh, CollectionFresh, FetchUpdates
<1>4. GoodPoll(q)
  BY <1>1, <1>2, <1>3
  DEF GoodPoll, PollSet, Asked, UpTo, HasTime, ListsAll, HasTables, PollFresh, AnswerFresh,
      QuestionFresh, OmissionFresh, Misses, PassedBy
<1> QED
  BY <1>1, <1>4, PollStep DEF FetchUpdates, server, client

LEMMA BeginPollStep ==
    ASSUME IInv, NEW p \in Poll, BeginPoll(p), OwnIdle, UNCHANGED edits
    PROVE  IInv'
<1> DEFINE q == [phase |-> "begun", full |-> poll[p].full, since |-> poll[p].since,
                 at |-> now]
<1>1. now \in Time /\ session \in {"guest", "user"} /\ stamp \in [Table -> Time]
  BY DEF IInv, EditsTypeOK, TypeOK
<1>2. poll[p].phase = "asked" /\ poll[p].full \in BOOLEAN /\ poll[p].since \in Time
  BY PollFacts, PollTypes DEF BeginPoll, PollSet
<1>3. q \in PollSet
  BY <1>1, <1>2 DEF PollSet, Begun
<1>4. GoodPoll(q)
  BY <1>1, <1>2, <1>3, PollFacts
  DEF GoodPoll, UpTo, HasTime, ListsAll, HasTables, PollFresh, AnswerFresh, QuestionFresh,
      OmissionFresh, Misses, OwnIdle, Time
<1> QED
  BY <1>1, <1>4, PollStep DEF BeginPoll, server, client

LEMMA ListTablesStep ==
    ASSUME IInv, NEW p \in Poll, ListTables(p), UNCHANGED edits
    PROVE  IInv'
<1> DEFINE q == [phase |-> "listed", full |-> poll[p].full, since |-> poll[p].since,
                 at |-> poll[p].at,
                 tables |-> IF poll[p].full THEN Table
                            ELSE {t \in Table : stamp[t] >= poll[p].since}]
<1>1. now \in Time /\ session \in {"guest", "user"} /\ stamp \in [Table -> Time]
  BY DEF IInv, EditsTypeOK, TypeOK
<1>2. /\ poll[p].phase = "begun" /\ poll[p].full \in BOOLEAN /\ poll[p].since \in Time
      /\ poll[p].at \in Time
  BY PollFacts, PollTypes DEF ListTables, PollSet, HasTime
<1>3. q \in PollSet
  BY <1>1, <1>2 DEF PollSet, Listed
<1>4. ASSUME NEW t \in Table \ lost
      PROVE  PollFresh(t, q)
  <2>1. QuestionFresh(t, poll[p])
    BY PollFacts DEF PollFresh
  <2>2. t \notin q.tables => ~ poll[p].full /\ stamp[t] < poll[p].since
    BY <1>1, <1>2 DEF Time
  <2> QED
    BY <1>1, <1>2, <2>1, <2>2
    DEF PollFresh, AnswerFresh, QuestionFresh, OmissionFresh, Fresh, Time
<1>5. ASSUME NEW t \in Table, ~ PassedBy(t, stamp[t])
      PROVE  ~ Misses(q, t, stamp[t])
  BY <1>1, <1>2, <1>5, PollFacts DEF Misses, Time
<1>6. GoodPoll(q)
  BY <1>2, <1>3, <1>4, <1>5, PollFacts DEF GoodPoll, UpTo, HasTime, ListsAll, HasTables
<1> QED
  BY <1>1, <1>6, PollStep DEF ListTables, server, client

LEMMA ReadTablesStep ==
    ASSUME IInv, NEW p \in Poll, ReadTables(p), UNCHANGED edits
    PROVE  IInv'
<1> DEFINE q == [phase |-> "answered", full |-> poll[p].full, since |-> poll[p].since,
                 at |-> poll[p].at, tables |-> poll[p].tables,
                 data |-> [t \in Table |-> IF t \in poll[p].tables THEN View(t)
                                           ELSE Empty]]
<1>1. session \in {"guest", "user"} /\ TypeOK
  BY DEF IInv, EditsTypeOK, TypeOK
<1>2. /\ poll[p].phase = "listed" /\ poll[p].full \in BOOLEAN /\ poll[p].since \in Time
      /\ poll[p].at \in Time /\ poll[p].tables \in SUBSET Table
  BY PollFacts, PollTypes DEF ReadTables, PollSet, HasTime, HasTables
<1>3. q.data \in [Table -> [Row -> Content]]
  BY <1>1, ViewType DEF Empty, New, Content
<1>4. q \in PollSet
  BY <1>2, <1>3 DEF PollSet, Answered
<1>5. ASSUME NEW t \in Table \ lost
      PROVE  PollFresh(t, q)
  <2>1. OmissionFresh(t, poll[p])
    BY PollFacts DEF PollFresh
  <2> QED
    BY <1>2, <2>1
    DEF PollFresh, AnswerFresh, QuestionFresh, OmissionFresh, Fresh, HasTables
<1>6. ASSUME NEW t \in Table, ~ PassedBy(t, stamp[t])
      PROVE  ~ Misses(q, t, stamp[t])
  BY <1>2, <1>6, PollFacts DEF Misses
<1>7. GoodPoll(q)
  BY <1>2, <1>4, <1>5, <1>6, PollFacts DEF GoodPoll, UpTo, HasTime, ListsAll, HasTables
<1> QED
  BY <1>1, <1>7, PollStep DEF ReadTables, server, client

LEMMA LosePollStep ==
    ASSUME IInv, NEW p \in Poll, LosePoll(p), UNCHANGED edits
    PROVE  IInv'
<1>1. session \in {"guest", "user"}
  BY DEF IInv, EditsTypeOK, TypeOK
<1>2. GoodPoll(NoPoll)
  BY DEF GoodPoll, NoPoll, PollSet, UpTo, HasTime, ListsAll, HasTables, PollFresh,
         AnswerFresh, QuestionFresh, OmissionFresh, Misses
<1> QED
  BY <1>1, <1>2, PollStep DEF LosePoll, server, client

-----------------------------------------------------------------------------
(* Steps that leave the copies and the requests for the state alone. *)

LEMMA CopiesKept ==
    ASSUME IInv, UNCHANGED <<server, user, col, ts, poll, lost>>
    PROVE  CopiesFresh' /\ FullListsAll'
<1>1. CopiesFresh'
  BY DEF IInv, CopiesFresh, CollectionFresh, PollFresh, AnswerFresh, QuestionFresh,
         OmissionFresh, Fresh, View, server
<1>2. FullListsAll'
  BY DEF IInv, FullListsAll
<1> QED
  BY <1>1, <1>2

LEMMA DraftsKept ==
    ASSUME IInv, UNCHANGED <<server, user, ts, poll, lost>>,
           \A d \in draft' \ refused' : Unserved(d) => Unserved(d)',
           \A d \in draft' \ refused' : d \in draft \ refused \/ Unserved(d)'
    PROVE  DraftsSupplied'
  BY DEF IInv, DraftsSupplied, PassedBy, server

LEMMA UpToLater ==
    ASSUME NEW q \in PollSet, NEW x \in Int, UpTo(q, x)
    PROVE  UpTo(q, x + 1)
<1>1. q.phase # "none" => q.since \in Int
  BY SyncBoundsAssumption, PollTypes DEF PollSet, Time
<1>2. HasTime(q) => q.at \in Int
  BY SyncBoundsAssumption, PollTypes DEF PollSet, Time
<1> QED
  BY <1>1, <1>2 DEF UpTo

LEMMA TickStep ==
    ASSUME IInv, Tick, UNCHANGED edits
    PROVE  IInv'
<1> USE DEF Tick, IInv, EditsTypeOK
<1>1. EditsTypeOK'
  BY SyncBoundsAssumption DEF TypeOK, Time, server, edits, drafts
<1>2. now \in Int /\ stamp \in [Table -> Int] /\ ts \in Int
  BY SyncBoundsAssumption DEF TypeOK, Time
<1>3. \A w \in Writer : writer[w].active => writer[w].at \in Int
  BY SyncBoundsAssumption, FlushTypes DEF TypeOK, Time
<1>5. Clocks'
  <2>1. now' = now + 1 /\ ts' = ts /\ stamp' = stamp /\ writer' = writer /\ poll' = poll
    OBVIOUS
  <2>2. ReadUpTo(now)'
    <3>1. ts <= now + 1
      BY <1>2 DEF Clocks, ReadUpTo
    <3>2. ASSUME NEW p \in Poll
          PROVE  UpTo(poll[p], now + 1)
      <4>1. UpTo(poll[p], now)
        BY DEF Clocks, ReadUpTo
      <4> QED
        BY <4>1, <1>2, PollFacts, UpToLater
    <3> QED
      BY <2>1, <3>1, <3>2 DEF ReadUpTo, UpTo, HasTime
  <2>3. \A t \in Table : stamp[t] <= now'
    BY <2>1, <1>2 DEF Clocks
  <2>4. \A w \in Writer : writer[w].active => writer[w].at <= now'
    BY <2>1, <1>2, <1>3 DEF Clocks
  <2> QED
    BY <2>1, <2>2, <2>3, <2>4 DEF Clocks, ReadUpTo, UpTo, HasTime
<1>6. OwnFlushes'
  BY DEF OwnFlushes, ReadUpTo, UpTo, HasTime, edits
<1>7. DraftsSupplied'
  BY DraftsKept DEF Unserved, Drafted, Target, edits, drafts, server
<1> QED
  BY <1>1, <1>5, <1>6, <1>7, CopiesKept DEF server

LEMMA BeginFlushStep ==
    ASSUME IInv, NEW w \in Writer \ Edit, NEW t \in Table, NEW r \in Row,
           BeginFlush(w, t, r), UNCHANGED edits
    PROVE  IInv'
<1> USE DEF BeginFlush, IInv, EditsTypeOK
<1>1. PICK c \in {writes + 2} \cup {Deleted} :
        writer' = [writer EXCEPT ![w] =
            [active |-> TRUE, table |-> t, row |-> r, content |-> c, at |-> now]]
  BY DEF New
<1>2. [active |-> TRUE, table |-> t, row |-> r, content |-> c, at |-> now] \in Flush
  <2>1. c \in Content \cup {Deleted} /\ now \in Time
    BY SyncBoundsAssumption DEF TypeOK, Content
  <2> QED
    BY <2>1 DEF Flush
<1>3. EditsTypeOK'
  <2>1. writer' \in [Writer -> Flush]
    BY <1>1, <1>2 DEF TypeOK
  <2>2. writes' \in 0..MaxWrites
    BY SyncBoundsAssumption DEF TypeOK
  <2> QED
    BY <2>1, <2>2 DEF TypeOK, server, client, edits, drafts
<1>4. \A v \in Writer : writer'[v] =
        IF v = w THEN [active |-> TRUE, table |-> t, row |-> r, content |-> c, at |-> now]
        ELSE writer[v]
  BY <1>1 DEF TypeOK
<1>5. now \in Int
  BY SyncBoundsAssumption DEF TypeOK, Time
<1>6. Clocks'
  BY <1>4, <1>5 DEF Clocks, ReadUpTo, UpTo, HasTime, server, client
<1>7. OwnFlushes'
  BY <1>4, EditsAssumption DEF OwnFlushes, ReadUpTo, UpTo, HasTime, edits, client
<1>8. DraftsSupplied'
  BY DraftsKept DEF Unserved, Drafted, Target, edits, drafts, client
<1> QED
  BY <1>3, <1>6, <1>7, <1>8, CopiesKept DEF client

LEMMA EndSessionStep ==
    ASSUME IInv, EndSession, UNCHANGED edits
    PROVE  IInv'
<1> USE DEF EndSession, IInv, EditsTypeOK
<1>1. EditsTypeOK'
  BY DEF TypeOK, server, client, edits, drafts
<1>2. Clocks' /\ OwnFlushes'
  BY DEF Clocks, OwnFlushes, ReadUpTo, UpTo, HasTime, server, client, edits
<1>3. DraftsSupplied'
  BY DraftsKept DEF Unserved, Drafted, Target, edits, drafts, client
<1> QED
  BY <1>1, <1>2, <1>3, CopiesKept DEF client

LEMMA AskStep ==
    ASSUME IInv, NEW e \in Edit, NEW k \in Kind, NEW t \in Table,
           NEW r \in Row \cup {NewRow}, Ask(e, k, t, r)
    PROVE  IInv'
<1> USE DEF Ask, IInv, EditsTypeOK
<1> DEFINE asked == [phase |-> "asked", kind |-> k, table |-> t, row |-> r, attached |-> TRUE]
<1>1. asked \in AnEdit
  BY DEF AnEdit
<1>2. <<t, r>> \in Place
  BY DEF Place
<1>3. EditsTypeOK'
  BY <1>1, <1>2 DEF TypeOK, vars
<1>4. \A v \in Edit : edit'[v] = IF v = e THEN asked ELSE edit[v]
  OBVIOUS
<1>5. Clocks'
  BY DEF Clocks, ReadUpTo, UpTo, HasTime, vars
<1>6. OwnFlushes'
  BY <1>4 DEF OwnFlushes, ReadUpTo, UpTo, HasTime, vars, NoEdit
<1>7. \A d : Unserved(d) => Unserved(d)'
  <2> SUFFICES ASSUME NEW d, NEW v \in Edit, edit[v].phase = "asked", d \in Drafted(v)
               PROVE  Unserved(d)'
    BY DEF Unserved
  <2>1. v # e
    BY DEF NoEdit
  <2> QED
    BY <2>1, <1>4 DEF Unserved, Drafted, Target
<1>8. \A d \in draft' \ refused' : d \in draft \ refused \/ Unserved(d)'
  <2> SUFFICES ASSUME NEW d \in draft' \ refused', d \notin draft \ refused
               PROVE  Unserved(d)'
    OBVIOUS
  <2>1. d = <<t, r>>
    OBVIOUS
  <2>2. DraftsAtOnce(k)
    BY <2>1
  <2>3. (k = "create") = (r = NewRow)
    BY <2>2 DEF DraftsAtOnce
  <2>4. d \in Drafted(e)'
    BY <2>1, <2>2, <2>3, <1>4 DEF Drafted, Target
  <2> QED
    BY <2>4, <1>4 DEF Unserved
<1>9. DraftsSupplied'
  BY <1>7, <1>8, DraftsKept DEF vars, server
<1> QED
  BY <1>3, <1>5, <1>6, <1>9, CopiesKept DEF vars, server

LEMMA EditFacts ==
    ASSUME IInv, NEW e \in Edit
    PROVE  /\ edit[e] \in AnEdit
           /\ e \in Writer /\ writer[e] \in Flush
           /\ edit[e].phase # "asked" => ~ writer[e].active
           /\ edit[e].phase # "none" => edit[e].table \in Table
  BY EditsAssumption, EditTypes DEF IInv, EditsTypeOK, TypeOK, OwnFlushes

\* Only the drafts of e can cease to be unserved by a step of e.
LEMMA EditKept ==
    ASSUME IInv, NEW e \in Edit, NEW c, edit' = [edit EXCEPT ![e] = c]
    PROVE  \A d : Unserved(d) => Unserved(d)' \/ (edit[e].phase = "asked" /\ d \in Drafted(e))
<1>1. \A v \in Edit \ {e} : edit'[v] = edit[v]
  BY DEF IInv, EditsTypeOK
<1> QED
  BY <1>1 DEF Unserved, Drafted, Target

LEMMA BeginEditStep ==
    ASSUME IInv, NEW e \in Edit, BeginEdit(e)
    PROVE  IInv'
<1> USE DEF BeginEdit, IInv, EditsTypeOK
<1>1. PICK r \in Row :
        writer' = [writer EXCEPT ![e] =
            [active |-> TRUE, table |-> edit[e].table, row |-> r,
             content |-> IF edit[e].kind = "destroy" THEN Deleted ELSE MaxWrites + 2 + changes,
             at |-> now]]
  OBVIOUS
<1> DEFINE f == [active |-> TRUE, table |-> edit[e].table, row |-> r,
                 content |-> IF edit[e].kind = "destroy" THEN Deleted
                             ELSE MaxWrites + 2 + changes,
                 at |-> now]
<1>2. f \in Flush
  <2>1. f.content \in Content \cup {Deleted} /\ now \in Time /\ changes \in Nat
    BY SyncBoundsAssumption, EditsAssumption DEF TypeOK, Content
  <2>2. edit[e].table \in Table
    BY EditFacts
  <2> QED
    BY <2>1, <2>2 DEF Flush
<1>3. EditsTypeOK'
  <2>1. writer' \in [Writer -> Flush]
    BY <1>1, <1>2 DEF TypeOK
  <2>2. changes' \in 0..MaxEdits
    BY EditsAssumption
  <2> QED
    BY <2>1, <2>2 DEF TypeOK, server, client, drafts
<1>4. \A v \in Writer : writer'[v] = IF v = e THEN f ELSE writer[v]
  BY <1>1 DEF TypeOK
<1>5. now \in Int /\ edit[e].table \in Table
  BY SyncBoundsAssumption, EditFacts DEF TypeOK, Time
<1>6. Clocks'
  BY <1>4, <1>5 DEF Clocks, ReadUpTo, UpTo, HasTime, server, client
<1>7. OwnFlushes'
  BY <1>4, EditFacts DEF OwnFlushes, Clocks, ReadUpTo, UpTo, HasTime, client
<1>8. DraftsSupplied'
  BY DraftsKept DEF Unserved, Drafted, Target, drafts, client
<1> QED
  BY <1>3, <1>6, <1>7, <1>8, CopiesKept DEF client

LEMMA ReadCollectionStep ==
    ASSUME IInv, NEW e \in Edit, ReadCollection(e)
    PROVE  IInv'
<1> USE DEF ReadCollection, IInv, EditsTypeOK
<1> DEFINE c == [phase |-> "fetched", table |-> edit[e].table, data |-> View(edit[e].table)]
<1>1. edit[e].table \in Table
  BY EditFacts
<1>2. c \in AnEdit
  BY <1>1, ViewType DEF AnEdit
<1>3. EditsTypeOK'
  BY <1>2 DEF TypeOK, vars, drafts
<1>4. \A v \in Edit : edit'[v] = IF v = e THEN c ELSE edit[v]
  OBVIOUS
<1>5. Clocks'
  BY DEF Clocks, ReadUpTo, UpTo, HasTime, vars
<1>6. OwnFlushes'
  BY <1>4 DEF OwnFlushes, ReadUpTo, UpTo, HasTime, vars
<1>7. \A d : Unserved(d) => Unserved(d)'
  BY EditKept DEF Drafted, DraftsAtOnce
<1>8. DraftsSupplied'
  BY <1>7, DraftsKept DEF vars, server, drafts
<1> QED
  BY <1>3, <1>5, <1>6, <1>8, CopiesKept DEF vars, server

LEMMA RefuseStep ==
    ASSUME IInv, NEW e \in Edit, Refuse(e)
    PROVE  IInv'
<1> USE DEF Refuse, IInv, EditsTypeOK
<1>1. EditsTypeOK'
  <2>1. writer' \in [Writer -> Flush] /\ edit' \in [Edit -> AnEdit]
    BY DEF TypeOK, Flush, AnEdit
  <2>2. refused' \in SUBSET draft'
    OBVIOUS
  <2> QED
    BY <2>1, <2>2 DEF TypeOK, server, client
<1>2. \A v \in Edit : edit'[v] = IF v = e THEN NoEdit ELSE edit[v]
  OBVIOUS
<1>3. \A w \in Writer : writer'[w] = IF w = e THEN NoFlush ELSE writer[w]
  BY DEF TypeOK
<1>4. Clocks'
  BY <1>3 DEF Clocks, ReadUpTo, UpTo, HasTime, server, client, NoFlush
<1>5. OwnFlushes'
  BY <1>2, <1>3, EditFacts DEF OwnFlushes, ReadUpTo, UpTo, HasTime, client, NoFlush
<1>6. \A d \in draft' \ refused' : Unserved(d) => Unserved(d)'
  BY EditKept
<1>7. DraftsSupplied'
  BY <1>6, DraftsKept DEF client
<1> QED
  BY <1>1, <1>4, <1>5, <1>7, CopiesKept DEF client

LEMMA LoseAnswerStep ==
    ASSUME IInv, NEW e \in Edit, LoseAnswer(e)
    PROVE  IInv'
<1> USE DEF LoseAnswer, IInv, EditsTypeOK
<1>1. EditsTypeOK'
  BY DEF TypeOK, vars, drafts, AnEdit
<1>2. \A v \in Edit : edit'[v] = IF v = e THEN NoEdit ELSE edit[v]
  OBVIOUS
<1>3. Clocks'
  BY DEF Clocks, ReadUpTo, UpTo, HasTime, vars
<1>4. OwnFlushes'
  BY <1>2, EditFacts DEF OwnFlushes, ReadUpTo, UpTo, HasTime, vars
<1>5. \A d : Unserved(d) => Unserved(d)'
  BY EditKept
<1>6. DraftsSupplied'
  BY <1>5, DraftsKept DEF vars, server, drafts
<1> QED
  BY <1>1, <1>3, <1>4, <1>6, CopiesKept DEF vars, server

-----------------------------------------------------------------------------
(* Commits. *)

\* A flush f is committed that no poll has passed, or its table counts as lost.
LEMMA CommitCopies ==
    ASSUME IInv, NEW f \in Flush, f.active, Commits(f), lost \subseteq lost',
           f.table \in lost' \/ ~ Crossed(f.table, f.at),
           UNCHANGED <<client, poll>>
    PROVE  CopiesFresh' /\ FullListsAll'
<1> USE DEF IInv, EditsTypeOK, Commits
<1>1. /\ f.table \in Table /\ f.at \in Time
      /\ \A t \in Table : stamp'[t] = IF t = f.table THEN f.at ELSE stamp[t]
      /\ \A t \in Table \ {f.table} : db'[t] = db[t]
  BY FlushTypes DEF TypeOK
<1>2. ASSUME NEW t \in Table \ lost'
      PROVE  CollectionFresh(t)' /\ \A p \in Poll : PollFresh(t, poll[p])'
  <2>1. CASE t # f.table
    <3>1. View(t)' = View(t) /\ stamp'[t] = stamp[t]
      BY <1>1, <2>1 DEF View
    <3>2. CollectionFresh(t) /\ \A p \in Poll : PollFresh(t, poll[p])
      BY DEF CopiesFresh
    <3> QED
      BY <3>1, <3>2 DEF CollectionFresh, PollFresh, AnswerFresh, QuestionFresh,
                        OmissionFresh, Fresh, client
  <2>2. CASE t = f.table
    <3>1. stamp'[t] = f.at /\ ~ Crossed(t, f.at)
      BY <1>1, <2>2
    <3>2. ts <= f.at
      BY <1>1, <3>1, SyncBoundsAssumption DEF Crossed, PassedBy, TypeOK, Time
    <3>3. ASSUME NEW p \in Poll
          PROVE  PollFresh(t, poll[p])'
      <4>1. poll[p].phase \in {"asked", "begun"} /\ ~ poll[p].full => poll[p].since <= f.at
        BY <1>1, <3>1, PollFacts, PollTypes, SyncBoundsAssumption
        DEF Crossed, PassedBy, Misses, PollSet, Time
      <4>2. HasTables(poll[p]) /\ t \notin poll[p].tables => poll[p].at <= f.at
        BY <1>1, <3>1, PollFacts, PollTypes, SyncBoundsAssumption
        DEF Crossed, PassedBy, Misses, PollSet, Time, HasTables, HasTime
      <4>3. poll[p].phase = "answered" => poll[p].at <= f.at
        BY <1>1, <3>1, PollFacts, PollTypes, SyncBoundsAssumption
        DEF Crossed, PollSet, Time, HasTime
      <4> QED
        BY <3>1, <4>1, <4>2, <4>3
        DEF PollFresh, AnswerFresh, QuestionFresh, OmissionFresh, Fresh, HasTables
    <3> QED
      BY <3>1, <3>2, <3>3 DEF CollectionFresh, Fresh, client
  <2> QED
    BY <2>1, <2>2
<1>3. FullListsAll'
  BY DEF FullListsAll
<1> QED
  BY <1>2, <1>3 DEF CopiesFresh

LEMMA CommitDrafts ==
    ASSUME IInv, NEW f \in Flush, f.active, Commits(f), lost \subseteq lost',
           f.table \in lost' \/ ~ Crossed(f.table, f.at),
           UNCHANGED <<client, poll, drafts>>,
           \A d \in draft \ refused : Unserved(d) => Unserved(d)' \/ d[1] = f.table
    PROVE  DraftsSupplied'
<1> USE DEF IInv, EditsTypeOK, Commits
<1>1. \A t \in Table : stamp'[t] = IF t = f.table THEN f.at ELSE stamp[t]
  BY FlushTypes DEF TypeOK
<1> SUFFICES ASSUME user' = "in", NEW d \in draft \ refused, ~ Unserved(d)', d[1] \notin lost'
             PROVE  ~ PassedBy(d[1], stamp[d[1]])'
  BY DEF DraftsSupplied, drafts
<1>2. d[1] \in Table
  BY DEF Place
<1>3. CASE d[1] = f.table
  BY <1>1, <1>2, <1>3 DEF Crossed, PassedBy, Misses, client
<1>4. CASE d[1] # f.table
  <2>1. ~ PassedBy(d[1], stamp[d[1]])
    BY <1>4 DEF DraftsSupplied, client
  <2> QED
    BY <2>1, <1>1, <1>2, <1>4 DEF PassedBy, Misses, client
<1> QED
  BY <1>3, <1>4

LEMMA CommitClocks ==
    ASSUME IInv, NEW w \in Writer, writer[w].active, StampsFirst(writer[w]),
           Commits(writer[w]), writer' = [writer EXCEPT ![w] = NoFlush],
           UNCHANGED <<now, client, poll>>
    PROVE  /\ Clocks'
           /\ db' \in [Table -> [Row -> Content \cup {Deleted}]]
           /\ stamp' \in [Table -> Time]
           /\ writer' \in [Writer -> Flush]
<1> USE DEF IInv, EditsTypeOK, Commits
<1>1. writer[w] \in Flush
  BY DEF TypeOK
<1>2. /\ writer[w].table \in Table /\ writer[w].row \in Row /\ writer[w].at \in Time
      /\ writer[w].content \in Content \cup {Deleted}
  BY <1>1, FlushTypes
<1>3. \A v \in Writer : writer'[v] = IF v = w THEN NoFlush ELSE writer[v]
  BY DEF TypeOK
<1>4. \A t \in Table : stamp'[t] = IF t = writer[w].table THEN writer[w].at ELSE stamp[t]
  BY DEF TypeOK
<1>5. \A v \in Writer : writer[v].active => writer[v].table \in Table
  BY FlushTypes DEF TypeOK
<1>6. Clocks'
  <2>1. ReadUpTo(now)'
    BY DEF Clocks, ReadUpTo, UpTo, HasTime, client
  <2>2. \A t \in Table : stamp'[t] <= now'
    BY <1>4 DEF Clocks
  <2>3. ASSUME NEW v \in Writer, writer'[v].active
        PROVE  stamp'[writer'[v].table] <= writer'[v].at /\ writer'[v].at <= now'
    <3>1. v # w /\ writer'[v] = writer[v]
      BY <1>3, <2>3 DEF NoFlush
    <3> QED
      BY <1>4, <1>5, <2>3, <3>1 DEF Clocks, StampsFirst
  <2> QED
    BY <2>1, <2>2, <2>3 DEF Clocks
<1>7. writer' \in [Writer -> Flush]
  BY DEF TypeOK, Flush
<1> QED
  BY <1>2, <1>6, <1>7 DEF TypeOK

LEMMA CommitStep ==
    ASSUME IInv, NEW w \in Writer \ Edit, Commit(w), UNCHANGED edits
    PROVE  IInv'
<1> USE DEF Commit, IInv, EditsTypeOK
<1>1. writer[w] \in Flush
  BY DEF TypeOK
<1>2. lost' \in SUBSET Table
  BY <1>1, FlushTypes DEF TypeOK
<1>3. EditsTypeOK'
  BY <1>2, CommitClocks DEF TypeOK, client, edits, drafts
<1>4. Clocks'
  BY CommitClocks
<1>5. OwnFlushes'
  <2>1. \A e \in Edit : writer'[e] = writer[e]
    BY EditsAssumption DEF TypeOK
  <2> QED
    BY <2>1 DEF OwnFlushes, ReadUpTo, UpTo, HasTime, client, edits
<1>6. CopiesFresh' /\ FullListsAll'
  BY <1>1, CommitCopies
<1>7. DraftsSupplied'
  BY <1>1, CommitDrafts DEF Unserved, Drafted, Target, edits
<1> QED
  BY <1>3, <1>4, <1>5, <1>6, <1>7

LEMMA CommitEditStep ==
    ASSUME IInv, NEW e \in Edit, CommitEdit(e)
    PROVE  IInv'
<1> USE DEF CommitEdit, IInv, EditsTypeOK
<1> DEFINE c == [phase |-> "confirmed", kind |-> edit[e].kind, table |-> edit[e].table,
                 row |-> writer[e].row, content |-> Shown(writer[e].content),
                 attached |-> edit[e].attached]
<1>1. /\ e \in Writer /\ writer[e] \in Flush
      /\ edit[e].phase = "asked" /\ edit[e].kind # "fetch"
      /\ writer[e].table = edit[e].table /\ ReadUpTo(writer[e].at)
  BY EditFacts DEF OwnFlushes
<1>2. c \in AnEdit
  <2>1. edit[e].table \in Table /\ edit[e].kind \in Kind /\ edit[e].attached \in BOOLEAN
    BY <1>1, EditFacts, EditTypes
  <2>2. writer[e].row \in Row /\ Shown(writer[e].content) \in Content
    BY <1>1, FlushTypes DEF Shown, Content, New, Deleted
  <2> QED
    BY <1>1, <2>1, <2>2 DEF AnEdit
<1>3. edit' = [edit EXCEPT ![e] = c]
  BY DEF Confirmed
<1>4. EditsTypeOK'
  BY <1>1, <1>2, <1>3, CommitClocks DEF TypeOK, client, drafts
<1>5. Clocks'
  BY <1>1, CommitClocks
<1>6. OwnFlushes'
  <2>1. \A v \in Edit \ {e} : writer'[v] = writer[v] /\ edit'[v] = edit[v]
    BY <1>3, EditsAssumption DEF TypeOK
  <2>2. ~ writer'[e].active
    BY <1>1 DEF TypeOK, NoFlush
  <2> QED
    BY <2>1, <2>2 DEF OwnFlushes, ReadUpTo, UpTo, HasTime, client
<1>7. ~ Crossed(writer[e].table, writer[e].at)
  <2>1. writer[e].at \in Time /\ ts \in Time
    BY <1>1, FlushTypes DEF TypeOK
  <2>2. ~ ts > writer[e].at
    BY <1>1, <2>1, SyncBoundsAssumption DEF ReadUpTo, Time
  <2>3. ASSUME NEW p \in Poll
        PROVE  /\ poll[p].phase # "none" => ~ poll[p].since > writer[e].at
               /\ HasTime(poll[p]) => ~ poll[p].at > writer[e].at
    <3>1. UpTo(poll[p], writer[e].at)
      BY <1>1 DEF ReadUpTo
    <3>2. /\ poll[p].phase # "none" => poll[p].since \in Int
          /\ HasTime(poll[p]) => poll[p].at \in Int
      BY PollFacts, PollTypes, SyncBoundsAssumption DEF PollSet, Time
    <3> QED
      BY <2>1, <3>1, <3>2, SyncBoundsAssumption DEF UpTo, Time
  <2> QED
    BY <2>2, <2>3 DEF Crossed, PassedBy, Misses, HasTime
<1>8. CopiesFresh' /\ FullListsAll'
  BY <1>1, <1>7, CommitCopies
<1>9. \A d \in draft \ refused : Unserved(d) => Unserved(d)' \/ d[1] = writer[e].table
  <2>1. \A d : d \in Drafted(e) => d[1] = writer[e].table
    BY <1>1 DEF Drafted, Target
  <2>2. \A d : Unserved(d) => Unserved(d)' \/ d \in Drafted(e)
    BY <1>3, EditKept
  <2> QED
    BY <2>1, <2>2
<1>10. DraftsSupplied'
  BY <1>1, <1>7, <1>9, CommitDrafts
<1> QED
  BY <1>4, <1>5, <1>6, <1>8, <1>10

-----------------------------------------------------------------------------
(* Answers are taken over. *)

LEMMA ApplyCopies ==
    ASSUME IInv, NEW p \in Poll, Apply(p)
    PROVE  CopiesFresh' /\ FullListsAll'
<1> USE DEF IInv, EditsTypeOK, Apply
<1> DEFINE a == poll[p]
<1>1. /\ a \in PollSet /\ a.phase = "answered" /\ a.full \in BOOLEAN
      /\ a.since \in Time /\ a.at \in Time /\ a.tables \in SUBSET Table
      /\ a.full => a.tables = Table
  BY PollFacts, PollTypes DEF PollSet, HasTime, HasTables, ListsAll
<1>2. \A q \in Poll : poll'[q] = IF q = p THEN NoPoll ELSE poll[q]
  BY DEF TypeOK
<1>3. \A t \in Table : col'[t] = IF t \in a.tables THEN a.data[t] ELSE col[t]
  OBVIOUS
<1>4. \A t \in Table : View(t)' = View(t) /\ stamp'[t] = stamp[t]
  BY DEF View, server
<1>5. ts' = a.at
  OBVIOUS
<1>6. ASSUME NEW t \in Table \ lost'
      PROVE  CollectionFresh(t)' /\ \A q \in Poll : PollFresh(t, poll[q])'
  <2>1. CASE t \in lost
    <3>1. Others(p) = {} /\ t \in a.tables /\ a.data[t] = View(t)
      BY <2>1 DEF LostBy
    <3>2. \A q \in Poll : poll'[q].phase = "none"
      BY <1>2, <3>1 DEF Others, NoPoll
    <3> QED
      BY <1>3, <1>4, <3>1, <3>2
      DEF CollectionFresh, PollFresh, AnswerFresh, QuestionFresh, OmissionFresh, Fresh,
          HasTables
  <2>2. CASE t \notin lost
    <3>1. CollectionFresh(t) /\ \A q \in Poll : PollFresh(t, poll[q])
      BY <2>2 DEF CopiesFresh
    <3>2. user' = "in" /\ t \notin a.tables => user = "in"
      BY <1>1
    <3>3. CollectionFresh(t)'
      <4>1. CASE t \in a.tables
        BY <1>1, <1>3, <1>4, <1>5, <3>1, <4>1
        DEF CollectionFresh, PollFresh, AnswerFresh, Fresh
      <4>2. CASE t \notin a.tables
        BY <1>1, <1>3, <1>4, <1>5, <3>1, <3>2, <4>2
        DEF CollectionFresh, PollFresh, OmissionFresh, Fresh, HasTables
      <4> QED
        BY <4>1, <4>2
    <3>4. ASSUME NEW q \in Poll
          PROVE  PollFresh(t, poll[q])'
      <4>1. CASE poll'[q].phase = "none"
        BY <4>1 DEF PollFresh, AnswerFresh, QuestionFresh, OmissionFresh, HasTables
      <4>2. CASE poll'[q].phase # "none" /\ t \notin a.tables
        BY <1>2, <1>3, <1>4, <3>1, <3>2, <4>2
        DEF PollFresh, AnswerFresh, QuestionFresh, OmissionFresh, Fresh, NoPoll
      <4>3. CASE poll'[q].phase # "none" /\ t \in a.tables
        <5>1. q # p /\ poll'[q] = poll[q] /\ q \in Others(p)
          BY <1>2, <4>3 DEF NoPoll, Others
        <5>2. ~ Overtaken(p)
          BY <4>3, <5>1 DEF LostBy
        <5>3. /\ poll[q].full \in BOOLEAN /\ poll[q].since \in Int /\ stamp[t] \in Int
              /\ a.at \in Int
              /\ HasTables(poll[q]) => poll[q].at \in Int
          BY <1>1, <4>3, <5>1, PollFacts, PollTypes, SyncBoundsAssumption
          DEF PollSet, Time, TypeOK, HasTime, HasTables
        <5>4. ~ poll[q].full => poll[q].since <= a.at
          BY <5>1, <5>2, <5>3, <4>3 DEF Overtaken
        <5>5. Fresh(t, a.data[t], a.at)
          BY <1>1, <3>1, <4>3 DEF PollFresh, AnswerFresh
        <5>6. HasTables(poll[q]) /\ t \notin poll[q].tables => ~ poll[q].full
          BY <5>3, PollFacts DEF ListsAll
        <5>7. AnswerFresh(t, poll[q])'
          BY <1>4, <3>1, <5>1 DEF PollFresh, AnswerFresh, Fresh
        <5>8. QuestionFresh(t, poll[q])'
          BY <1>3, <1>4, <4>3, <5>1, <5>3, <5>4, <5>5 DEF QuestionFresh, Fresh
        <5>9. OmissionFresh(t, poll[q])'
          BY <1>3, <1>4, <3>1, <4>3, <5>1, <5>3, <5>4, <5>5, <5>6
          DEF PollFresh, OmissionFresh, Fresh, HasTables
        <5> QED
          BY <5>7, <5>8, <5>9 DEF PollFresh
      <4> QED
        BY <4>1, <4>2, <4>3
    <3> QED
      BY <3>3, <3>4
  <2> QED
    BY <2>1, <2>2
<1>7. FullListsAll'
  BY <1>2 DEF FullListsAll, ListsAll, HasTables, NoPoll
<1> QED
  BY <1>6, <1>7 DEF CopiesFresh

LEMMA ApplyStep ==
    ASSUME IInv, NEW p \in Poll, ApplyOverDrafts(p)
    PROVE  IInv'
<1> USE DEF ApplyOverDrafts, Apply, Resupply, IInv, EditsTypeOK
<1> DEFINE a == poll[p]
<1>1. /\ a \in PollSet /\ a.phase = "answered" /\ a.full \in BOOLEAN
      /\ a.since \in Time /\ a.at \in Time /\ a.tables \in SUBSET Table
      /\ a.data \in [Table -> [Row -> Content]]
      /\ UpTo(a, now)
      /\ \A e \in Edit : writer[e].active => UpTo(a, writer[e].at)
      /\ a.full => a.tables = Table
  BY PollFacts, PollTypes DEF PollSet, HasTime, HasTables, ListsAll
<1>2. \A q \in Poll : poll'[q] = IF q = p THEN NoPoll ELSE poll[q]
  BY DEF TypeOK
<1>3. \A e \in Edit :
        /\ edit'[e] = IF e \in Gone(p) THEN [edit[e] EXCEPT !.attached = FALSE] ELSE edit[e]
        /\ e \in Gone(p) => edit[e].phase \in {"asked", "confirmed"} /\ edit[e].table \in a.tables
  BY DEF Gone, Models
<1>4. edit' \in [Edit -> AnEdit]
  BY <1>3, DetachedType
<1>5. TypeOK'
  <2>1. col' \in [Table -> [Row -> Content]]
    BY <1>1 DEF TypeOK
  <2>2. poll' \in [Poll -> PollSet]
    BY DEF TypeOK, PollSet
  <2>3. lost' \in SUBSET Table
    BY <1>1 DEF LostBy, TypeOK
  <2> QED
    BY <1>1, <2>1, <2>2, <2>3 DEF TypeOK, PollSet, server
<1>6. EditsTypeOK'
  BY <1>4, <1>5
<1>7. Clocks'
  BY <1>1, <1>2 DEF Clocks, ReadUpTo, UpTo, HasTime, NoPoll, server
<1>8. OwnFlushes'
  <2> SUFFICES ASSUME NEW e \in Edit, writer'[e].active
               PROVE  /\ edit'[e].phase = "asked" /\ edit'[e].kind # "fetch"
                      /\ writer'[e].table = edit'[e].table /\ ReadUpTo(writer[e].at)'
    BY DEF OwnFlushes
  <2>1. /\ edit[e].phase = "asked" /\ edit[e].kind # "fetch"
        /\ writer[e].table = edit[e].table /\ ReadUpTo(writer[e].at)
    BY DEF OwnFlushes
  <2>2. /\ edit'[e].phase = "asked" /\ edit'[e].kind # "fetch"
        /\ edit'[e].table = edit[e].table
    <3>1. edit[e] \in [phase : {"asked"}, kind : Kind, table : Table, row : Row \cup {NewRow},
                       attached : BOOLEAN]
      BY <2>1, EditFacts DEF AnEdit, NoEdit
    <3> QED
      BY <1>3, <2>1, <3>1
  <2>3. ReadUpTo(writer[e].at)'
    BY <1>1, <1>2, <2>1 DEF ReadUpTo, UpTo, HasTime, NoPoll
  <2> QED
    BY <2>1, <2>2, <2>3
<1>9. CopiesFresh' /\ FullListsAll'
  BY ApplyCopies
<1>10. DraftsSupplied'
  <2> SUFFICES ASSUME user' = "in", NEW d \in draft' \ refused', ~ Unserved(d)',
                      d[1] \notin lost'
               PROVE  ~ PassedBy(d[1], stamp[d[1]])'
    BY DEF DraftsSupplied
  <2>1. d \in draft \ refused /\ d[1] \in Table \ a.tables
    BY DEF Place
  <2>2. user = "in" /\ ~ a.full
    BY <1>1, <2>1
  <2>3. d[1] \notin lost
    BY <2>1 DEF LostBy
  <2>4. ~ Unserved(d)
    <3> SUFFICES ASSUME NEW e \in Edit, edit[e].phase = "asked", d \in Drafted(e)
                 PROVE  FALSE
      BY DEF Unserved
    <3>1. edit[e].table = d[1]
      BY DEF Drafted, Target
    <3>2. edit'[e] = edit[e]
      BY <1>3, <2>1, <3>1
    <3> QED
      BY <3>2 DEF Unserved, Drafted, Target
  <2>5. ~ PassedBy(d[1], stamp[d[1]])
    BY <2>1, <2>2, <2>3, <2>4 DEF DraftsSupplied
  <2>6. ~ a.at > stamp[d[1]]
    BY <1>1, <2>1, <2>5 DEF PassedBy, Misses
  <2> QED
    BY <1>2, <2>5, <2>6 DEF PassedBy, Misses, NoPoll, server
<1> QED
  BY <1>6, <1>7, <1>8, <1>9, <1>10

LEMMA LogoutStep ==
    ASSUME IInv, LogoutWithDrafts
    PROVE  IInv'
<1> USE DEF LogoutWithDrafts, Logout, Resupply, IInv, EditsTypeOK
<1>1. \A e \in Edit :
        /\ edit'[e] = IF e \in Models(Table) THEN [edit[e] EXCEPT !.attached = FALSE] ELSE edit[e]
        /\ e \in Models(Table) => edit[e].phase \in {"asked", "confirmed"}
  BY DEF Models
<1>2. edit' \in [Edit -> AnEdit]
  BY <1>1, DetachedType
<1>3. EditsTypeOK'
  BY <1>2 DEF TypeOK, server, Empty, New, Content
<1>4. Clocks'
  BY DEF Clocks, ReadUpTo, UpTo, HasTime, server
<1>5. OwnFlushes'
  <2> SUFFICES ASSUME NEW e \in Edit, writer'[e].active
               PROVE  /\ edit'[e].phase = "asked" /\ edit'[e].kind # "fetch"
                      /\ writer'[e].table = edit'[e].table /\ ReadUpTo(writer[e].at)'
    BY DEF OwnFlushes
  <2>1. /\ edit[e].phase = "asked" /\ edit[e].kind # "fetch"
        /\ writer[e].table = edit[e].table /\ ReadUpTo(writer[e].at)
    BY DEF OwnFlushes
  <2>2. edit[e] \in [phase : {"asked"}, kind : Kind, table : Table, row : Row \cup {NewRow},
                     attached : BOOLEAN]
    BY <2>1, EditFacts DEF AnEdit, NoEdit
  <2>3. ReadUpTo(writer[e].at)'
    BY <2>1 DEF ReadUpTo, UpTo, HasTime
  <2> QED
    BY <1>1, <2>1, <2>2, <2>3
<1>6. CopiesFresh' /\ FullListsAll' /\ DraftsSupplied'
  BY DEF CopiesFresh, FullListsAll, ListsAll, HasTables, DraftsSupplied, CollectionFresh,
         PollFresh, AnswerFresh, QuestionFresh, OmissionFresh, Fresh, View, server
<1> QED
  BY <1>3, <1>4, <1>5, <1>6

\* What a client asks for that has ts.
Question == [phase |-> "asked", full |-> FALSE, since |-> ts]

\* A copy of table t is taken over that is the table, or will be supplied; some polls
\* may be begun as well.
LEMMA ReplaceCopies ==
    ASSUME IInv, NEW t \in Table, NEW c, Replace(t, c) \/ UNCHANGED <<col, lost>>,
           UNCHANGED <<server, user, ts>>,
           \A q \in Poll : poll'[q] = poll[q] \/ poll'[q] = Question
    PROVE  CopiesFresh' /\ FullListsAll' /\ lost \subseteq lost' /\ lost' \subseteq Table
<1> USE DEF Replace, IInv, EditsTypeOK
<1>1. \A u \in Table : View(u)' = View(u) /\ stamp'[u] = stamp[u]
  BY DEF View, server
<1>2. ASSUME NEW u \in Table \ lost'
      PROVE  col'[u] = col[u] \/ col'[u] = View(u) \/ ~ PassedBy(u, stamp[u])
  <2>1. \/ col'[u] = col[u]
        \/ u = t /\ col'[u] = c /\ t \notin lost'
    BY DEF TypeOK
  <2> QED
    BY <2>1 DEF Outdated
<1>3. ASSUME NEW u \in Table \ lost'
      PROVE  CollectionFresh(u)' /\ \A q \in Poll : PollFresh(u, poll[q])'
  <2>1. CollectionFresh(u) /\ \A q \in Poll : PollFresh(u, poll[q])
    BY DEF CopiesFresh
  <2>2. stamp[u] \in Int /\ ts \in Int
    BY SyncBoundsAssumption DEF TypeOK, Time
  <2>3. ~ PassedBy(u, stamp[u]) => ts <= stamp[u]
    BY <2>2 DEF PassedBy
  <2>4. CollectionFresh(u)'
    BY <1>1, <1>2, <2>1, <2>3 DEF CollectionFresh, Fresh
  <2>5. ASSUME NEW q \in Poll
        PROVE  PollFresh(u, poll[q])'
    <3>1. CASE poll'[q] = Question
      BY <2>4, <3>1
      DEF Question, CollectionFresh, PollFresh, AnswerFresh, QuestionFresh, OmissionFresh,
          Fresh, HasTables
    <3>2. CASE poll'[q] = poll[q]
      <4>1. /\ poll[q].phase # "none" => poll[q].since \in Int
            /\ HasTables(poll[q]) => poll[q].at \in Int
        BY PollFacts, PollTypes, SyncBoundsAssumption DEF PollSet, Time, HasTime, HasTables
      <4>2. ~ PassedBy(u, stamp[u]) => ~ Misses(poll[q], u, stamp[u])
        BY DEF PassedBy
      <4>3. AnswerFresh(u, poll[q])'
        BY <1>1, <2>1, <3>2 DEF PollFresh, AnswerFresh, Fresh
      <4>4. QuestionFresh(u, poll[q])'
        BY <1>1, <1>2, <2>1, <2>2, <3>2, <4>1, <4>2 DEF PollFresh, QuestionFresh, Fresh, Misses
      <4>5. OmissionFresh(u, poll[q])'
        BY <1>1, <1>2, <2>1, <2>2, <3>2, <4>1, <4>2
        DEF PollFresh, OmissionFresh, Fresh, Misses, HasTables
      <4> QED
        BY <4>3, <4>4, <4>5 DEF PollFresh
    <3> QED
      BY <3>1, <3>2
  <2> QED
    BY <2>4, <2>5
<1>4. FullListsAll' /\ lost \subseteq lost' /\ lost' \subseteq Table
  BY DEF FullListsAll, ListsAll, HasTables, TypeOK, Question
<1> QED
  BY <1>3, <1>4 DEF CopiesFresh

LEMMA FetchDoneStep ==
    ASSUME IInv, NEW e \in Edit, FetchDone(e)
    PROVE  IInv'
<1> USE DEF FetchDone, Resupply, IInv, EditsTypeOK
<1> DEFINE t == edit[e].table
           rest == [edit EXCEPT ![e] = NoEdit]
<1>1. t \in Table /\ edit[e].data \in [Row -> Content] /\ ~ writer[e].active
  BY EditFacts, EditTypes
<1>2. \A v \in Edit :
        /\ edit'[v] = IF v \in Models({t}) THEN [rest[v] EXCEPT !.attached = FALSE] ELSE rest[v]
        /\ v \in Models({t}) => /\ v # e /\ edit[v].phase \in {"asked", "confirmed"}
                                /\ edit[v].table = t
  BY DEF Models
<1>3. edit' \in [Edit -> AnEdit]
  <2>1. \A v \in Edit : rest[v] = IF v = e THEN NoEdit ELSE edit[v]
    OBVIOUS
  <2>2. NoEdit \in AnEdit
    BY DEF AnEdit
  <2> QED
    BY <1>2, <2>1, <2>2, DetachedType
<1>4. CopiesFresh' /\ FullListsAll' /\ lost \subseteq lost' /\ lost' \subseteq Table
  BY <1>1, ReplaceCopies
<1>5. EditsTypeOK'
  <2>1. col' \in [Table -> [Row -> Content]]
    BY <1>1 DEF Replace, TypeOK
  <2> QED
    BY <1>3, <1>4, <2>1 DEF TypeOK, server
<1>6. Clocks'
  BY DEF Clocks, ReadUpTo, UpTo, HasTime, server
<1>7. OwnFlushes'
  <2> SUFFICES ASSUME NEW v \in Edit, writer'[v].active
               PROVE  /\ edit'[v].phase = "asked" /\ edit'[v].kind # "fetch"
                      /\ writer'[v].table = edit'[v].table /\ ReadUpTo(writer[v].at)'
    BY DEF OwnFlushes
  <2>1. /\ edit[v].phase = "asked" /\ edit[v].kind # "fetch"
        /\ writer[v].table = edit[v].table /\ ReadUpTo(writer[v].at)
    BY DEF OwnFlushes
  <2>2. edit[v] \in [phase : {"asked"}, kind : Kind, table : Table, row : Row \cup {NewRow},
                     attached : BOOLEAN]
    BY <2>1, EditFacts DEF AnEdit, NoEdit
  <2>3. v # e /\ rest[v] = edit[v]
    BY <1>1
  <2>4. ReadUpTo(writer[v].at)'
    BY <2>1 DEF ReadUpTo, UpTo, HasTime
  <2> QED
    BY <1>2, <2>1, <2>2, <2>3, <2>4
<1>8. DraftsSupplied'
  <2> SUFFICES ASSUME user' = "in", NEW d \in draft' \ refused', ~ Unserved(d)',
                      d[1] \notin lost'
               PROVE  ~ PassedBy(d[1], stamp[d[1]])'
    BY DEF DraftsSupplied
  <2>1. d \in draft \ refused /\ d[1] # t
    OBVIOUS
  <2>2. ~ Unserved(d)
    <3> SUFFICES ASSUME NEW v \in Edit, edit[v].phase = "asked", d \in Drafted(v)
                 PROVE  FALSE
      BY DEF Unserved
    <3>1. edit[v].table = d[1]
      BY DEF Drafted, Target
    <3>2. edit'[v] = edit[v]
      BY <1>2, <2>1, <3>1
    <3> QED
      BY <3>2 DEF Unserved, Drafted, Target
  <2> QED
    BY <1>4, <2>1, <2>2 DEF DraftsSupplied, PassedBy, server
<1> QED
  BY <1>4, <1>5, <1>6, <1>7, <1>8

LEMMA ConfirmStep ==
    ASSUME IInv, NEW e \in Edit, Confirm(e)
    PROVE  IInv'
<1> USE DEF Confirm, IInv, EditsTypeOK
<1> DEFINE t == edit[e].table
           c == [col[t] EXCEPT ![edit[e].row] = edit[e].content]
<1>1. /\ t \in Table /\ edit[e].row \in Row /\ edit[e].content \in Content
      /\ ~ writer[e].active
  BY EditFacts, EditTypes
<1>2. \A q \in Poll : poll'[q] = poll[q] \/ poll'[q] = Question
  BY DEF FetchesAfter, TypeOK, Question
<1>3. CopiesFresh' /\ FullListsAll' /\ lost \subseteq lost' /\ lost' \subseteq Table
  BY <1>1, <1>2, ReplaceCopies
<1>4. EditsTypeOK'
  <2>1. col' \in [Table -> [Row -> Content]]
    <3>1. c \in [Row -> Content] /\ col \in [Table -> [Row -> Content]]
      BY <1>1 DEF TypeOK
    <3>2. col' = col \/ col' = [col EXCEPT ![t] = c]
      BY DEF Replace
    <3> QED
      BY <1>1, <3>1, <3>2
  <2>2. poll' \in [Poll -> PollSet]
    <3>1. Question \in PollSet /\ poll \in [Poll -> PollSet]
      BY DEF Question, TypeOK, PollSet, Asked
    <3>2. poll' = poll \/ \E p \in Poll : poll' = [poll EXCEPT ![p] = Question]
      BY DEF FetchesAfter, Question
    <3> QED
      BY <3>1, <3>2
  <2>3. edit' \in [Edit -> AnEdit]
    BY DEF AnEdit
  <2>4. draft' \in SUBSET Place /\ refused' \in SUBSET draft'
    BY DEF drafts
  <2> QED
    BY <1>3, <2>1, <2>2, <2>3, <2>4 DEF TypeOK, PollSet, server
<1>5. \A x : ReadUpTo(x) => ReadUpTo(x)'
  BY <1>2 DEF ReadUpTo, UpTo, HasTime, Question
<1>6. Clocks'
  BY <1>5 DEF Clocks, server
<1>7. OwnFlushes'
  BY <1>1, <1>5 DEF OwnFlushes
<1>8. DraftsSupplied'
  <2> SUFFICES ASSUME user' = "in", NEW d \in draft' \ refused', ~ Unserved(d)',
                      d[1] \notin lost'
               PROVE  ~ PassedBy(d[1], stamp[d[1]])'
    BY DEF DraftsSupplied
  <2>1. d \in draft \ refused /\ d[1] \in Table
    BY DEF drafts, Place
  <2>2. ~ Unserved(d)
    BY EditKept
  <2>3. ~ PassedBy(d[1], stamp[d[1]])
    BY <1>3, <2>1, <2>2 DEF DraftsSupplied
  <2> QED
    BY <1>2, <2>3 DEF PassedBy, Misses, Question, server
<1> QED
  BY <1>3, <1>4, <1>6, <1>7, <1>8

-----------------------------------------------------------------------------
(* The theorems. *)

LEMMA InitIInv == EditsInit => IInv
<1> SUFFICES ASSUME EditsInit
             PROVE  IInv
  OBVIOUS
<1> USE DEF EditsInit, Init
<1>1. 0 \in Time /\ 0 \in 0..MaxWrites /\ 0 \in 0..MaxEdits
  BY SyncBoundsAssumption, EditsAssumption DEF Time
<1>2. EditsTypeOK
  BY <1>1 DEF EditsTypeOK, TypeOK, Flush, AnEdit, Empty, New, Content
<1>3. Clocks /\ OwnFlushes
  BY <1>1, EditsAssumption
  DEF Clocks, OwnFlushes, ReadUpTo, UpTo, HasTime, NoPoll, NoFlush, Time
<1>4. FullListsAll
  BY DEF FullListsAll, ListsAll, HasTables, NoPoll
<1>5. CopiesFresh
  BY DEF CopiesFresh, CollectionFresh, PollFresh, AnswerFresh, QuestionFresh, OmissionFresh,
         HasTables, NoPoll
<1>6. DraftsSupplied
  BY DEF DraftsSupplied
<1> QED
  BY <1>2, <1>3, <1>4, <1>5, <1>6 DEF IInv

LEMMA NextIInv == IInv /\ [EditsNext]_allVars => IInv'
<1> SUFFICES ASSUME IInv, [EditsNext]_allVars
             PROVE  IInv'
  OBVIOUS
<1>1. CASE BesideEdits /\ UNCHANGED edits
  <2>1. CASE Tick
    BY <1>1, <2>1, TickStep
  <2>2. CASE WriteOfOthers
    BY <1>1, <2>2, CommitStep, BeginFlushStep DEF WriteOfOthers
  <2>3. CASE ServePolls
    BY <1>1, <2>3, BeginPollStep, ListTablesStep, ReadTablesStep DEF ServePolls
  <2>4. ASSUME NEW p \in Poll, (Login(p) /\ OwnIdle) \/ FetchUpdates(p) \/ LosePoll(p)
        PROVE  IInv'
    BY <1>1, <2>4, LoginStep, FetchUpdatesStep, LosePollStep
  <2>5. CASE EndSession
    BY <1>1, <2>5, EndSessionStep
  <2> QED
    BY <1>1, <2>1, <2>2, <2>3, <2>4, <2>5 DEF BesideEdits
<1>2. ASSUME NEW p \in Poll, ApplyOverDrafts(p)
      PROVE  IInv'
  BY <1>2, ApplyStep
<1>3. CASE LogoutWithDrafts
  BY <1>3, LogoutStep
<1>4. ASSUME NEW e \in Edit, EditStep(e)
      PROVE  IInv'
  <2>1. ASSUME NEW k \in Kind, NEW t \in Table, NEW r \in Row \cup {NewRow}, Ask(e, k, t, r)
        PROVE  IInv'
    BY <2>1, AskStep
  <2>2. CASE BeginEdit(e)
    BY <2>2, BeginEditStep
  <2>3. CASE CommitEdit(e)
    BY <2>3, CommitEditStep
  <2>4. CASE ReadCollection(e)
    BY <2>4, ReadCollectionStep
  <2>5. CASE Refuse(e)
    BY <2>5, RefuseStep
  <2>6. CASE LoseAnswer(e)
    BY <2>6, LoseAnswerStep
  <2>7. CASE Confirm(e)
    BY <2>7, ConfirmStep
  <2>8. CASE FetchDone(e)
    BY <2>8, FetchDoneStep
  <2> QED
    BY <1>4, <2>1, <2>2, <2>3, <2>4, <2>5, <2>6, <2>7, <2>8 DEF EditStep
<1>5. CASE UNCHANGED allVars
  <2>1. EditsTypeOK' /\ Clocks' /\ OwnFlushes'
    BY <1>5 DEF IInv, EditsTypeOK, TypeOK, Clocks, OwnFlushes, ReadUpTo, UpTo, HasTime,
                allVars, vars, edits, drafts
  <2>2. DraftsSupplied'
    BY <1>5, DraftsKept DEF Unserved, Drafted, Target, allVars, vars, edits, drafts, server
  <2> QED
    BY <1>5, <2>1, <2>2, CopiesKept DEF IInv, allVars, vars, server
<1> QED
  BY <1>1, <1>2, <1>3, <1>4, <1>5 DEF EditsNext, SyncStep

LEMMA InvariantHolds == EditsSpec => []IInv
  BY InitIInv, NextIInv, PTL DEF EditsSpec

\* Every state of the clients and the server is well typed.
THEOREM TypeCorrect == EditsSpec => []EditsTypeOK
<1>1. IInv => EditsTypeOK
  BY DEF IInv
<1> QED
  BY <1>1, InvariantHolds, PTL

\* State.php and fetchUpdates: what a client lacks its next poll will supply.
THEOREM NothingIsMissed == EditsSpec => []NothingMissed
<1>1. IInv => NothingMissed
  BY DEF IInv, CopiesFresh, CollectionFresh, Fresh, NothingMissed
<1> QED
  BY <1>1, InvariantHolds, PTL

\* Backbone's save and create show a change before the server has agreed: it is then
\* confirmed, on its way, known to be refused, or replaced by the next poll.
THEOREM DraftsHold == EditsSpec => []DraftsAreAccountedFor
<1>1. IInv => DraftsAreAccountedFor
  <2> SUFFICES ASSUME IInv, user = "in", NEW d \in draft
               PROVE  InFlight(d) \/ d \in refused \/ d[1] \in lost \/ stamp[d[1]] >= ts
    BY DEF DraftsAreAccountedFor
  <2>1. d[1] \in Table
    BY DEF IInv, EditsTypeOK, Place
  <2>2. stamp[d[1]] \in Int /\ ts \in Int
    BY <2>1, SyncBoundsAssumption DEF IInv, EditsTypeOK, TypeOK, Time
  <2> QED
    BY <2>2 DEF IInv, DraftsSupplied, Unserved, InFlight, PassedBy
<1> QED
  BY <1>1, InvariantHolds, PTL

=============================================================================
