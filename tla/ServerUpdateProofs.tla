------------------------- MODULE ServerUpdateProofs -------------------------
(***************************************************************************)
(* Proofs of the safety properties of ServerUpdate, for any number of      *)
(* requests, users and passwords and any bounds.                           *)
(*                                                                         *)
(* That users can log in once the configuration says that the update is    *)
(* complete is not inductive: requests that read the configuration before  *)
(* may write it afterwards, so it is stated of all that says or may yet    *)
(* say so (CompleteMeansMigrated), and it rests on every undisturbed user  *)
(* being on one of the two sides of the migration (OnEitherSide) and on    *)
(* what the requests under way have read (RequestsRead).                   *)
(***************************************************************************)
EXTENDS ServerUpdateProps, FiniteSetTheorems, TLAPS

USE KnownAssumption, UpdateBoundsAssumption

\* The configuration is truncated only while the worker writes it, or was killed then.
ConfigThere == version = "empty" => worker \in {"down", "writing"}

\* Every job stands for a request to update: no job comes from nowhere.
Asking == {c \in Client : request[c].does \in {"post", "mark", "put"}}

JobsAccounted ==
    /\ IsFiniteSet(Asking)
    /\ Cardinality(Asking) + tube + (IF held THEN 1 ELSE 0) <= posts

\* What a request has read of a user, and that it could.
RequestsRead ==
    \A c \in Client :
        /\ request[c].does \in {"login", "change"} => columns
        /\ request[c].does = "login" => request[c].row.legacy = Sha1(request[c].given)

Unmigrated(u) == password[u] = Sha1(secret[u]) /\ legacy[u] = Nothing
Migrated(u) ==
    /\ columns
    /\ \/ legacy[u] = Sha1(secret[u]) /\ password[u] = Nothing
       \/ legacy[u] = Nothing /\ password[u] = Bcrypt(secret[u])

\* Between the steps of the migration each user is on one of its two sides.
OnEitherSide == \A u \in User \ disturbed : Unmigrated(u) \/ Migrated(u)

\* The configuration says that the update is complete, is about to, or may yet be made
\* to by a request that has read so.
SaysComplete ==
    \/ version = "new"
    \/ worker \in {"write", "writing"}
    \/ \E c \in Client : request[c].does = "save" /\ request[c].version = "new"

CompleteMeansMigrated ==
    SaysComplete /\ ~ failed => \A u \in User \ disturbed : Migrated(u)

IInv ==
    /\ TypeOK
    /\ ConfigThere
    /\ JobsAccounted
    /\ RequestsRead
    /\ OnEitherSide
    /\ CompleteMeansMigrated
    /\ MigrationIsAnnounced

-----------------------------------------------------------------------------
(***************************************************************************)
(* Lemmas about requests and hashes.                                       *)
(***************************************************************************)

\* What a request carries, by what it does.
LEMMA RequestKinds ==
    ASSUME TypeOK, NEW c \in Client
    PROVE  /\ request[c].does = "save" => request[c].version \in {"old", "new"}
           /\ request[c].does \in {"login", "change"} =>
                /\ request[c].user \in User
                /\ request[c].given \in Secret
                /\ request[c].row \in Row
<1>1. request[c] \in Request
  BY DEF TypeOK
<1>. QED  BY <1>1 DEF Request, Idle

\* A step of one request leaves the others alone.
LEMMA Continued ==
    ASSUME TypeOK, NEW c \in Client, NEW r, Continues(c, r)
    PROVE  /\ request'[c] = r
           /\ \A d \in Client : d # c => request'[d] = request[d]
           /\ r \in Request => request' \in [Client -> Request]
BY DEF TypeOK, Continues

\* A hash tells its scheme and its password apart from any other.
LEMMA Hashes ==
    ASSUME NEW s \in Secret
    PROVE  /\ Sha1(s) \in Hash /\ Bcrypt(s) \in Hash
           /\ Sha1(s) # Nothing /\ Bcrypt(s) # Nothing /\ Sha1(s) # Bcrypt(s)
           /\ Sha1(s).scheme = "sha1" /\ Bcrypt(s).scheme = "bcrypt" /\ Nothing.scheme = "none"
           /\ \A r \in Secret : (Sha1(r) = Sha1(s) <=> r = s) /\ (Bcrypt(r) = Bcrypt(s) <=> r = s)
<1>1. Sha1(s).scheme = "sha1" /\ Bcrypt(s).scheme = "bcrypt" /\ Nothing.scheme = "none"
  BY DEF Sha1, Bcrypt, Nothing
<1>2. \A r \in Secret : Sha1(r).of = r /\ Bcrypt(r).of = r
  BY DEF Sha1, Bcrypt
<1>. QED  BY <1>1, <1>2 DEF Hash, Sha1, Bcrypt

\* The steps of one request.
RequestOf(c) ==
    \/ RequestUpdate(c) \/ CheckMarker(c) \/ CreateMarker(c)
    \/ PutUpdateJob(c) \/ PutFails(c)
    \/ ReadSettings(c) \/ SaveSettings(c)
    \/ UpgradeScheme(c) \/ ChangePassword(c)
    \/ \E u \in User, s \in Secret : Login(c, u, s) \/ Change(c, u, s)

LEMMA RequestsAreOfClients == Requests <=> \E c \in Client : RequestOf(c)
BY DEF Requests, RequestOf


-----------------------------------------------------------------------------
\* How many requests are about to put a job.
LEMMA AskingCounts ==
    ASSUME IInv
    PROVE  /\ Cardinality(Asking) \in Nat
           /\ Cardinality(Asking) + tube <= posts
           /\ held => Cardinality(Asking) + tube + 1 <= posts
           /\ \A c \in Asking : Cardinality(Asking) >= 1
<1>1. IsFiniteSet(Asking) /\ tube \in Nat /\ posts \in Nat
  BY DEF IInv, JobsAccounted, TypeOK
<1>2. Cardinality(Asking) \in Nat
  BY <1>1, FS_CardinalityType
<1>3. Asking # {} => Cardinality(Asking) # 0
  BY <1>1, FS_EmptySet
<1>. QED  BY <1>1, <1>2, <1>3 DEF IInv, JobsAccounted

\* A step of a request adds it to those that will put a job, or removes it.
LEMMA AskingSteps ==
    ASSUME TypeOK, NEW c \in Client, NEW r, Continues(c, r)
    PROVE  /\ r.does \in {"post", "mark", "put"} => Asking' = Asking \cup {c}
           /\ r.does \notin {"post", "mark", "put"} => Asking' = Asking \ {c}
BY Continued DEF Asking


(***************************************************************************)
(* Type correctness.  That the tube never holds more jobs than updates     *)
(* were requested needs JobsAccounted.                                     *)
(***************************************************************************)

\* Each request continues as one of its kinds.
LEMMA RequestType ==
    ASSUME TypeOK, NEW c \in Client, RequestOf(c)
    PROVE  request' \in [Client -> Request]
<1>. SUFFICES \E r \in Request : Continues(c, r)
  BY DEF Continues, TypeOK
<1>1. Idle \in Request /\ \A k \in {"post", "mark", "put"} : [does |-> k] \in Request
  BY DEF Request, Idle
<1>2. CASE RequestUpdate(c) \/ CheckMarker(c) \/ CreateMarker(c)
  BY <1>1, <1>2 DEF RequestUpdate, CheckMarker, CreateMarker
<1>3. CASE PutUpdateJob(c) \/ PutFails(c) \/ SaveSettings(c)
  BY <1>1, <1>3 DEF PutUpdateJob, PutFails, SaveSettings
<1>4. CASE UpgradeScheme(c) \/ ChangePassword(c)
  BY <1>1, <1>4 DEF UpgradeScheme, ChangePassword, Writes
<1>5. CASE ReadSettings(c)
  <2>1. [does |-> "save", version |-> version] \in Request
    BY <1>5 DEF ReadSettings, Begins, TypeOK, Request
  <2>. QED  BY <1>5, <2>1 DEF ReadSettings
<1>6. ASSUME NEW u \in User, NEW s \in Secret, NEW k \in {"login", "change"}, Reads(c, k, u, s)
      PROVE  \E r \in Request : Continues(c, r)
  <2>1. RowOf(u) \in Row
    BY DEF TypeOK, RowOf, Row
  <2>2. [does |-> k, user |-> u, given |-> s, row |-> RowOf(u)] \in Request
    BY <2>1 DEF Request
  <2>. QED  BY <1>6, <2>2 DEF Reads
<1>. QED
  BY <1>2, <1>3, <1>4, <1>5, <1>6 DEF RequestOf, Login, Change

\* A write of credentials writes a hash.
LEMMA WritesType ==
    ASSUME TypeOK, NEW c \in Client, Writes(c), request[c].does \in {"login", "change"}
    PROVE  /\ password' \in [User -> Hash \cup {Nothing}]
           /\ disturbed' \in SUBSET User
<1>1. request[c].user \in User /\ request[c].given \in Secret
  BY RequestKinds
<1>2. Bcrypt(request[c].given) \in Hash
  BY <1>1, Hashes
<1>3. disturbed' \in {disturbed, disturbed \cup {request[c].user}, disturbed \ {request[c].user}}
  BY DEF Writes
<1>. QED  BY <1>1, <1>2, <1>3 DEF Writes, TypeOK

LEMMA TypeOKRequests ==
    ASSUME IInv, NEW c \in Client, RequestOf(c)
    PROVE  TypeOK'
<1>. USE RequestType DEF IInv
<1>0. tube \in Nat /\ posts \in 0..MaxPosts
  BY DEF TypeOK
<1>1. CASE RequestUpdate(c)
  BY <1>1 DEF RequestUpdate, TypeOK, files, accounts, jobs, ghosts
<1>2. CASE CheckMarker(c)
  BY <1>2 DEF CheckMarker, TypeOK, files, accounts, jobs, counts, ghosts
<1>3. CASE CreateMarker(c)
  <2>1. marker' \in BOOLEAN
    BY <1>3 DEF CreateMarker
  <2>2. UNCHANGED <<version, accounts, jobs, worker, seen, counts, ghosts>>
    BY <1>3 DEF CreateMarker
  <2>. QED  BY <2>1, <2>2 DEF TypeOK, accounts, jobs, counts, ghosts
<1>4. CASE PutUpdateJob(c)
  <2>1. tube' \in 0..MaxPosts
    BY <1>0, <1>4, AskingCounts DEF PutUpdateJob, Asking
  <2>2. UNCHANGED <<files, accounts, held, worker, seen, counts, ghosts>>
    BY <1>4 DEF PutUpdateJob
  <2>. QED  BY <2>1, <2>2 DEF TypeOK, files, accounts, counts, ghosts
<1>5. CASE PutFails(c)
  <2>1. losses' \in 0..MaxFailures
    BY <1>5 DEF PutFails, TypeOK
  <2>2. UNCHANGED <<files, accounts, jobs, worker, seen, posts, saves, crashes, ghosts>>
    BY <1>5 DEF PutFails
  <2>. QED  BY <2>1, <2>2 DEF TypeOK, files, accounts, jobs, ghosts
<1>6. CASE ReadSettings(c)
  <2>1. saves' \in 0..MaxSaves
    BY <1>6 DEF ReadSettings, TypeOK
  <2>2. UNCHANGED <<files, accounts, jobs, worker, seen, posts, crashes, losses, ghosts>>
    BY <1>6 DEF ReadSettings
  <2>. QED  BY <2>1, <2>2 DEF TypeOK, files, accounts, jobs, ghosts
<1>7. CASE SaveSettings(c)
  <2>1. version' \in {"old", "new"}
    BY <1>7, RequestKinds DEF SaveSettings
  <2>2. reverted' \in BOOLEAN
    BY <1>7 DEF SaveSettings
  <2>3. UNCHANGED <<marker, accounts, jobs, worker, seen, counts, failed, disturbed>>
    BY <1>7 DEF SaveSettings
  <2>. QED  BY <2>1, <2>2, <2>3 DEF TypeOK, accounts, jobs, counts
<1>8. CASE UpgradeScheme(c)
  <2>1. request[c].does = "login" /\ Writes(c)
    BY <1>8 DEF UpgradeScheme
  <2>2. legacy' \in [User -> Hash \cup {Nothing}]
    BY <1>8 DEF UpgradeScheme, TypeOK
  <2>3. UNCHANGED <<files, columns, secret, jobs, worker, seen, counts, failed, reverted>>
    BY <1>8 DEF UpgradeScheme, Writes
  <2>. QED  BY <2>1, <2>2, <2>3, WritesType DEF TypeOK, files, jobs, counts
<1>9. CASE ChangePassword(c)
  <2>1. request[c].does = "change" /\ Writes(c)
    BY <1>9 DEF ChangePassword
  <2>2. legacy' \in [User -> Hash \cup {Nothing}] /\ secret' \in [User -> Secret]
    BY <1>9, <2>1, RequestKinds DEF ChangePassword, TypeOK
  <2>3. UNCHANGED <<files, columns, jobs, worker, seen, counts, failed, reverted>>
    BY <1>9 DEF ChangePassword, Writes
  <2>. QED  BY <2>1, <2>2, <2>3, WritesType DEF TypeOK, files, jobs, counts
<1>10. CASE \E u \in User, s \in Secret : Login(c, u, s) \/ Change(c, u, s)
  <2>1. UNCHANGED <<files, accounts, jobs, worker, seen, counts, ghosts>>
    BY <1>10 DEF Login, Change
  <2>. QED  BY <2>1 DEF TypeOK, files, accounts, jobs, counts, ghosts
<1>. QED
  BY <1>1, <1>2, <1>3, <1>4, <1>5, <1>6, <1>7, <1>8, <1>9, <1>10 DEF RequestOf

LEMMA TypeOKServer ==
    ASSUME IInv, Worker \/ Crash \/ LoseJobs
    PROVE  TypeOK'
<1>. USE DEF IInv
<1>0. tube \in Nat /\ posts \in 0..MaxPosts /\ held \in BOOLEAN
  BY DEF TypeOK
<1>1. CASE StartWorker
  BY <1>1 DEF StartWorker, TypeOK, files, accounts, jobs, counts, ghosts
<1>2. CASE Reserve
  <2>1. seen' \in {"old", "new"}
    BY <1>2 DEF Reserve, ConfigThere, TypeOK
  <2>2. tube' \in 0..MaxPosts /\ held' \in BOOLEAN
    BY <1>2 DEF Reserve, TypeOK
  <2>3. worker' = "job" /\ UNCHANGED <<files, accounts, request, counts, ghosts>>
    BY <1>2 DEF Reserve
  <2>. QED  BY <2>1, <2>2, <2>3 DEF TypeOK, files, accounts, counts, ghosts
<1>3. CASE NoUpdateNecessary \/ Finish
  <2>1. worker' \in {"ready", "down"} /\ held' \in BOOLEAN
    BY <1>3 DEF NoUpdateNecessary, Finish, DeleteJob
  <2>2. UNCHANGED <<files, accounts, tube, seen, request, counts, ghosts>>
    BY <1>3 DEF NoUpdateNecessary, Finish
  <2>. QED  BY <2>1, <2>2 DEF TypeOK, files, accounts, counts, ghosts
<1>4. CASE BeginMigration
  <2>1. marker' \in BOOLEAN /\ worker' = "alter"
        /\ UNCHANGED <<version, accounts, jobs, seen, request, counts, ghosts>>
    BY <1>4 DEF BeginMigration
  <2>. QED  BY <2>1 DEF TypeOK, Migrating, accounts, jobs, counts, ghosts
<1>5. CASE AlterTables
  <2>1. columns' \in BOOLEAN /\ failed' \in BOOLEAN
    <3>1. (columns' = TRUE \/ columns' = columns) /\ (failed' = failed \/ failed' = TRUE)
      BY <1>5 DEF AlterTables
    <3>. QED  BY <3>1 DEF TypeOK
  <2>2. worker' = "move" /\ UNCHANGED <<files, password, legacy, secret, jobs, seen, request,
                                        counts, reverted, disturbed>>
    BY <1>5 DEF AlterTables
  <2>. QED  BY <2>1, <2>2 DEF TypeOK, Migrating, files, jobs, counts
<1>6. CASE MovePasswords
  <2>1. failed' \in BOOLEAN
    <3>1. failed' = failed \/ failed' = TRUE
      BY <1>6 DEF MovePasswords
    <3>. QED  BY <3>1 DEF TypeOK
  <2>2. /\ legacy' \in [User -> Hash \cup {Nothing}]
        /\ password' \in [User -> Hash \cup {Nothing}]
        /\ disturbed' \in SUBSET User
    BY <1>6 DEF MovePasswords, TypeOK
  <2>3. worker' = "write" /\ UNCHANGED <<files, columns, secret, jobs, seen, request, counts,
                                         reverted>>
    BY <1>6 DEF MovePasswords
  <2>. QED  BY <2>1, <2>2, <2>3 DEF TypeOK, Migrating, files, jobs, counts
<1>7. CASE TruncateConfig \/ WriteConfig
  <2>1. /\ version' \in {"empty", "new"} /\ worker' \in {"writing", "unmark"}
        /\ UNCHANGED <<marker, accounts, jobs, seen, request, counts, ghosts>>
    BY <1>7 DEF TruncateConfig, WriteConfig
  <2>. QED  BY <2>1 DEF TypeOK, Migrating, accounts, jobs, counts, ghosts
<1>8. CASE RemoveMarker
  <2>1. marker' \in BOOLEAN /\ worker' = "delete"
        /\ UNCHANGED <<version, accounts, jobs, seen, request, counts, ghosts>>
    BY <1>8 DEF RemoveMarker
  <2>. QED  BY <2>1 DEF TypeOK, accounts, jobs, counts, ghosts
<1>9. CASE Crash
  <2>1. tube' \in 0..MaxPosts
    BY <1>0, <1>9, AskingCounts DEF Crash
  <2>2. crashes' \in 0..MaxFailures
    BY <1>9 DEF Crash, TypeOK
  <2>3. held' \in BOOLEAN /\ worker' = "down"
        /\ UNCHANGED <<files, accounts, seen, request, posts, saves, losses, ghosts>>
    BY <1>9 DEF Crash
  <2>. QED  BY <2>1, <2>2, <2>3 DEF TypeOK, files, accounts, ghosts
<1>10. CASE LoseJobs
  <2>1. tube' \in 0..MaxPosts /\ losses' \in 0..MaxFailures
    BY <1>10 DEF LoseJobs, TypeOK
  <2>2. held' \in BOOLEAN /\ worker' \in {worker, "down"}
        /\ UNCHANGED <<files, accounts, seen, request, posts, saves, crashes, ghosts>>
    BY <1>10 DEF LoseJobs
  <2>. QED  BY <2>1, <2>2 DEF TypeOK, files, accounts, ghosts
<1>. QED
  BY <1>1, <1>2, <1>3, <1>4, <1>5, <1>6, <1>7, <1>8, <1>9, <1>10 DEF Worker

LEMMA ConfigThereRequests ==
    ASSUME IInv, TypeOK', NEW c \in Client, RequestOf(c)
    PROVE  ConfigThere'
<1>. USE RequestKinds, Continued
     DEF IInv, ConfigThere, Begins, files, accounts, jobs, counts, ghosts
<1>1. CASE RequestUpdate(c)
  BY <1>1 DEF RequestUpdate
<1>2. CASE CheckMarker(c)
  BY <1>2 DEF CheckMarker
<1>3. CASE CreateMarker(c)
  BY <1>3 DEF CreateMarker
<1>4. CASE PutUpdateJob(c)
  BY <1>4 DEF PutUpdateJob
<1>5. CASE PutFails(c)
  BY <1>5 DEF PutFails
<1>6. CASE ReadSettings(c)
  BY <1>6 DEF ReadSettings
<1>7. CASE SaveSettings(c)
  BY <1>7 DEF SaveSettings
<1>8. CASE UpgradeScheme(c)
  BY <1>8 DEF UpgradeScheme, Writes
<1>9. CASE ChangePassword(c)
  BY <1>9 DEF ChangePassword, Writes
<1>10. ASSUME NEW u \in User, NEW s \in Secret, Login(c, u, s) \/ Change(c, u, s)
     PROVE  ConfigThere'
  BY <1>10 DEF Login, Change, Reads
<1>. QED
  BY <1>1, <1>2, <1>3, <1>4, <1>5, <1>6, <1>7, <1>8, <1>9, <1>10 DEF RequestOf

LEMMA ConfigThereServer ==
    ASSUME IInv, TypeOK', Worker \/ Crash \/ LoseJobs
    PROVE  ConfigThere'
<1>. USE RequestKinds, Continued
     DEF IInv, ConfigThere, Begins, files, accounts, jobs, counts, ghosts
<1>1. CASE StartWorker
  BY <1>1 DEF StartWorker
<1>2. CASE Reserve
  BY <1>2 DEF Reserve
<1>3. CASE NoUpdateNecessary
  BY <1>3 DEF NoUpdateNecessary, DeleteJob
<1>4. CASE BeginMigration
  BY <1>4 DEF BeginMigration
<1>5. CASE AlterTables
  BY <1>5 DEF AlterTables
<1>6. CASE MovePasswords
  BY <1>6 DEF MovePasswords
<1>7. CASE TruncateConfig
  BY <1>7 DEF TruncateConfig
<1>8. CASE WriteConfig
  BY <1>8 DEF WriteConfig
<1>9. CASE RemoveMarker
  BY <1>9 DEF RemoveMarker
<1>10. CASE Finish
  BY <1>10 DEF Finish, DeleteJob
<1>11. CASE Crash
  BY <1>11 DEF Crash
<1>12. CASE LoseJobs
  BY <1>12 DEF LoseJobs
<1>. QED
  BY <1>1, <1>2, <1>3, <1>4, <1>5, <1>6, <1>7, <1>8, <1>9, <1>10, <1>11, <1>12 DEF Worker

LEMMA MigrationIsAnnouncedRequests ==
    ASSUME IInv, TypeOK', NEW c \in Client, RequestOf(c)
    PROVE  MigrationIsAnnounced'
<1>. USE DEF IInv, MigrationIsAnnounced, Migrating, files, accounts, jobs, counts, ghosts
<1>1. CASE RequestUpdate(c)
  BY <1>1 DEF RequestUpdate
<1>2. CASE CheckMarker(c)
  BY <1>2 DEF CheckMarker
<1>3. CASE CreateMarker(c)
  BY <1>3 DEF CreateMarker
<1>4. CASE PutUpdateJob(c)
  BY <1>4 DEF PutUpdateJob
<1>5. CASE PutFails(c)
  BY <1>5 DEF PutFails
<1>6. CASE ReadSettings(c)
  BY <1>6 DEF ReadSettings
<1>7. CASE SaveSettings(c)
  BY <1>7 DEF SaveSettings
<1>8. CASE UpgradeScheme(c)
  BY <1>8 DEF UpgradeScheme, Writes
<1>9. CASE ChangePassword(c)
  BY <1>9 DEF ChangePassword, Writes
<1>10. ASSUME NEW u \in User, NEW s \in Secret, Login(c, u, s) \/ Change(c, u, s)
     PROVE  MigrationIsAnnounced'
  BY <1>10 DEF Login, Change, Reads
<1>. QED
  BY <1>1, <1>2, <1>3, <1>4, <1>5, <1>6, <1>7, <1>8, <1>9, <1>10 DEF RequestOf

LEMMA MigrationIsAnnouncedServer ==
    ASSUME IInv, TypeOK', Worker \/ Crash \/ LoseJobs
    PROVE  MigrationIsAnnounced'
<1>. USE DEF IInv, MigrationIsAnnounced, Migrating, files, accounts, jobs, counts, ghosts
<1>1. CASE StartWorker
  BY <1>1 DEF StartWorker
<1>2. CASE Reserve
  BY <1>2 DEF Reserve
<1>3. CASE NoUpdateNecessary
  BY <1>3 DEF NoUpdateNecessary, DeleteJob
<1>4. CASE BeginMigration
  BY <1>4 DEF BeginMigration
<1>5. CASE AlterTables
  BY <1>5 DEF AlterTables
<1>6. CASE MovePasswords
  BY <1>6 DEF MovePasswords
<1>7. CASE TruncateConfig
  BY <1>7 DEF TruncateConfig
<1>8. CASE WriteConfig
  BY <1>8 DEF WriteConfig
<1>9. CASE RemoveMarker
  BY <1>9 DEF RemoveMarker
<1>10. CASE Finish
  BY <1>10 DEF Finish, DeleteJob
<1>11. CASE Crash
  BY <1>11 DEF Crash
<1>12. CASE LoseJobs
  BY <1>12 DEF LoseJobs
<1>. QED
  BY <1>1, <1>2, <1>3, <1>4, <1>5, <1>6, <1>7, <1>8, <1>9, <1>10, <1>11, <1>12 DEF Worker

LEMMA RequestsReadRequests ==
    ASSUME IInv, TypeOK', NEW c \in Client, RequestOf(c)
    PROVE  RequestsRead'
<1>. USE RequestKinds, Continued
     DEF IInv, RequestsRead, Begins, RowOf, Idle, files, accounts, jobs, counts,
          ghosts
<1>1. CASE RequestUpdate(c)
  BY <1>1 DEF RequestUpdate
<1>2. CASE CheckMarker(c)
  BY <1>2 DEF CheckMarker
<1>3. CASE CreateMarker(c)
  BY <1>3 DEF CreateMarker
<1>4. CASE PutUpdateJob(c)
  BY <1>4 DEF PutUpdateJob
<1>5. CASE PutFails(c)
  BY <1>5 DEF PutFails
<1>6. CASE ReadSettings(c)
  BY <1>6 DEF ReadSettings
<1>7. CASE SaveSettings(c)
  BY <1>7 DEF SaveSettings
<1>8. CASE UpgradeScheme(c)
  BY <1>8 DEF UpgradeScheme, Writes
<1>9. CASE ChangePassword(c)
  BY <1>9 DEF ChangePassword, Writes
<1>10. ASSUME NEW u \in User, NEW s \in Secret, Login(c, u, s) \/ Change(c, u, s)
     PROVE  RequestsRead'
  BY <1>10 DEF Login, Change, Reads
<1>. QED
  BY <1>1, <1>2, <1>3, <1>4, <1>5, <1>6, <1>7, <1>8, <1>9, <1>10 DEF RequestOf

LEMMA RequestsReadServer ==
    ASSUME IInv, TypeOK', Worker \/ Crash \/ LoseJobs
    PROVE  RequestsRead'
<1>. USE RequestKinds, Continued
     DEF IInv, RequestsRead, Begins, RowOf, Idle, files, accounts, jobs, counts,
          ghosts
<1>1. CASE StartWorker
  BY <1>1 DEF StartWorker
<1>2. CASE Reserve
  BY <1>2 DEF Reserve
<1>3. CASE NoUpdateNecessary
  BY <1>3 DEF NoUpdateNecessary, DeleteJob
<1>4. CASE BeginMigration
  BY <1>4 DEF BeginMigration
<1>5. CASE AlterTables
  BY <1>5 DEF AlterTables
<1>6. CASE MovePasswords
  BY <1>6 DEF MovePasswords
<1>7. CASE TruncateConfig
  BY <1>7 DEF TruncateConfig
<1>8. CASE WriteConfig
  BY <1>8 DEF WriteConfig
<1>9. CASE RemoveMarker
  BY <1>9 DEF RemoveMarker
<1>10. CASE Finish
  BY <1>10 DEF Finish, DeleteJob
<1>11. CASE Crash
  BY <1>11 DEF Crash
<1>12. CASE LoseJobs
  BY <1>12 DEF LoseJobs
<1>. QED
  BY <1>1, <1>2, <1>3, <1>4, <1>5, <1>6, <1>7, <1>8, <1>9, <1>10, <1>11, <1>12 DEF Worker


-----------------------------------------------------------------------------
(***************************************************************************)
(* Credentials.  A user no step has disturbed is moved from one side of    *)
(* the migration to the other exactly once.                                *)
(***************************************************************************)

\* A write of credentials concerns one user, whom it leaves on the new side.
LEMMA WrittenUser ==
    ASSUME IInv, NEW c \in Client, UpgradeScheme(c) \/ ChangePassword(c),
           NEW u \in User, u \notin disturbed'
    PROVE  /\ columns' = columns /\ failed' = failed
           /\ \/ Migrated(u)'
              \/ /\ u \notin disturbed
                 /\ password'[u] = password[u] /\ legacy'[u] = legacy[u] /\ secret'[u] = secret[u]
<1>. DEFINE w == request[c].user
            g == request[c].given
<1>. USE DEF IInv
<1>1. /\ request[c].does \in {"login", "change"} /\ Writes(c)
      /\ w \in User /\ g \in Secret
      /\ columns
  BY RequestKinds DEF UpgradeScheme, ChangePassword, RequestsRead
<1>2. /\ password' = [password EXCEPT ![w] = Bcrypt(g)]
      /\ columns' = columns /\ failed' = failed
      /\ request[c].row # RowOf(w) => disturbed' = disturbed \cup {w}
      /\ disturbed' \in {disturbed, disturbed \cup {w}, disturbed \ {w}}
      /\ request[c].does = "login" /\ request[c].row = RowOf(w) => disturbed' = disturbed
  BY <1>1 DEF Writes
<1>3. /\ legacy' \in {legacy, [legacy EXCEPT ![w] = Nothing]}
      /\ secret' \in {secret, [secret EXCEPT ![w] = g]}
  BY DEF UpgradeScheme, ChangePassword
<1>4. CASE u # w
  BY <1>2, <1>3, <1>4 DEF TypeOK
<1>5. CASE u = w
  <2>1. request[c].row = RowOf(u) /\ request[c].row.legacy = legacy[u]
    BY <1>2, <1>5 DEF RowOf
  <2>2. password'[u] = Bcrypt(g)
    BY <1>2, <1>5 DEF TypeOK
  <2>3. CASE UpgradeScheme(c)
    <3>1. /\ request[c].does = "login" /\ secret' = secret
          /\ legacy' = [legacy EXCEPT ![w] = Nothing]
      BY <2>3 DEF UpgradeScheme
    <3>2. legacy[u] = Sha1(g) /\ u \notin disturbed
      BY <1>2, <1>5, <2>1, <3>1 DEF RequestsRead
    <3>3. secret[u] \in Secret
      BY DEF TypeOK
    <3>4. g = secret[u]
      BY <1>1, <3>2, <3>3, Hashes DEF OnEitherSide, Unmigrated, Migrated
    <3>. QED  BY <1>1, <1>2, <1>5, <2>2, <3>1, <3>4 DEF Migrated, TypeOK
  <2>4. CASE ChangePassword(c)
    <3>1. secret'[u] = g /\ legacy'[u] = Nothing
      BY <1>1, <1>5, <2>1, <2>4 DEF ChangePassword, TypeOK
    <3>. QED  BY <1>1, <1>2, <2>2, <3>1 DEF Migrated
  <2>. QED  BY <2>3, <2>4
<1>. QED  BY <1>2, <1>4, <1>5

\* The migration moves the users who are on its old side and disturbs the others.
LEMMA MovedUser ==
    ASSUME IInv, MovePasswords, NEW u \in User, u \notin disturbed'
    PROVE  \/ Migrated(u)'
           \/ failed' /\ UNCHANGED <<columns, password, legacy, secret, disturbed>>
<1>. USE DEF IInv
<1>1. CASE failed' /\ UNCHANGED <<legacy, password, disturbed>>
  BY <1>1 DEF MovePasswords
<1>2. CASE /\ columns /\ legacy' = password /\ password' = [v \in User |-> Nothing]
           /\ disturbed' = disturbed \cup {v \in User : password[v].scheme # "sha1"}
  <2>1. u \notin disturbed /\ password[u].scheme = "sha1" /\ secret[u] \in Secret
    BY <1>2 DEF TypeOK
  <2>2. Unmigrated(u)
    BY <2>1, Hashes DEF OnEitherSide, Migrated
  <2>3. columns' = columns /\ secret' = secret
    BY DEF MovePasswords
  <2>. QED  BY <1>2, <2>2, <2>3 DEF Unmigrated, Migrated
<1>. QED  BY <1>1, <1>2 DEF MovePasswords

\* Which steps concern the users at all.
LEMMA UserSteps ==
    ASSUME Next
    PROVE  \/ \E c \in Client : UpgradeScheme(c) \/ ChangePassword(c)
           \/ AlterTables
           \/ MovePasswords
           \/ UNCHANGED <<columns, password, legacy, secret, failed, disturbed>>
<1>1. CASE \E c \in Client : RequestOf(c)
  BY <1>1 DEF RequestOf, RequestUpdate, CheckMarker, CreateMarker, PutUpdateJob, PutFails,
              ReadSettings, SaveSettings, Login, Change, accounts, ghosts
<1>2. CASE Worker
  BY <1>2
  DEF Worker, StartWorker, Reserve, NoUpdateNecessary, BeginMigration, TruncateConfig,
              WriteConfig, RemoveMarker, Finish, accounts, ghosts
<1>3. CASE Crash \/ LoseJobs
  BY <1>3 DEF Crash, LoseJobs, accounts, ghosts
<1>. QED  BY <1>1, <1>2, <1>3, RequestsAreOfClients DEF Next

\* Altering the tables changes no credentials.
LEMMA AlteredUser ==
    ASSUME IInv, AlterTables
    PROVE  /\ UNCHANGED <<password, legacy, secret, disturbed>>
           /\ columns => columns'
           /\ failed => failed'
BY DEF AlterTables

LEMMA OnEitherSideNext ==
    ASSUME IInv, Next
    PROVE  OnEitherSide'
<1>. SUFFICES ASSUME NEW u \in User, u \notin disturbed'
              PROVE  Unmigrated(u)' \/ Migrated(u)'
  BY DEF OnEitherSide
<1>. USE DEF IInv, OnEitherSide
<1>1. ASSUME NEW c \in Client, UpgradeScheme(c) \/ ChangePassword(c)
      PROVE  Unmigrated(u)' \/ Migrated(u)'
  BY <1>1, WrittenUser DEF Unmigrated, Migrated
<1>2. CASE AlterTables
  BY <1>2, AlteredUser DEF Unmigrated, Migrated
<1>3. CASE MovePasswords
  BY <1>3, MovedUser DEF Unmigrated, Migrated
<1>4. CASE UNCHANGED <<columns, password, legacy, secret, failed, disturbed>>
  BY <1>4 DEF Unmigrated, Migrated
<1>. QED  BY <1>1, <1>2, <1>3, <1>4, UserSteps

\* Only with the migration done does anything begin to say that it is.
LEMMA SaysCompleteNext ==
    ASSUME IInv, Next, SaysComplete'
    PROVE  SaysComplete \/ MovePasswords
<1>. USE DEF IInv, SaysComplete
<1>1. ASSUME NEW c \in Client, RequestOf(c)
      PROVE  SaysComplete
  <2>1. UNCHANGED worker
    BY <1>1 DEF RequestOf, RequestUpdate, CheckMarker, CreateMarker, PutUpdateJob, PutFails,
                ReadSettings, SaveSettings, Login, Change, UpgradeScheme, ChangePassword, Writes
  <2>2. CASE SaveSettings(c)
    <3>1. version' = request[c].version /\ request[c].does = "save" /\ Continues(c, Idle)
      BY <2>2 DEF SaveSettings
    <3>2. \A d \in Client : request'[d].does = "save" => request'[d] = request[d]
      BY <3>1, Continued DEF Idle
    <3>. QED  BY <2>1, <3>1, <3>2
  <2>3. CASE ReadSettings(c)
    <3>1. /\ Continues(c, [does |-> "save", version |-> version]) /\ UNCHANGED version
      BY <2>3 DEF ReadSettings, files
    <3>2. \A d \in Client : request'[d] = request[d] \/ request'[d].version = version
      BY <3>1, Continued
    <3>. QED  BY <2>1, <3>1, <3>2
  <2>4. CASE UNCHANGED version /\ \E r : r.does # "save" /\ Continues(c, r)
    <3>1. \A d \in Client : request'[d].does = "save" => request'[d] = request[d]
      BY <2>4, Continued
    <3>. QED  BY <2>1, <2>4, <3>1
  <2>5. \/ SaveSettings(c) \/ ReadSettings(c)
        \/ UNCHANGED version /\ \E r : r.does # "save" /\ Continues(c, r)
    <3>1. CASE RequestUpdate(c) \/ PutUpdateJob(c) \/ PutFails(c)
      BY <3>1 DEF RequestUpdate, PutUpdateJob, PutFails, Idle, files
    <3>2. CASE CheckMarker(c) \/ CreateMarker(c)
      BY <3>2 DEF CheckMarker, CreateMarker, Idle, files
    <3>3. CASE UpgradeScheme(c) \/ ChangePassword(c)
      BY <3>3 DEF UpgradeScheme, ChangePassword, Writes, Idle, files
    <3>4. CASE \E u \in User, s \in Secret : Login(c, u, s) \/ Change(c, u, s)
      BY <3>4 DEF Login, Change, Reads, files
    <3>. QED  BY <1>1, <3>1, <3>2, <3>3, <3>4 DEF RequestOf
  <2>. QED  BY <2>2, <2>3, <2>4, <2>5
<1>2. CASE Worker /\ ~ MovePasswords
  BY <1>2 DEF Worker, StartWorker, Reserve, NoUpdateNecessary, BeginMigration, AlterTables,
              TruncateConfig, WriteConfig, RemoveMarker, Finish, DeleteJob, files
<1>3. CASE Crash \/ LoseJobs
  BY <1>3 DEF Crash, LoseJobs, files
<1>. QED  BY <1>1, <1>2, <1>3, RequestsAreOfClients DEF Next

LEMMA CompleteMeansMigratedNext ==
    ASSUME IInv, Next
    PROVE  CompleteMeansMigrated'
<1>. SUFFICES ASSUME SaysComplete', ~ failed', NEW u \in User, u \notin disturbed'
              PROVE  Migrated(u)'
  BY DEF CompleteMeansMigrated
<1>1. CASE MovePasswords
  BY <1>1, MovedUser
<1>. USE DEF IInv, CompleteMeansMigrated
<1>2. ASSUME SaysComplete, NEW c \in Client, UpgradeScheme(c) \/ ChangePassword(c)
      PROVE  Migrated(u)'
  BY <1>2, WrittenUser DEF Migrated
<1>3. CASE SaysComplete /\ AlterTables
  BY <1>3, AlteredUser DEF Migrated
<1>4. CASE SaysComplete /\ UNCHANGED <<columns, password, legacy, secret, failed, disturbed>>
  BY <1>4 DEF Migrated
<1>. QED  BY <1>1, <1>2, <1>3, <1>4, UserSteps, SaysCompleteNext


-----------------------------------------------------------------------------
(***************************************************************************)
(* Jobs are accounted for.                                                 *)
(***************************************************************************)
LEMMA JobsAccountedRequests ==
    ASSUME IInv, TypeOK', NEW c \in Client, RequestOf(c)
    PROVE  JobsAccounted'
<1>. USE DEF IInv
<1>0. /\ IsFiniteSet(Asking) /\ Cardinality(Asking) \in Nat /\ tube \in Nat /\ posts \in Nat
      /\ held \in BOOLEAN
  BY AskingCounts DEF JobsAccounted, TypeOK
<1>1. CASE RequestUpdate(c)
  <2>1. Asking' = Asking \cup {c} /\ c \notin Asking
    BY <1>1, AskingSteps DEF RequestUpdate, Begins, Idle, Asking
  <2>2. IsFiniteSet(Asking') /\ Cardinality(Asking') = Cardinality(Asking) + 1
    BY <1>0, <2>1, FS_AddElement
  <2>3. posts' = posts + 1 /\ UNCHANGED jobs
    BY <1>1 DEF RequestUpdate
  <2>. QED  BY <1>0, <2>2, <2>3 DEF JobsAccounted, jobs
<1>2. CASE Asking' = Asking /\ UNCHANGED <<posts, jobs>>
  BY <1>2 DEF JobsAccounted, jobs
<1>3. CASE c \in Asking /\ Asking' = Asking \ {c} /\ UNCHANGED <<posts, held>> /\ tube' \in {tube, tube + 1}
  <2>1. IsFiniteSet(Asking') /\ Cardinality(Asking') = Cardinality(Asking) - 1
    BY <1>0, <1>3, FS_RemoveElement
  <2>. QED  BY <1>0, <1>3, <2>1 DEF JobsAccounted
<1>4. CASE CheckMarker(c)
  <2>1. c \in Asking /\ UNCHANGED <<posts, jobs>>
    BY <1>4 DEF CheckMarker, Asking, counts
  <2>2. CASE marker
    BY <1>3, <1>4, <2>1, <2>2, AskingSteps DEF CheckMarker, Idle, jobs
  <2>3. CASE ~ marker
    <3>1. Asking' = Asking \cup {c}
      BY <1>4, <2>3, AskingSteps DEF CheckMarker
    <3>. QED  BY <1>2, <2>1, <3>1
  <2>. QED  BY <2>2, <2>3
<1>5. CASE CreateMarker(c)
  BY <1>2, <1>5, AskingSteps DEF CreateMarker, Asking, counts
<1>6. CASE PutUpdateJob(c)
  BY <1>3, <1>6, AskingSteps DEF PutUpdateJob, Asking, counts, Idle
<1>7. CASE PutFails(c)
  BY <1>3, <1>7, AskingSteps DEF PutFails, Asking, Idle, jobs
<1>8. CASE ReadSettings(c)
  BY <1>2, <1>8, AskingSteps DEF ReadSettings, Asking, Begins, Idle
<1>9. CASE SaveSettings(c)
  BY <1>2, <1>9, AskingSteps DEF SaveSettings, Asking, Idle, counts
<1>10. CASE UpgradeScheme(c)
  BY <1>2, <1>10, AskingSteps DEF UpgradeScheme, Writes, Asking, Idle, counts
<1>11. CASE ChangePassword(c)
  BY <1>2, <1>11, AskingSteps DEF ChangePassword, Writes, Asking, Idle, counts
<1>12. CASE \E u \in User, s \in Secret : Login(c, u, s) \/ Change(c, u, s)
  <2>1. PICK u \in User, s \in Secret, k \in {"login", "change"} : Reads(c, k, u, s)
    BY <1>12 DEF Login, Change
  <2>2. UNCHANGED <<posts, jobs>>
    BY <1>12 DEF Login, Change, counts
  <2>3. Asking' = Asking
    BY <2>1, AskingSteps DEF Reads, Begins, Idle, Asking
  <2>. QED  BY <1>2, <2>2, <2>3
<1>. QED
  BY <1>1, <1>4, <1>5, <1>6, <1>7, <1>8, <1>9, <1>10, <1>11, <1>12 DEF RequestOf

LEMMA JobsAccountedServer ==
    ASSUME IInv, TypeOK', Worker \/ Crash \/ LoseJobs
    PROVE  JobsAccounted'
<1>0. /\ IsFiniteSet(Asking) /\ Cardinality(Asking) \in Nat /\ tube \in Nat /\ posts \in Nat
      /\ held \in BOOLEAN
      /\ Cardinality(Asking) + tube + (IF held THEN 1 ELSE 0) <= posts
  BY AskingCounts DEF IInv, JobsAccounted, TypeOK
<1>1. Asking' = Asking /\ UNCHANGED posts
  BY DEF Worker, StartWorker, Reserve, NoUpdateNecessary, BeginMigration, AlterTables,
         MovePasswords, TruncateConfig, WriteConfig, RemoveMarker, Finish, Crash, LoseJobs,
         counts, Asking
<1>2. CASE UNCHANGED jobs
  BY <1>0, <1>1, <1>2 DEF JobsAccounted, jobs
<1>3. CASE Reserve
  BY <1>0, <1>1, <1>3 DEF JobsAccounted, Reserve
<1>4. CASE NoUpdateNecessary \/ Finish
  BY <1>0, <1>1, <1>4 DEF JobsAccounted, NoUpdateNecessary, Finish, DeleteJob
<1>5. CASE Crash
  BY <1>0, <1>1, <1>5 DEF JobsAccounted, Crash
<1>6. CASE LoseJobs
  BY <1>0, <1>1, <1>6 DEF JobsAccounted, LoseJobs
<1>. QED
  BY <1>2, <1>3, <1>4, <1>5, <1>6 DEF Worker, StartWorker, BeginMigration, AlterTables,
     MovePasswords, TruncateConfig, WriteConfig, RemoveMarker

-----------------------------------------------------------------------------
(***************************************************************************)
(* The invariant is inductive, and what follows from it.                   *)
(***************************************************************************)
LEMMA IInvInit == Init => IInv
<1>. SUFFICES ASSUME Init PROVE IInv
  OBVIOUS
<1>1. /\ marker \in BOOLEAN /\ columns \in BOOLEAN /\ held \in BOOLEAN
      /\ failed \in BOOLEAN /\ reverted \in BOOLEAN /\ disturbed \in SUBSET User
  BY DEF Init
<1>2. secret \in [User -> Secret] /\ password \in [User -> Hash \cup {Nothing}]
      /\ legacy \in [User -> Hash \cup {Nothing}]
  <2>1. \A u \in User : secret[u] \in Secret /\ Sha1(secret[u]) \in Hash
    BY Hashes DEF Init
  <2>. QED  BY <2>1 DEF Init
<1>3. request \in [Client -> Request]
  BY DEF Init, Request
<1>4. TypeOK
  BY <1>1, <1>2, <1>3 DEF Init, TypeOK
<1>5. JobsAccounted
  <2>1. Asking = {}
    BY DEF Init, Asking, Idle
  <2>. QED  BY <2>1, FS_EmptySet DEF Init, JobsAccounted
<1>6. RequestsRead /\ ~ SaysComplete
  BY DEF Init, RequestsRead, SaysComplete, Idle
<1>7. OnEitherSide
  BY DEF Init, OnEitherSide, Unmigrated
<1>. QED
  BY <1>4, <1>5, <1>6, <1>7 DEF Init, IInv, ConfigThere, CompleteMeansMigrated,
     MigrationIsAnnounced, Migrating

LEMMA IInvStutter == IInv /\ UNCHANGED vars => IInv'
BY DEF vars, IInv, TypeOK, ConfigThere, JobsAccounted, Asking, RequestsRead, OnEitherSide,
       Unmigrated, Migrated, CompleteMeansMigrated, SaysComplete, MigrationIsAnnounced

LEMMA IInvNext == IInv /\ [Next]_vars => IInv'
<1>1. ASSUME IInv, NEW c \in Client, RequestOf(c)
      PROVE  (TypeOK /\ ConfigThere /\ JobsAccounted /\ RequestsRead /\ MigrationIsAnnounced)'
  BY <1>1, TypeOKRequests, ConfigThereRequests, JobsAccountedRequests, RequestsReadRequests,
     MigrationIsAnnouncedRequests
<1>2. ASSUME IInv, Worker \/ Crash \/ LoseJobs
      PROVE  (TypeOK /\ ConfigThere /\ JobsAccounted /\ RequestsRead /\ MigrationIsAnnounced)'
  BY <1>2, TypeOKServer, ConfigThereServer, JobsAccountedServer, RequestsReadServer,
     MigrationIsAnnouncedServer
<1>3. ASSUME IInv, Next PROVE IInv'
  <2>1. (TypeOK /\ ConfigThere /\ JobsAccounted /\ RequestsRead /\ MigrationIsAnnounced)'
    BY <1>1, <1>2, <1>3, RequestsAreOfClients DEF Next
  <2>. QED  BY <1>3, <2>1, OnEitherSideNext, CompleteMeansMigratedNext DEF IInv
<1>. QED  BY <1>3, IInvStutter

LEMMA IInvHolds == Spec => []IInv
BY IInvInit, IInvNext, PTL DEF Spec

(***************************************************************************)
(* Every variable keeps its type; in particular beanstalkd never holds     *)
(* more update jobs than were asked for, however often the worker is       *)
(* killed, and the worker never reads a configuration that is truncated    *)
(* (BeanstalkService.php, lines 45-51; update worker, lines 47-70).        *)
(***************************************************************************)
THEOREM TypeCorrect == Spec => []TypeOK
<1>1. IInv => TypeOK
  BY DEF IInv
<1>. QED  BY <1>1, IInvHolds, PTL

(***************************************************************************)
(* While the database or the configuration is changed, the marker exists   *)
(* (BeanstalkService.php, lines 47-50; update worker, lines 79-106).       *)
(***************************************************************************)
THEOREM MigrationsAreAnnounced == Spec => []MigrationIsAnnounced
<1>1. IInv => MigrationIsAnnounced
  BY DEF IInv
<1>. QED  BY <1>1, IInvHolds, PTL

(***************************************************************************)
(* On an updated server every undisturbed user is let in with the password *)
(* given last and with no other (update worker, lines 91-103;              *)
(* Sessions.php, lines 49-64; Users.php, lines 135-144).                   *)
(***************************************************************************)
THEOREM UsersCanLogIn == Spec => []CredentialsSurvive
<1>1. IInv => CredentialsSurvive
  <2>. SUFFICES ASSUME IInv, version = "new", ~ failed,
                       NEW u \in User \ disturbed, NEW s \in Secret
                PROVE  LetsIn(u, s) <=> s = secret[u]
    BY DEF CredentialsSurvive
  <2>1. Migrated(u) /\ secret[u] \in Secret
    BY DEF IInv, TypeOK, CompleteMeansMigrated, SaysComplete
  <2>. QED  BY <2>1, Hashes DEF Migrated, LetsIn
<1>. QED  BY <1>1, IInvHolds, PTL

=============================================================================
