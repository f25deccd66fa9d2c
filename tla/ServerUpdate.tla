---------------------------- MODULE ServerUpdate ----------------------------
(***************************************************************************)
(* The update of a server's configuration and database from 18.12.01       *)
(* ("old") to 20.01.01 ("new"): the requests that start it, the update     *)
(* marker, the job in beanstalkd, the update worker that migrates, and the *)
(* requests of users who log in, change a password or save the settings    *)
(* meanwhile.  A PHP request reads the configuration file and its database *)
(* rows early and writes late, so each is a step to read and one to write. *)
(***************************************************************************)
EXTENDS Naturals, FiniteSets

CONSTANTS
    Client,      \* PHP requests the web server handles at the same time
    User,        \* accounts
    Secret,      \* passwords
    Known,       \* the password each user has before the update
    MaxPosts,    \* bound: updates requested
    MaxSaves,    \* bound: times the settings are saved
    MaxFailures  \* bound: times the update worker is killed, or beanstalkd forgets
                 \* its jobs or cannot be reached

ASSUME KnownAssumption == Known \in [User -> Secret]
ASSUME UpdateBoundsAssumption ==
    MaxPosts \in Nat /\ MaxSaves \in Nat /\ MaxFailures \in Nat

VARIABLES
    version,    \* config_version in config.cfg; "empty" while the file is
    columns,    \* the table users has the column legacyPassword
    password,   \* that table's column password: a hash or nothing
    legacy,     \* its column legacyPassword
    secret,     \* the password each user was given last
    marker,     \* the file data/UPDATE exists
    tube,       \* update jobs waiting in beanstalkd
    held,       \* beanstalkd has a job reserved for the worker
    worker,     \* where the update worker is
    seen,       \* config_version as the worker read it
    request,    \* what each client's request is about to write
    posts, saves, crashes, losses,  \* how often each has happened
    failed,     \* a statement of the migration has failed, which goes unnoticed
    reverted,   \* saving the settings has restored the old version
    disturbed   \* users whose credentials were migrated a second time, or after
                \* they had changed, or written on the strength of an old read

files == <<version, marker>>
accounts == <<columns, password, legacy, secret>>
jobs == <<tube, held>>
counts == <<posts, saves, crashes, losses>>
ghosts == <<failed, reverted, disturbed>>
vars == <<version, columns, password, legacy, secret, marker, tube, held, worker,
          seen, request, posts, saves, crashes, losses, failed, reverted, disturbed>>

\* Hashes tell nothing but their scheme and, to those who know it, the password.
Hash == [scheme : {"sha1", "bcrypt"}, of : Secret]
Nothing == [scheme |-> "none"]
Sha1(s) == [scheme |-> "sha1", of |-> s]
Bcrypt(s) == [scheme |-> "bcrypt", of |-> s]
Row == [password : Hash \cup {Nothing}, legacy : Hash \cup {Nothing}]
RowOf(u) == [password |-> password[u], legacy |-> legacy[u]]

\* The requests under way, by what they have read.
Idle == [does |-> "nothing"]
Request ==
    {Idle}
    \cup [does : {"post", "mark", "put"}]
    \cup [does : {"save"}, version : {"old", "new"}]
    \cup [does : {"login", "change"}, user : User, given : Secret, row : Row]

Migrating == {"alter", "move", "write", "writing"}

TypeOK ==
    /\ version \in {"old", "new", "empty"}
    /\ columns \in BOOLEAN
    /\ password \in [User -> Hash \cup {Nothing}]
    /\ legacy \in [User -> Hash \cup {Nothing}]
    /\ secret \in [User -> Secret]
    /\ marker \in BOOLEAN
    /\ tube \in 0..MaxPosts
    /\ held \in BOOLEAN
    /\ worker \in {"down", "ready", "job", "unmark", "delete"} \cup Migrating
    /\ seen \in {"old", "new"}
    /\ request \in [Client -> Request]
    /\ posts \in 0..MaxPosts
    /\ saves \in 0..MaxSaves
    /\ crashes \in 0..MaxFailures
    /\ losses \in 0..MaxFailures
    /\ failed \in BOOLEAN
    /\ reverted \in BOOLEAN
    /\ disturbed \in SUBSET User

\* The new release has been installed over the data of the old one.
Init ==
    /\ version = "old"
    /\ columns = FALSE
    /\ secret = Known
    /\ password = [u \in User |-> Sha1(secret[u])]
    /\ legacy = [u \in User |-> Nothing]
    /\ marker = FALSE
    /\ tube = 0
    /\ held = FALSE
    /\ worker = "down"
    /\ seen = "old"
    /\ request = [c \in Client |-> Idle]
    /\ posts = 0
    /\ saves = 0
    /\ crashes = 0
    /\ losses = 0
    /\ failed = FALSE
    /\ reverted = FALSE
    /\ disturbed = {}

-----------------------------------------------------------------------------
(* Requests *)

\* A request begins; without a configuration the application does not even start.
Begins(c) == request[c] = Idle /\ version # "empty"

Continues(c, r) == request' = [request EXCEPT ![c] = r]

\* POST api/system/update by an administrator: System::update finds that the
\* configuration the request has read is an old one ...
RequestUpdate(c) ==
    /\ Begins(c)
    /\ version = "old"
    /\ posts < MaxPosts
    /\ posts' = posts + 1
    /\ Continues(c, [does |-> "post"])
    /\ UNCHANGED <<files, accounts, jobs, worker, seen, saves, crashes, losses, ghosts>>

\* ... putUpdateJob refuses if there is a marker ...
CheckMarker(c) ==
    /\ request[c].does = "post"
    /\ Continues(c, IF marker THEN Idle ELSE [does |-> "mark"])
    /\ UNCHANGED <<files, accounts, jobs, worker, seen, counts, ghosts>>

\* ... and otherwise creates it ...
CreateMarker(c) ==
    /\ request[c].does = "mark"
    /\ marker' = TRUE
    /\ Continues(c, [does |-> "put"])
    /\ UNCHANGED <<version, accounts, jobs, worker, seen, counts, ghosts>>

\* ... and puts the job ...
PutUpdateJob(c) ==
    /\ request[c].does = "put"
    /\ tube' = tube + 1
    /\ Continues(c, Idle)
    /\ UNCHANGED <<files, accounts, held, worker, seen, counts, ghosts>>

\* ... if beanstalkd answers; what has been done before is not undone.
PutFails(c) ==
    /\ request[c].does = "put"
    /\ crashes + losses < MaxFailures
    /\ losses' = losses + 1
    /\ Continues(c, Idle)
    /\ UNCHANGED <<files, accounts, jobs, worker, seen, posts, saves, crashes, ghosts>>

\* Settings::update: the whole configuration the request read at its start ...
ReadSettings(c) ==
    /\ Begins(c)
    /\ saves < MaxSaves
    /\ saves' = saves + 1
    /\ Continues(c, [does |-> "save", version |-> version])
    /\ UNCHANGED <<files, accounts, jobs, worker, seen, posts, crashes, losses, ghosts>>

\* ... is written back.
SaveSettings(c) ==
    /\ request[c].does = "save"
    /\ version' = request[c].version
    /\ reverted' = (reverted \/ (version = "new" /\ version' = "old"))
    /\ Continues(c, Idle)
    /\ UNCHANGED <<marker, accounts, jobs, worker, seen, counts, failed, disturbed>>

\* What a client reads of a user.  Before the migration this fails, as the query
\* names a column that does not exist yet.
Reads(c, does, u, s) ==
    /\ Begins(c)
    /\ columns
    /\ Continues(c, [does |-> does, user |-> u, given |-> s, row |-> RowOf(u)])

\* Sessions::create with a password that fits the deprecated hash.  Any other login
\* changes nothing.
Login(c, u, s) ==
    /\ legacy[u] = Sha1(s)
    /\ Reads(c, "login", u, s)
    /\ UNCHANGED <<files, accounts, jobs, worker, seen, counts, ghosts>>

\* Credentials are written on the strength of what was read before.
Writes(c) ==
    LET r == request[c] IN
    /\ password' = [password EXCEPT ![r.user] = Bcrypt(r.given)]
    /\ disturbed' = IF r.row # RowOf(r.user) THEN disturbed \cup {r.user}
                    ELSE IF r.does = "change" THEN disturbed \ {r.user} ELSE disturbed
    /\ Continues(c, Idle)
    /\ UNCHANGED <<files, columns, jobs, worker, seen, counts, failed, reverted>>

\* The flush replaces the scheme: the deprecated hash was there, and goes.
UpgradeScheme(c) ==
    /\ request[c].does = "login"
    /\ Writes(c)
    /\ legacy' = [legacy EXCEPT ![request[c].user] = Nothing]
    /\ UNCHANGED secret

\* Users::update with a new password.
Change(c, u, s) ==
    /\ Reads(c, "change", u, s)
    /\ UNCHANGED <<files, accounts, jobs, worker, seen, counts, ghosts>>

\* Mutant of ChangePassword: the deprecated hash stays.
ChangeKeepsLegacy(c) ==
    /\ request[c].does = "change"
    /\ Writes(c)
    /\ secret' = [secret EXCEPT ![request[c].user] = request[c].given]
    /\ UNCHANGED legacy

\* The flush writes the columns that differ from what was read: the deprecated
\* hash is removed only if there was one.
ChangePassword(c) ==
    /\ request[c].does = "change"
    /\ Writes(c)
    /\ secret' = [secret EXCEPT ![request[c].user] = request[c].given]
    /\ legacy' = IF request[c].row.legacy = Nothing THEN legacy
                 ELSE [legacy EXCEPT ![request[c].user] = Nothing]

Requests ==
    \E c \in Client :
        \/ RequestUpdate(c) \/ CheckMarker(c) \/ CreateMarker(c)
        \/ PutUpdateJob(c) \/ PutFails(c)
        \/ ReadSettings(c) \/ SaveSettings(c)
        \/ UpgradeScheme(c) \/ ChangePassword(c)
        \/ \E u \in User, s \in Secret : Login(c, u, s) \/ Change(c, u, s)

-----------------------------------------------------------------------------
(* The update worker *)

\* The worker's supervisor starts it.  It needs the configuration to find beanstalkd.
StartWorker ==
    /\ worker = "down"
    /\ version # "empty"
    /\ worker' = "ready"
    /\ UNCHANGED <<files, accounts, jobs, seen, request, counts, ghosts>>

\* It reserves a job and rereads the configuration.
Reserve ==
    /\ worker = "ready"
    /\ tube > 0
    /\ tube' = tube - 1
    /\ held' = TRUE
    /\ seen' = version
    /\ worker' = "job"
    /\ UNCHANGED <<files, accounts, request, counts, ghosts>>

\* beanstalkd knows the job it is told to delete, or the worker fails.
DeleteJob ==
    /\ worker' = IF held THEN "ready" ELSE "down"
    /\ held' = FALSE

\* "No update necessary".
NoUpdateNecessary ==
    /\ worker = "job"
    /\ seen = "new"
    /\ DeleteJob
    /\ UNCHANGED <<files, accounts, tube, seen, request, counts, ghosts>>

\* Mutant of BeginMigration: the marker is left to those who ask for the update.
BeginUnmarked ==
    /\ worker = "job"
    /\ seen = "old"
    /\ worker' = "alter"
    /\ UNCHANGED <<files, accounts, jobs, seen, request, counts, ghosts>>

\* The marker is created unless it exists.
BeginMigration ==
    /\ worker = "job"
    /\ seen = "old"
    /\ marker' = TRUE
    /\ worker' = "alter"
    /\ UNCHANGED <<version, accounts, jobs, seen, request, counts, ghosts>>

\* ALTER TABLE fails if the column exists, or for reasons of its own.
AlterTables ==
    /\ worker = "alter"
    /\ \/ columns' = TRUE /\ UNCHANGED failed
       \/ ~ columns /\ failed' = TRUE /\ UNCHANGED columns
    /\ worker' = "move"
    /\ UNCHANGED <<files, password, legacy, secret, jobs, seen, request, counts,
                   reverted, disturbed>>

\* UPDATE users SET legacyPassword=password,password=NULL, and the commit.
MovePasswords ==
    /\ worker = "move"
    /\ \/ /\ columns
          /\ legacy' = password
          /\ password' = [u \in User |-> Nothing]
          /\ disturbed' = disturbed \cup {u \in User : password[u].scheme # "sha1"}
          /\ UNCHANGED failed
       \/ failed' = TRUE /\ UNCHANGED <<legacy, password, disturbed>>
    /\ worker' = "write"
    /\ UNCHANGED <<files, columns, secret, jobs, seen, request, counts, reverted>>

\* Opening config.cfg for writing truncates it ...
TruncateConfig ==
    /\ worker = "write"
    /\ version' = "empty"
    /\ worker' = "writing"
    /\ UNCHANGED <<marker, accounts, jobs, seen, request, counts, ghosts>>

\* ... before the new configuration is written.
WriteConfig ==
    /\ worker = "writing"
    /\ version' = "new"
    /\ worker' = "unmark"
    /\ UNCHANGED <<marker, accounts, jobs, seen, request, counts, ghosts>>

RemoveMarker ==
    /\ worker = "unmark"
    /\ marker' = FALSE
    /\ worker' = "delete"
    /\ UNCHANGED <<version, accounts, jobs, seen, request, counts, ghosts>>

\* The job is done.
Finish ==
    /\ worker = "delete"
    /\ DeleteJob
    /\ UNCHANGED <<files, accounts, tube, seen, request, counts, ghosts>>

Worker ==
    \/ StartWorker \/ Reserve \/ NoUpdateNecessary \/ BeginMigration \/ AlterTables
    \/ MovePasswords \/ TruncateConfig \/ WriteConfig \/ RemoveMarker \/ Finish

-----------------------------------------------------------------------------
(* Failures *)

\* Mutants of Crash: a job is available again that was not held; a job is delivered
\* once.
CrashAddsJob ==
    /\ worker # "down"
    /\ crashes + losses < MaxFailures
    /\ crashes' = crashes + 1
    /\ worker' = "down"
    /\ tube' = tube + 1
    /\ held' = FALSE
    /\ UNCHANGED <<files, accounts, seen, request, posts, saves, losses, ghosts>>
CrashForgetsJob ==
    /\ worker # "down"
    /\ crashes + losses < MaxFailures
    /\ crashes' = crashes + 1
    /\ worker' = "down"
    /\ held' = FALSE
    /\ UNCHANGED <<files, accounts, tube, seen, request, posts, saves, losses, ghosts>>

\* The worker is killed; beanstalkd makes the job it held available again.
Crash ==
    /\ worker # "down"
    /\ crashes + losses < MaxFailures
    /\ crashes' = crashes + 1
    /\ worker' = "down"
    /\ tube' = IF held THEN tube + 1 ELSE tube
    /\ held' = FALSE
    /\ UNCHANGED <<files, accounts, seen, request, posts, saves, losses, ghosts>>

\* beanstalkd, which keeps its jobs in memory only, is restarted.  The worker notices
\* when it next turns to beanstalkd, and ends.
LoseJobs ==
    /\ crashes + losses < MaxFailures
    /\ losses' = losses + 1
    /\ tube' = 0
    /\ held' = FALSE
    /\ worker' = IF worker = "ready" THEN "down" ELSE worker
    /\ UNCHANGED <<files, accounts, seen, request, posts, saves, crashes, ghosts>>

Next == Requests \/ Worker \/ Crash \/ LoseJobs

Spec == Init /\ [][Next]_vars

=============================================================================
