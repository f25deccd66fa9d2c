------------------------- MODULE ServerUpdateProps --------------------------
(***************************************************************************)
(* The correctness properties of ServerUpdate.                             *)
(***************************************************************************)
EXTENDS ServerUpdate

\* Whether Sessions::create lets a user in with a password.
LetsIn(u, s) ==
    /\ columns
    /\ IF legacy[u] # Nothing THEN legacy[u] = Sha1(s) ELSE password[u] = Bcrypt(s)

(***************************************************************************)
(* Once the configuration says that the update is complete, every user is  *)
(* let in with the password given last and with no other, wherever logins  *)
(* and changes of passwords fell between the steps of the migration, and   *)
(* however often its worker was killed: unless a statement has failed, the *)
(* credentials were migrated twice or once changed, or a write overtook    *)
(* another one (update worker, lines 91-103; Sessions.php, lines 49-64;    *)
(* Users.php, lines 135-144).                                              *)
(***************************************************************************)
CredentialsSurvive ==
    version = "new" /\ ~ failed =>
        \A u \in User \ disturbed, s \in Secret : LetsIn(u, s) <=> s = secret[u]

(***************************************************************************)
(* While the database or the configuration is being changed the marker     *)
(* exists, so GET api/system/update answers 403: also when the job comes   *)
(* from a second request whose marker the first job has removed            *)
(* (BeanstalkService.php, lines 47-50; update worker, lines 79-106).       *)
(***************************************************************************)
MigrationIsAnnounced == worker \in Migrating => marker

(***************************************************************************)
(* Fairness: the worker, which its supervisor starts again whenever it     *)
(* ends, goes on.  Nobody has to request anything, and no request has to   *)
(* be finished.                                                            *)
(***************************************************************************)
FairSpec == Spec /\ WF_vars(Worker)

(***************************************************************************)
(* A job that waits in beanstalkd leads to an updated server, even if the  *)
(* worker is killed on the way: unless beanstalkd forgets the job, the     *)
(* settings are saved from before the update, or the worker was killed     *)
(* with the configuration truncated (update worker, lines 47-109).         *)
(***************************************************************************)
JobUpdatesServer ==
    tube > 0 ~> version = "new" \/ reverted \/ losses > 0 \/ (version = "empty" /\ worker = "down")

-----------------------------------------------------------------------------
\* A request is about to put a job, a job waits, or the worker has one.
UpdateUnderWay ==
    \/ \E c \in Client : request[c].does = "put"
    \/ tube > 0
    \/ held

(***************************************************************************)
(* "Returns HTTP Status 403 if an update is running and 200 otherwise"     *)
(* (System.php, line 80): with a marker, there is an update to wait for.   *)
(***************************************************************************)
MarkerMeansRunning == marker => UpdateUnderWay

(***************************************************************************)
(* "If this is null, this user's password uses the new hashing scheme"     *)
(* (User.php, line 41, on legacyPassword), on an updated server.           *)
(***************************************************************************)
NoLegacyMeansNewScheme ==
    version = "new" /\ ~ failed =>
        \A u \in User : legacy[u] = Nothing => password[u].scheme = "bcrypt"

=============================================================================
