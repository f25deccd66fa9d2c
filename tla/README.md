# Formal model of HoneySens

HoneySens is a honeypot platform: a server (PHP behind Apache, MySQL, three Python
workers fed by beanstalkd) and any number of sensors (a Python process, the *manager*,
that runs honeypot services as containers). This directory holds TLA+ specifications of
the parts of it whose behaviour depends on the order in which threads, requests, jobs and
failures meet, the configurations that check them with TLC, and theorems about them
checked by TLAPS.

    tlc -workers 2 -config MCEventPipeline.cfg MCEventPipeline     # a run
    tlapm EventPipelineProofs.tla                                  # proofs of a component

## 1. Inventory

### Sensor

| Component | State | Operations | Interacts with |
|---|---|---|---|
| Collector (`manager/collector.py`) | ZeroMQ socket, stop and restart events | receive an event, acknowledge it, restart, stop | services (messages), event queue |
| Event processor (`event_processor.py`) | ring buffer of 1024 events, stop event | take an event, submit the ring, remove what was sent, stop | event queue, `polling.is_online`, server |
| Polling (`polling.py`) | configuration in memory, last successful poll, timer; `honeysens.cfg` and archive on disk | poll, `update_config`, rewrite the archive, reschedule, stop | server, state queue, hooks |
| State worker (`state.py`) | state queue, stop event | apply a configuration | platform and services through hooks |
| Platforms (`platforms/*.py`) | operating system, `firmware_update_in_progress`, memory card or compose project | apply the network, update the firmware, clean up | state worker, configuration archive |
| Services (`services.py`) | containers and images, what is remembered of each service, the catch-all and its firewall rule | start, stop, destroy, apply, enable docker | docker, platform, state worker |
| Manager (`manager.py`, `commands.py`) | threads and queues, configuration directory | start, shut down | all of the above |
| Honeypot services (`services/*`) | recon: tables of events and flooders, one worker per second; cowrie, dionaea: sessions | collect packets, report an event | collector |

Hard behaviours: three threads (polling timer, state worker, event processor) share one
configuration object and one time stamp without a lock; requests have no timeout; events
live in memory only; the archive is rewritten in place on every poll; an exception in a
hook or a thread ends that thread silently. The service manager works with what it
remembers of containers that fail, end and are adopted on their own, and finds them by
parts of their names. recon's workers overlap on tables that nothing protects, and each of
them waits for an answer between two uses of what it has read.

Correct means: an acknowledged event reaches the server at least once, in order, or is
overwritten only as the oldest of a full ring; what the server configures is applied and
survives a restart; the archive is always one whole configuration; a failed update can be
repeated; the containers that run are those assigned, and the catch-all's rule leads to
one of them; a packet recon has accepted is reported in one event.

### Server

| Component | State | Operations | Interacts with |
|---|---|---|---|
| Events (`controllers/Events.php`) | tables events, details, packets | create from a sensor, update, delete | filters, contacts |
| Event filters and contacts | filters with counters, conditions, contacts | match an event, count, send mail | events |
| Sensors (`controllers/Sensors.php`) | sensors, status log, certificates, `configArchiveStatus` | create, update, delete, status of a sensor | beanstalkd, archive worker, sensors |
| Configuration archive worker | archives on disk | create an archive | beanstalkd, table sensors |
| Update (`System.php`, `BeanstalkService.php`, update worker) | `config.cfg`, marker file, schema | request, migrate, report | beanstalkd, users, settings |
| Sessions, users, settings | passwords of two hashing schemes, `config.cfg` | log in, change, save | update |
| Client synchronisation (`State.php`, `EntityUpdateService.php`, `EntityUpdateSubscriber.php`) | table last_updates | stamp a change, answer with what is newer | every controller, web interface |
| Platforms, firmware, services, divisions, statistics, certificates | tables and uploaded files | create, read, update, delete | registry worker |
| Installation and maintenance (`System.php`) | whole database | install, reset, renew the CA | restart script |
| Web interface (`js/`) | collections in the browser, time of the last answer, unconfirmed changes | log in, show, edit, poll | API |

Hard behaviours: requests are concurrent PHP processes that read early (configuration at
bootstrap, rows with `find`) and write late; beanstalkd delivers a job again when its
worker dies and forgets all jobs when it is restarted; the workers commit to the database
and write files in separate steps; a change gets its time stamp when it is flushed and is
seen when it is committed; a browser has several requests under way and takes over their
answers in the order they arrive; Doctrine writes the columns that differ from what was
read.

Correct means: a batch of events is stored as a whole or not at all; the update leaves
every user able to log in, is announced while it runs and is completed; an archive
announced as available holds the configuration that is stored; a client that keeps asking
ends up with what the server has.

`PROJECT.json` lists the components with what is modelled of each, and under `hazards`
every place of the code where the above bites, with the properties that cover it.

## 2. Modules

| Module | Content |
|---|---|
| `EventDelivery` | abstract: what the sensor promises for an acknowledged event |
| `EventPipeline` | collector, event processor, the request, the server's handler, restarts |
| `EventPipelineProps` | its properties, its fairness, its refinement of `EventDelivery` |
| `EventPipelineProofs` | theorems for every value of the constants, among them the refinement |
| `ConfigPolling` | polling, state worker, archive, BeagleBone firmware update, start, shutdown, crash |
| `ConfigPollingProps` | its properties and fairness |
| `ConfigPollingProofs` | theorems for every value of the constants |
| `ServerUpdate` | update requests, marker, job, worker, logins, password changes, settings |
| `ServerUpdateProps` | its properties and fairness |
| `ServerUpdateProofs` | theorems for every value of the constants |
| `ConfigArchive` | requests that create, change and delete sensors, their jobs, the archive worker |
| `ConfigArchiveProps` | its properties and fairness |
| `ConfigArchiveProofs` | theorems for every value of the constants |
| `ClientSync` | time stamps, commits, polls of a browser and sessions |
| `ClientEdits` | what the browser changes itself, shown before it is confirmed (EXTENDS `ClientSync`) |
| `ClientEditsProps` | the properties and fairness of both |
| `ClientEditsProofs` | theorems for every value of the constants |
| `ServiceManager` | containers, images, the catch-all's rule, start and destroy in steps, faults of docker |
| `ServiceManagerProps` | its properties and fairness |
| `ServiceManagerProofs` | theorems for every value of the constants |
| `Recon` | packet handler and overlapping workers of the honeypot service recon |
| `ReconProps` | its properties and fairness |
| `ReconProofs` | theorems for every value of the constants |
| `MC...` with `.cfg` | instances for TLC |

`EventPipeline` implements `EventDelivery`. `ClientEdits` composes the browser's own
requests with `ClientSync`: its steps are those of `ClientSync`, some of them extended by
what they do to unconfirmed changes, and those of the new requests. The other components
meet only through the values one hands to another (an event, an answer, a job), which the
receiving module takes as its environment: the events of `Recon` are those `EventPipeline`
acknowledges, an answer of `ConfigPolling` is a `job` of `ServiceManager`.

`...Props` modules EXTEND the module of their component; `MC...` modules EXTEND those and
only name values of constants. Operators with the comment "Mutant of X", just before X,
are the faulty variants of X against which each property has been tried: with X replaced
by one of them TLC must report the property (`mutants` in `PROJECT.json`).

### EventPipeline and the code

An event is its number in the order of acknowledgement. `queue` is `Manager.event_queue`,
`ring` the deque, `pc` the place of the event processor's thread: `loop` is the condition
of the main loop, `get` the call of `queue.get`, `online` and `elapsed` the two reads of
`_last_successful_poll` in `polling.is_online`, `post` the call of
`perform_https_request`. `last_poll` is that variable, with `"stale"` for a time stamp
older than an interval; the polling thread is reduced to the three ways of changing it
(`ConfigPolling` has the thread itself). `wire` is the request, `late` holds requests the
sensor has given up that the server may still handle. The server validates the whole
batch, then commits it in one flush, then sends mails, where an exception turns success
into an error. `Restart` stands for a shutdown followed by a start as well as for a crash.
`duplicated`, `unconfirmed` and `offered` are history. Left out: the collector's restart on
a new network and its death by a malformed message, signatures, and the server's
classification and filters.

### ConfigPolling and the code

A configuration maps settings to values. Setting 0 is `general/service_network`, applied
on each pass of the state worker; the others are those whose change sets
`network_changed`. `update_config` is one step per setting (the state worker may read in
between), one for opening the archive (it is truncated then), one for writing it.
`PollFails` can strike in every phase; a value in `Unencodable` makes `str()` raise in the
middle. An HTTP error is an answer without settings, because the code does not look at
the status. The state worker applies setting by setting; then follows
`Platform.update`, then the services. `proc` is the process: shutdown stops the timer, joins
the state worker and removes the configuration directory while a poll may still be under
way.

The update runs in the state worker (`fetch`, `flash`, `copied`): the firmware is fetched
(`StartUpdate`), written to the card (`WriteImage`), the archive copied onto it
(`PreserveArchive`), and `/sbin/reboot` is called (`CallReboot`), which does not wait. The
update returns with its flag `updating` set and the state worker goes on, with the services
and with further answers, whose firmware `NoUpdate` turns away. From there either the board
restarts (`rebooting`) or nobody notices that it does not (`refused`). A failure up to the
unmounting of the card clears the flag (`UpdateFails`); if `/sbin/reboot` cannot be called at
all, the handler fails to remove a directory that is already gone, before it clears the
flag, and the thread ends (`HookRaises`). `card` is the archive on a card the board would
install from; it is `Blank` until the archive has been copied, since the installer aborts
without one and makes the card unbootable when it has used it
(`bbb-flasher.patch`). What a failed update has left on the card stays there: `Reboot` is a
restart of the board because it was told to or because it has lost its power, and installs
whatever the card holds. A restart without such a card is an `Exit`.

`lost` (settings changed by
a failed poll and not applied since), `broke_off` (a value that cannot be converted has
broken off `update_config`, and no full answer has come since), `preserved` (that this was
so when the archive was copied onto the card, from which a restart gets it back whatever
polls have repaired in between) and `issued` are history. Settings the code takes over
without a comparison (port, interval) and certificates are left out.

### ServerUpdate and the code

`version` is `config_version` in `config.cfg`, `"empty"` while the file is truncated.
Passwords are hashes of two schemes; `columns` says whether `ALTER TABLE` has added
`legacyPassword`. Each PHP request reads in one step and writes in another; `request[c]`
holds what it has read. `held` says that beanstalkd has a job reserved for the worker: a
crash returns it to `tube`, a restart of beanstalkd forgets it. The UPDATE of the
migration and the commit are one step, because the database isolates them; everything
after the commit is separate. Requests need a session of an administrator; before the
migration nobody can log in, as the query for the user names a column that does not exist
(`Reads` requires `columns`), so the session is one from before. `disturbed` collects the
users whose credentials were migrated twice or after a change, or written on the strength
of a row that had changed since it was read; `failed`, `reverted` are history as well.

### ConfigArchive and the code

Of a sensor's row there remain its configuration, as one value, and
`configArchiveStatus`. A request (`request[c]`) that creates a sensor stores it, puts the
job and stores the status in three steps; one that changes a sensor reads, stores what
differs from what it read, and puts a job that carries its own data; its status
"scheduled" is never stored. `jobs` is every job ever put, so a job's index is its
identifier in beanstalkd and also its age; `ready` and `reserved` are the states beanstalkd
keeps, `lost` the jobs a restart of the container has forgotten. The worker's variable
follows the lines of its loop. When the sensor of a job is missing the worker goes on
without deleting the job: it stays reserved until its time runs out, when beanstalkd
answers `DEADLINE_SOON` to a worker that waits, `beanstalkc` raises, the worker ends and
the closed connection gives all its jobs back. `archive` names for each file the job that
wrote it and whether it is complete. `mixed` is history: sensors with two overlapping
requests, or one that ended before it put its job. Left out: certificates, and the client
that polls for the status.

### ClientSync, ClientEdits and the code

A row's content is a number, one per change. `stamp` is `last_updates`, `now` the server's
clock in whole seconds, as `updateTimestamp` stores it. A change of another session is
stamped while it is flushed and committed in a later step (`BeginFlush`, `Commit`), with
the lock of its row held in between. `poll[p]` is one run of `fetchUpdates`: the browser
notes the time it asks from, the server notes its own time, lists the tables whose stamp
is not older, reads them one query at a time, and the browser takes the answer over with
its timestamp (`FetchUpdates`, `BeginPoll`, `ListTables`, `ReadTables`, `Apply`). PHP's
lock of the session file makes the requests of one session wait for each other
(`SessionFree`): this is why the client's own changes are never missed.

`draft` is what a browser shows of its own changes before the server has agreed:
`Model.save` sets the attributes first, `create` adds the model first, `wait` and `destroy`
change the collection afterwards. Nothing takes a draft back: `refused` are those that the
server has rejected or that have failed without an effect. The answer of an edit goes into
the collection whenever it arrives, except when a poll has removed the model meanwhile
(`attached`). `lost` is history, and names the tables of which a client has missed a change
in a way the code leaves open: a change of another session that was committed after a poll
had passed its stamp; the answer of a poll that came after a newer one; the answer of an
edit older than what a poll has brought.

Left out: the lists a user may see changing with the divisions it belongs to (nothing is
stamped then), events and statistics, which the polls fetch by other rules, and what views
do with the collections.

### ServiceManager and the code

`container`, `address` and `images` are docker's; `known` and `ref` are the keys of
`_services` and the revision of the container each remembers, `data` the revision it was
asked to have. `phase` follows the StateWorker: `apply_services` goes through the services
of the answer (`todo`), `start` looks at what it remembers, destroys what is outdated,
looks for a container of that name (`find`), pulls an image and creates one (`Create`), or
adopts the one it finds, starts it and redirects the catch-all. Each call of docker that
can fail does so with `Fault`; an exception in `start` leaves that service for the next
answer (`Gives`), one in another hook ends the StateWorker (`WorkerDies`). A firmware update
or a new service network first destroys everything (`Clear`), and the answer is applied
whatever becomes of that (`Cleared`); a change of the network stops what runs (`StopAll`),
also before the former. A restart forgets what was remembered (`Boot`).

`start` lists the containers once, before it destroys an outdated one (`Look`), and goes
through that list afterwards: at the container that is gone, with its image, docker raises.
So each change of a revision ends with the removal of the old container, and the new one is
created for the next answer only.

`SharesName` is the substring match of `start` and `destroy` (`service_label in c.name`).
With the services 1
and 12 the model shows what it does: starting, updating or removing 1 takes the container
and the image of 12 away, whose entry in `_services` still says that it runs; its next
start raises, until a restart of the manager. `hit` records this, `leftover` the rules of a
catch-all that was replaced, ended or was destroyed that way. Left out: the service network
and its subnet, the registry's certificate, raw network access, names of three services
that contain each other.

### Recon and the code

A packet is its number, an event (`incident`) the packets appended to it, in order and with
repetitions. `events` is the table by host; `quiet` replaces the time stamp of the last
packet by the seconds since. The handler is in steps, because workers run in between:
`get_event` tests for the host (`Receive`) and looks it up (`LookUp`), the host is answered
and the packet appended (`AppendPacket`), the table is tested again and the event put into it
(`AddEvent`). The lookup raises when a worker has taken the event, the answer if it cannot be
made or sent; the exception ends the main thread, and the daemon threads with it
(`HandlerRaises`). A worker goes through the table (`Visit`, `EndScan`; a table that has
changed its size raises), then sends its candidates one by one: taken out of the table by
their host (`TakeEvent`, which raises when there is none), sent (`SendEvent`), answered
(`Answer`); at last it forgives flooders (`Forget`). The timer of the next worker runs from
the start of the one before.

`again` and `dropped` are history: a worker that has waited for the collector while another
one sent the same event takes out whatever the host has sent since (`dropped`) and sends
the old event a second time; and a packet that is appended to an event just taken out puts
that event, with all its packets, into the table again. Left out: which packets are
answered, their contents, and the text of the event.

## 3. Runs

| Run | Bounds | Shows |
|---|---|---|
| `MCEventPipeline` | ring of 2, 4 events (the second malformed), 1 abandoned request, 1 restart | `TypeOK`, `HeldIsWindow`, `FullRingWasOffered`, `DuplicatesOnlyUnconfirmed`, refinement `KeepsPromise`, `SubmitsHeldEventsWhileAlive`, `StopTerminates` |
| `MCEventPipelineIdle` | ring of 2, 2 events, no restart | violation of `SubmitsHeldEvents` |
| `MCConfigPolling` | 2 network settings, 3 values (1 not convertible), 1 change, state queue of 1 | `TypeOK`, `AppliedIsConfigured`, `ArchiveIsOneConfiguration`, `ArchiveIsCurrent`, `TakesOverConfiguration`, `RepeatsFirmwareUpdate` |
| `MCConfigPollingCard` | as above, 2 values | violation of `ConfigurationSurvivesUpdate` |
| `MCServerUpdate` | 2 concurrent requests, 1 user, 2 passwords, 2 update requests, 1 save, 1 failure | `TypeOK`, `CredentialsSurvive`, `MigrationIsAnnounced`, `JobUpdatesServer` |
| `MCServerUpdateMarker` | as above, no save, no failure | violation of `MarkerMeansRunning` |
| `MCServerUpdateLegacy` | as above, no save, 1 failure | violation of `NoLegacyMeansNewScheme` |
| `MCConfigArchive` | 2 concurrent requests, 2 sensors, 2 configurations, 2 jobs, 1 failure | `TypeOK`, `AvailableIsComplete`, `LastJobIsPacked`, `ArchiveIsCurrent`, `NeverGoesBack`, `EveryJobIsServed` |
| `MCConfigArchiveStuck` | 1 request at a time, 1 sensor, 2 jobs, no failure | violation of `ReadyIsOffered` |
| `MCClientEdits` | 1 table, 1 row, 2 polls at once, 1 other writer and 1 request of the client, 1 second, 1 change each | `EditsTypeOK`, `NothingMissed`, `DraftsAreAccountedFor`, `CatchesUp` |
| `MCServiceManager` | services 1 and 12, 2 revisions, 2 addresses, 1 fault, 2 changes | `TypeOK`, `TracksContainers`, `RedirectsToTarget`, `KeepsRunning`, `FollowsAssignment` |
| `MCRecon` | 2 hosts, 2 workers, 3 packets, 1 event without an answer, time-outs of 1 and 2 seconds, flooders from 3 packets | `TypeOK`, `NoPacketLost`, `ReportedOnce`, `EveryEventIsSent`, `FloodersReturn` |

Why the bounds are enough. In `EventPipeline` two slots and four events let the ring
overflow twice, with a batch abandoned, stored late and sent again; ids, not contents,
distinguish events. In `ConfigPolling` two network settings are the least that can be torn
apart, the server may already differ from the archive at the start (`Registered`) and one
further change lets it return; a state queue of one still has the worker lag one poll
behind the next. In `ServerUpdate` users do not interact, so one is enough; two requests
are what it takes for one to overtake another, and one save or failure reaches each
reverted and repeated migration. In `ConfigArchive` two jobs are an older and a newer one
of a sensor, or the job of a deleted sensor ahead of another's; a request begins only
while jobs are left to put. In `ClientEdits` tables and rows are independent of each other
except for the listing, so one shows every order of stamp, commit and answer; two polls can
be answered in the wrong order, and one second separates equal stamps from different ones.
In `ServiceManager` one fault and two changes reach every branch of `start` and `destroy`,
such as a removal that fails after a firmware update and before the service is assigned
again; 1 and 12 are the least that share a name. In `Recon` three packets make a flooder (the
handler appends the first one twice), two hosts let one table grow while the other's event
is sent, and two workers meet in each step. The bounds `MaxEvents`, `MaxLate`, `MaxRestarts`,
`MaxChanges`, `MaxQueue`, `MaxPosts`, `MaxSaves`, `MaxJobs`, `MaxFailures`, `MaxTime`,
`MaxWrites`, `MaxEdits`, `MaxFaults`, `MaxPackets` and `MaxUnanswered` cut off only how often
the environment acts, `MaxWorkers` how many workers of recon are at work at once.
`MaxQueue` alone delays a thread: a poll starts only when the queue has room; the code's
queue is unbounded, and the polling interval is at least a minute.

Deadlock is checked in `EventPipeline` and `ConfigPolling`; a server without an update to
make, or with no job and no request left, stops, so the configurations of `ServerUpdate`
and `ConfigArchive` say `CHECK_DEADLOCK FALSE`; so do those of `ServiceManager`, whose
StateWorker may end by an exception, and of `Recon`, where the service may. It is checked
in `ClientEdits`, as a browser can always log in or out.

The passing properties name the exceptions that the code leaves open, and the violation
runs show one behaviour each in which such an exception matters:

* `SubmitsHeldEvents`: the event processor dies of a `TypeError` when a poll fails between
  two reads of the same variable.
* `ConfigurationSurvivesUpdate`: the firmware update copies a truncated archive.
* `MarkerMeansRunning`: two overlapping requests leave a marker nobody removes.
* `NoLegacyMeansNewScheme`: a migration repeated after a crash erases all passwords.
* `ReadyIsOffered`: the last write of the request that creates a sensor overtakes the worker.

`findings` in `PROJECT.json` quotes what the repository says about each.

Other behaviour of the code that the passing properties name as exceptions, in history
variables: a poll of a sensor that fails after `update_config` has changed the
configuration loses the change until the next restart (`lost` of `ConfigPolling`); two
overlapping changes of a sensor leave an archive of neither (`mixed`); a change committed
after a poll with a later time stamp is not supplied until its table changes again (`lost`
of `ClientSync`); containers of another service are destroyed (`hit`) and rules of a former
catch-all stay (`leftover`); after a call of `/sbin/reboot` that failed the flag of the
firmware update stays set, and until the manager is restarted no further one is attempted
(`refused`); recon throws events away and repeats others (`dropped`,
`again`).

### Fairness

* `EventPipeline`: weak fairness of the event processor's thread (the operating system
  schedules it) and of the end of a request. The latter the code relies on rather than
  ensures: `perform_https_request` sets no timeout. Events, polls, shutdowns and restarts
  are not forced; `SubmitsHeldEvents...` assume that polls succeed from some time on.
* `ConfigPolling`: weak fairness of the polling thread (the timer fires, requests end), of
  the state worker, and of the restart of a board on which `/sbin/reboot` has succeeded. A
  start is not forced: the unit file of the BeagleBone has no `Restart`. That polls succeed in the end is an assumption of the properties
  (`Works`), never of the specification; so is a state worker that no hook has killed.
* `ServerUpdate`: weak fairness of the update worker including its start by runit. No
  request is forced to end.
* `ConfigArchive`: the same of the archive worker.
* `ClientEdits` (`FairEditsSpec`): weak fairness of everything that goes on by itself: the
  counter of a logged-in browser starts polls, the server works on the polls it has, an
  answer arrives, a flush ends. Changes, logins, the clock and the answers to edits are not
  forced. `CatchesUp` assumes that the client stays logged in and that polls are not lost
  any more from some time on.
* `ServiceManager`: weak fairness of the start of the manager and of the StateWorker, which
  polls supply with answers; `FollowsAssignment` allows it to have died.
* `Recon`: weak fairness of time, of the timer's start of a worker and of each worker's
  steps, to which the collector's answer belongs; a collector that ends instead is an action
  of its own, bounded by `MaxUnanswered`. Packets and the handler are not forced.

## 4. Proofs

`EventPipelineProofs` proves, for every capacity of the ring, any number of events,
restarts and abandoned requests and any set of malformed events (the assumptions
`CapacityAssumption`, `BoundsAssumption`, `MalformedAssumption`):

* `TypeCorrect`: `Spec => []TypeOK`
* `HeldIsWindowHolds`: `Spec => []HeldIsWindow`
* `FullRingWasOfferedHolds`: `Spec => []FullRingWasOffered`
* `DuplicatesOnlyUnconfirmedHolds`: `Spec => []DuplicatesOnlyUnconfirmed`
* `PromiseIsKept`: `Spec => KeepsPromise`, the refinement of `EventDelivery`

None of the invariants is inductive. That what is held is a window needs the window of
each part and where the parts meet (`Windows`): the removal of the events sent shortens the
ring at its head only if the ring still begins with what was sent (`RequestCarriesRing`).
That duplicates are unconfirmed needs to know that events in the queue were never sent
(`OnlyDequeued`) and that a stored event still held is unconfirmed, or is the one whose
confirmation has just arrived (`HeldAndStored`). The invariant `IInv` is the conjunction
of these with `TypeOK`, and the proof has one step per action and conjunct. The facts about
sequences it uses (concatenation, tails and suffixes) are lemmas of the module.

The refinement has one step for each way in which what is held changes (`HeldSteps`) and
one for the server (`ServerDelivers`). As what is held is always a window, two of the same
length up to the same event are equal: taking an event out of the queue into a ring with
room is a stutter, into a full ring it is `Overwrite`; a successful submission is `Forget`
of as many events as the ring had, and a stutter if there were none. `Deliver` forbids a
batch to overtake an older event that is held. For the request under way this follows from
`IInv`, for one the sensor gave up on it needs `NoOvertaking`: it carried the whole ring of
its time, and all that has come to be held since is newer.

`ConfigPollingProofs` proves, for any number of network settings, any values of which some
cannot be converted, any factory and registered configuration and any bounds
(`SettingsAssumption`, `ValueAssumption`, `FactoryAssumption`, `RegisteredAssumption`,
`BrokenAssumption`, `PollingBoundsAssumption`):

* `TypeCorrect`: `Spec => []TypeOK`
* `ArchivesAreConfigurations`: `Spec => []ArchiveIsOneConfiguration`
* `RestartChangesNothing`: `Spec => []ArchiveIsCurrent`
* `ConfigurationIsApplied`: `Spec => []AppliedIsConfigured`

`TypeOK` itself is not inductive: that the state worker never reads beyond the settings of
the network needs to know which parts run in which phase of the process (`Phases`). The
archive is one configuration because memory holds the answer as far as `update_config` has
come (`TakenOver`) and because a card the board would install from holds what the archive
once was, at whatever time it comes to be used (`OnCard`). That
the operating system follows the configuration is the end of a promise made earlier: a
setting that differs has been touched by the poll under way (`PollLocals` says it will
announce that), was lost with a failed one, or the state worker has yet to come to it, by an
item in its queue or in the pass it is in (`Outstanding`).

The proof has corrected the model. `broke_off`, which excuses an archive that mixes two
configurations, used to be withdrawn by the next full answer, whatever lay on the card. With
three changes and a state queue of two, beyond the bounds of the run, a mixed archive is
copied onto the card, a poll repairs the one in the file system, and the board restarts from
the card: no inductive invariant could exclude it, and TLC, led to it, shows it. This is
what the code does; the exception now follows the copy (`preserved`).

`ServerUpdateProofs` proves, for any users, passwords and requests and any bounds
(`KnownAssumption`, `UpdateBoundsAssumption`):

* `TypeCorrect`: `Spec => []TypeOK`
* `MigrationsAreAnnounced`: `Spec => []MigrationIsAnnounced`
* `UsersCanLogIn`: `Spec => []CredentialsSurvive`

That beanstalkd never holds more jobs than were asked for needs a count over the requests
that are about to put one (`JobsAccounted`). Users can log in because each one who is not
disturbed is at any time on one of the two sides of the migration (`OnEitherSide`), and on
the new side as soon as anything says that the update is complete: the configuration, the
worker about to write it, or a request that has read it and may write it back
(`CompleteMeansMigrated`). What a request knows of the row it is about to write is
`RequestsRead`.

`ConfigArchiveProofs` proves, for any number of concurrent requests, sensors, jobs and
failures and any non-empty set of configurations (`SettingAssumption`,
`ArchiveBoundsAssumption`):

* `TypeCorrect`: `Spec => []TypeOK`
* `OfferedAreComplete`: `Spec => []AvailableIsComplete`
* `LastJobWins`: `Spec => []LastJobIsPacked`
* `ArchivesAreCurrent`: `Spec => []ArchiveIsCurrent`
* `ArchivesNeverGoBack`: `Spec => NeverGoesBack`, an action property

That the archive is the one of the last job needs the jobs of a sensor to be finished in
order (`Ordered`): when the worker overwrites an archive, the last job of that sensor is
then still to come or is the one at hand. `Ordered` is kept when a job is finished because
no older job of an existing sensor waits (`Oldest`), which holds when beanstalkd hands out
its oldest job and stays true because whatever else comes back belongs to deleted sensors
(`KeepsOnlyUseless`), whose identifiers are never given out again (`AboutBorn`). `Written`
follows one job through the worker. That the last job is the sensor's configuration
is the requests' part (`InHand`): of a sensor that is not `mixed` one request at most is
under way, it writes over what it has read, and its job will describe what it has written;
without one, the newest job describes the sensor. No archive goes back to an older job
because no job that may still be done is older than the archive it would replace
(`NoneOlder`).

TLC has checked these invariants, those of `ConfigPollingProofs` and `ServerUpdateProofs`
and `NoOvertaking` on the instances of the runs as well.

`ClientEditsProofs` proves, for any tables, rows, polls, writers and bounds
(`SyncBoundsAssumption`, `EditsAssumption`):

* `TypeCorrect`: `EditsSpec => []EditsTypeOK`
* `NothingIsMissed`: `EditsSpec => []NothingMissed`
* `DraftsHold`: `EditsSpec => []DraftsAreAccountedFor`

A collection that differs from its table must stay one that will be asked for, whatever
answers are under way. So the invariant speaks of every copy a poll carries (`CopiesFresh`):
an answer is fresh as of its time, a question is old enough for the collection it is asked
for, a table that was not listed has not changed or will be listed by a later poll.
`Clocks` orders stamps, flushes and questions in time; `OwnFlushes` is what the lock of the
session gives: while a change of the client itself is flushed, no poll reads the clock.

`ServiceManagerProofs` proves, for any services and names without chains, revisions,
addresses, faults and changes (`ServiceAssumption`):

* `TypeCorrect`: `Spec => []TypeOK`
* `TracksContainersHolds`: `Spec => []TracksContainers`
* `RedirectsToTargetHolds`: `Spec => []RedirectsToTarget`
* `KeepsRunningHolds`: `Spec => KeepsRunning`, an action property

`IInv` adds to the first three what is known of the service being started (`AtHand`,
`ToStart`). For the action property `RInv` adds that a service is started with the revision
of the answer (`AsAnswered`), that what is destroyed in the end is not assigned
(`ToDelete`), and that only containers have addresses (`Addressed`).

`ReconProofs` proves, for any finite set of hosts, any time-outs and numbers of workers,
packets and missing answers (`ReconAssumption`):

* `TypeCorrect`: `Spec => []TypeOK`
* `NoPacketLostHolds`: `Spec => []NoPacketLost`
* `ReportedOnceHolds`: `Spec => []ReportedOnce`

`IInv` adds what the handler and the workers have at each step (`Shape`) and that nobody
has seen a packet the handler has not appended yet (`Fresh`); with it `NoPacketLost` is
inductive. For `ReportedOnce`, `JInv` adds that events have no packet in common
(`OneIncident`), that an event whose only packet is in hand is the handler's alone (`New`),
and that an event is in the table, or with one worker, or reported, but not two of these
(`Once`). TLC has checked the invariant on the instance of the run as well.

Only model-checked is liveness: `SubmitsHeldEventsWhileAlive`, `StopTerminates`,
`TakesOverConfiguration`, `RepeatsFirmwareUpdate`, `JobUpdatesServer`, `EveryJobIsServed`,
`CatchesUp`, `FollowsAssignment`, `EveryEventIsSent` and `FloodersReturn`. Liveness under
fairness and ENABLED are out of the prover's reach here; so are facts that need induction
over data with an operator as parameter, and RECURSIVE operators, which these modules do
not use. The properties of the violation runs are false, and TLC shows why. Every other
property a run checks is a theorem.

## 5. Plan

In this order; each with an MC module, a passing run and its mutants.

1. **Proofs.** Abstract specifications of what the services that run follow
   (`ServiceManager`) and of what a client sees (`ClientSync`), and their refinement.
2. **EventFiltering** (`Events.php`, `EventFilter*.php`): classification, conditions and
   filters as operators with a reference definition over bounded events; counters under
   concurrent requests; composed with the handler of `EventPipeline`.
3. **ServiceManager**: the service network and its subnet, raw network access (where `start`
   waits for an address that never comes), and the order of `enable_docker` and
   `apply_services`; an abstract specification of which services run.
4. **ClientSync**: the browser's views of a server update and of a configuration archive,
   which poll on their own; composed with `ServerUpdate` and `ConfigArchive`.
5. Docker platform's firmware update, with the previous container's removal.

## 6. Not modelled

The Docker platform, event filters and contacts, the command socket and the configuration
updater of the sensor: see the plan and the notes in `PROJECT.json`. The output plugins of
cowrie and dionaea translate an event and wait for the collector's answer; they appear as
the producers of `EventPipeline`.

Installation, CA renewal, statistics, uploads of firmware and services, mail settings, the
web interface's views, build scripts: sequences of database statements or file operations
by a single actor, or presentation. TLS, signatures, certificates and hashing algorithms
are ideal. Third-party code (`js/lib`, `beanstalkc.py`, `pymysql`, Doctrine, Slim) appears
only through what the code relies on: an atomic flush, a job delivered again, a query that
fails on an unknown column. Most lines of JavaScript in the repository are such libraries
(`js/lib`, about nine tenths), so the share of lines that definitions stand for is small
even where the web interface's own synchronisation is modelled in full.
