---------------------------- MODULE ConfigPolling ----------------------------
(***************************************************************************)
(* How a configuration change on the server reaches a sensor and its       *)
(* operating system: the polling thread, the configuration it shares with  *)
(* the StateWorker thread, the configuration archive on disk, the firmware *)
(* update of the BeagleBone Black platform (which runs inside the          *)
(* StateWorker) and startup, shutdown and crash of the sensor manager.     *)
(*                                                                         *)
(* Setting 0 stands for general/service_network, which is applied on every *)
(* pass of the StateWorker; settings 1..NetworkSettings stand for the ones *)
(* whose change raises network_changed, and which the platform applies     *)
(* only if it is raised, in the order in which update_config treats them.  *)
(***************************************************************************)
EXTENDS Naturals, Sequences, FiniteSets

CONSTANTS
    NetworkSettings,  \* how many settings raise network_changed
    Value,            \* what a setting can be
    Unencodable,      \* values for which str() raises (text outside ASCII)
    Factory,          \* the configuration the sensor was installed with
    Broken,           \* an archive that cannot be unpacked and parsed
    Blank,            \* a memory card the board does not install a firmware from
    Registered,       \* bound: configurations the server may hold at first
    MaxChanges,       \* bound: changes an administrator makes
    MaxQueue          \* bound: passes the StateWorker may lag behind

Setting == 0..NetworkSettings
Network == 1..NetworkSettings
Config == [Setting -> Value]

ASSUME SettingsAssumption == NetworkSettings \in Nat \ {0}
ASSUME ValueAssumption == Unencodable \subseteq Value
ASSUME FactoryAssumption == Factory \in [Setting -> Value \ Unencodable]
ASSUME RegisteredAssumption == Registered \subseteq Config
ASSUME BrokenAssumption == Broken \notin Config /\ Blank \notin Config \cup {Broken}
ASSUME PollingBoundsAssumption == MaxChanges \in Nat /\ MaxQueue \in Nat \ {0}

\* An answer of the server without settings: the body of an HTTP error is a JSON
\* object as well, and the polling worker does not look at the status code.
NoSettings == <<>>

VARIABLES
    desired,      \* the configuration the server holds for the sensor
    firmware,     \* the server offers a firmware the sensor does not run
    changes,      \* changes made so far
    proc,         \* the manager process: "down", "boot", "starting", "up",
                  \* "stopping", "removed" (its directory), "hung"
    cfg,          \* polling._config, shared with the StateWorker
    archive,      \* the configuration archive on disk
    applied,      \* what the operating system of the sensor is set up with
    poll,         \* where the polling thread is; "off" without an armed timer
    answer,       \* the answer being processed: settings and firmware offer
    next,         \* the setting update_config treats next
    changed,      \* its local variable network_changed
    last_ok,      \* _last_successful_poll is set
    state_queue,  \* Manager.state_queue
    worker,       \* where the StateWorker thread is
    item,         \* the item it works on
    reading,      \* the setting platform.apply_config reads next
    updating,     \* firmware_update_in_progress
    card,         \* the archive preserved on the new firmware's memory card, or Blank
    rebooting,    \* /sbin/reboot has been called, and the board is about to restart
    refused,      \* /sbin/reboot has failed since the manager was started
    issued,       \* configurations the server has sent
    touched,      \* settings the current poll has changed
    lost,         \* settings changed by a poll that failed, and not applied since
    broke_off,    \* update_config has raised between two settings, and no poll
                  \* has brought a full set of settings since
    preserved     \* broke_off when the archive was preserved on the card

server == <<desired, firmware, changes, issued>>
polling == <<poll, answer, next, changed, touched, last_ok>>
sdcard == <<card, preserved, rebooting, refused>>
stateworker == <<worker, item, reading, updating, sdcard>>
vars == <<desired, firmware, changes, proc, cfg, archive, applied, poll, answer,
          next, changed, touched, last_ok, state_queue, worker, item, reading,
          updating, card, rebooting, refused, issued, lost, broke_off, preserved>>

Answer == [settings : Config \cup {NoSettings}, firmware : BOOLEAN]
Item == [changed : BOOLEAN, firmware : BOOLEAN]
NoAnswer == [settings |-> NoSettings, firmware |-> FALSE]
NoItem == [changed |-> FALSE, firmware |-> FALSE]

\* A firmware update is made: the firmware is fetched, on the card, and so is the archive.
Updating == {"fetch", "flash", "copied"}

\* The manager's threads exist.
Running == {"starting", "up", "stopping", "removed"}

TypeOK ==
    /\ desired \in Config
    /\ firmware \in BOOLEAN
    /\ changes \in 0..MaxChanges
    /\ proc \in {"down", "boot", "hung"} \cup Running
    /\ cfg \in Config
    /\ archive \in Config \cup {Broken}
    /\ applied \in Config
    /\ poll \in {"off", "idle", "request", "update", "archive", "enqueue"}
    /\ answer \in Answer
    /\ next \in 0..NetworkSettings + 1
    /\ changed \in BOOLEAN
    /\ touched \in SUBSET Setting
    /\ last_ok \in BOOLEAN
    /\ state_queue \in Seq(Item)
    /\ worker \in {"off", "idle", "network", "update", "services", "dead"} \cup Updating
    /\ item \in Item
    /\ reading \in 1..NetworkSettings + 1
    /\ updating \in BOOLEAN
    /\ card \in Config \cup {Broken, Blank}
    /\ rebooting \in BOOLEAN
    /\ refused \in BOOLEAN
    /\ issued \in SUBSET Config
    /\ lost \in SUBSET Setting
    /\ broke_off \in BOOLEAN
    /\ preserved \in BOOLEAN

\* The server's configuration may have been edited since the archive was made.
Init ==
    /\ desired \in Registered
    /\ firmware = FALSE
    /\ changes = 0
    /\ proc = "down"
    /\ cfg = Factory
    /\ archive = Factory
    /\ applied = Factory
    /\ poll = "off"
    /\ answer = NoAnswer
    /\ next = 0
    /\ changed = FALSE
    /\ touched = {}
    /\ last_ok = FALSE
    /\ state_queue = <<>>
    /\ worker = "off"
    /\ item = NoItem
    /\ reading = 1
    /\ updating = FALSE
    /\ card = Blank
    /\ rebooting = FALSE
    /\ refused = FALSE
    /\ issued = {Factory}
    /\ lost = {}
    /\ broke_off = FALSE
    /\ preserved = FALSE

-----------------------------------------------------------------------------
(* The server *)

\* An administrator edits the sensor or registers a default firmware.
AdminChanges ==
    /\ changes < MaxChanges
    /\ changes' = changes + 1
    /\ \/ desired' \in Config /\ UNCHANGED firmware
       \/ firmware' = TRUE /\ UNCHANGED desired
    /\ UNCHANGED <<proc, cfg, archive, applied, polling, state_queue, stateworker,
                   issued, lost, broke_off>>

-----------------------------------------------------------------------------
(* The polling thread *)

\* The timer fires: hooks, collection of the status, POST api/sensors/status.
PollStart ==
    /\ proc \in Running
    /\ poll = "idle"
    /\ Len(state_queue) < MaxQueue
    /\ poll' = "request"
    /\ UNCHANGED <<server, proc, cfg, archive, applied, answer, next, changed, touched,
                   last_ok, state_queue, stateworker, lost, broke_off>>

\* The server answers with the sensor's configuration, or with an error object.
ServerAnswers ==
    /\ poll = "request"
    /\ \/ /\ answer' = [settings |-> desired, firmware |-> firmware]
          /\ issued' = issued \cup {desired}
       \/ answer' = NoAnswer /\ UNCHANGED issued
    /\ poll' = "update"
    /\ next' = 0
    /\ changed' = FALSE
    /\ touched' = {}
    /\ UNCHANGED <<desired, firmware, changes, proc, cfg, archive, applied, last_ok,
                   state_queue, stateworker, lost, broke_off>>

\* Whether update_config can convert the setting it has come to.
Raises == next \in DOMAIN answer.settings /\ answer.settings[next] \in Unencodable

\* Mutant of SetSetting: network_changed speaks of the last setting only.
SetSettingForgets ==
    /\ poll = "update"
    /\ next \in Setting
    /\ ~ Raises
    /\ changed' = (next \in Network /\ next \in DOMAIN answer.settings
                   /\ answer.settings[next] # cfg[next])
    /\ IF next \in DOMAIN answer.settings /\ answer.settings[next] # cfg[next]
       THEN /\ cfg' = [cfg EXCEPT ![next] = answer.settings[next]]
            /\ touched' = touched \cup {next}
       ELSE UNCHANGED <<cfg, touched>>
    /\ next' = next + 1
    /\ UNCHANGED <<server, proc, archive, applied, poll, answer, last_ok, state_queue,
                   stateworker, lost, broke_off>>

\* update_config writes one setting into the shared configuration, if the answer
\* has it.  A setting of the network that differs raises network_changed.
SetSetting ==
    /\ poll = "update"
    /\ next \in Setting
    /\ ~ Raises
    /\ IF next \in DOMAIN answer.settings /\ answer.settings[next] # cfg[next]
       THEN /\ cfg' = [cfg EXCEPT ![next] = answer.settings[next]]
            /\ changed' = (changed \/ next \in Network)
            /\ touched' = touched \cup {next}
       ELSE UNCHANGED <<cfg, changed, touched>>
    /\ next' = next + 1
    /\ UNCHANGED <<server, proc, archive, applied, poll, answer, last_ok, state_queue,
                   stateworker, lost, broke_off>>

\* Mutant of SaveConfig: the archive is written while settings are outstanding.
SaveEarly ==
    /\ poll = "update"
    /\ next \in 1..NetworkSettings + 1
    /\ proc # "removed"
    /\ archive' = Broken
    /\ poll' = "archive"
    /\ UNCHANGED <<server, proc, cfg, applied, answer, next, changed, touched,
                   last_ok, state_queue, stateworker, lost, broke_off>>

\* honeysens.cfg and new certificates are written to the configuration directory,
\* and opening the archive for writing truncates it.
SaveConfig ==
    /\ poll = "update"
    /\ next = NetworkSettings + 1
    /\ proc # "removed"
    /\ archive' = Broken
    /\ poll' = "archive"
    /\ UNCHANGED <<server, proc, cfg, applied, answer, next, changed, touched,
                   last_ok, state_queue, stateworker, lost, broke_off>>

\* Mutant of WriteArchive: the answer is archived, and not what it was merged into.
WriteAnswer ==
    /\ poll = "archive"
    /\ proc # "removed"
    /\ archive' = answer.settings
    /\ poll' = "enqueue"
    /\ UNCHANGED <<server, proc, cfg, applied, answer, next, changed, touched,
                   last_ok, state_queue, stateworker, lost, broke_off>>

\* The files of the configuration directory are packed into the archive.
WriteArchive ==
    /\ poll = "archive"
    /\ proc # "removed"
    /\ archive' = cfg
    /\ poll' = "enqueue"
    /\ UNCHANGED <<server, proc, cfg, applied, answer, next, changed, touched,
                   last_ok, state_queue, stateworker, lost, broke_off>>

\* Mutant of Reschedule: the timer is not armed again.
RescheduleNot ==
    /\ poll' = "off"
    /\ next' = 0
    /\ changed' = FALSE
    /\ touched' = {}
    /\ proc' = IF proc = "starting" THEN "up" ELSE proc

\* Both outcomes of a poll arm the timer anew; the first poll runs in the main
\* thread, which goes on to start the event processor and the collector.
Reschedule ==
    /\ poll' = "idle"
    /\ next' = 0
    /\ changed' = FALSE
    /\ touched' = {}
    /\ proc' = IF proc = "starting" THEN "up" ELSE proc

\* The poll has succeeded: the StateWorker is told.
Enqueue ==
    /\ poll = "enqueue"
    /\ last_ok' = TRUE
    /\ state_queue' = Append(state_queue, [changed |-> changed, firmware |-> answer.firmware])
    /\ lost' = IF changed THEN {} ELSE lost \ {0}
    /\ broke_off' = (broke_off /\ answer.settings = NoSettings)
    /\ Reschedule
    /\ UNCHANGED <<server, cfg, archive, applied, answer, stateworker>>

\* Mutant of PollFails: the connection is not marked as lost.
PollFailsUnnoticed ==
    /\ \/ poll = "request" /\ UNCHANGED broke_off
       \/ poll = "update" /\ next \in Setting /\ Raises /\ broke_off' = TRUE
       \/ poll = "update" /\ next = NetworkSettings + 1 /\ UNCHANGED broke_off
       \/ poll = "archive" /\ UNCHANGED broke_off
    /\ lost' = lost \cup touched
    /\ answer' = NoAnswer
    /\ Reschedule
    /\ UNCHANGED <<server, cfg, archive, applied, last_ok, state_queue, stateworker>>

\* An exception before any setting is changed (server unreachable, an answer that
\* is no JSON), by a value that cannot be converted, or from the file system:
\* trigger_conn_error, and the poll is repeated after a minute.
PollFails ==
    /\ \/ poll = "request" /\ UNCHANGED broke_off
       \/ poll = "update" /\ next \in Setting /\ Raises /\ broke_off' = TRUE
       \/ poll = "update" /\ next = NetworkSettings + 1 /\ UNCHANGED broke_off
       \/ poll = "archive" /\ UNCHANGED broke_off
    /\ last_ok' = FALSE
    /\ lost' = lost \cup touched
    /\ answer' = NoAnswer
    /\ Reschedule
    /\ UNCHANGED <<server, cfg, archive, applied, state_queue, stateworker>>

Polling == PollStart \/ ServerAnswers \/ SetSetting \/ SaveConfig \/ WriteArchive
              \/ Enqueue \/ PollFails

-----------------------------------------------------------------------------
(* The StateWorker thread *)

\* The loop condition is checked before every pass.
NextPass == IF proc \in {"stopping", "removed"} THEN "off" ELSE "idle"

\* queue.get returns an item.  A change of the network stops all services first.
TakeState ==
    /\ worker = "idle"
    /\ state_queue # <<>>
    /\ item' = Head(state_queue)
    /\ state_queue' = Tail(state_queue)
    /\ worker' = IF item'.changed THEN "network" ELSE "update"
    /\ UNCHANGED <<server, proc, cfg, archive, applied, polling, reading, updating, sdcard,
                   lost, broke_off>>

\* queue.get times out after the stop event was set.
WorkerStops ==
    /\ worker = "idle"
    /\ state_queue = <<>>
    /\ NextPass = "off"
    /\ worker' = "off"
    /\ UNCHANGED <<server, proc, cfg, archive, applied, polling, state_queue, item,
                   reading, updating, sdcard, lost, broke_off>>

\* platform.apply_config reads the settings of the network one after the other
\* from the configuration it shares with the polling thread.
ApplySetting ==
    /\ worker = "network"
    /\ applied' = [applied EXCEPT ![reading] = cfg[reading]]
    /\ reading' = reading + 1
    /\ worker' = IF reading = NetworkSettings THEN "update" ELSE "network"
    /\ UNCHANGED <<server, proc, cfg, archive, polling, state_queue, item, updating,
                   sdcard, lost, broke_off>>

\* Platform.update: nothing to do, or an update is under way already.
NoUpdate ==
    /\ worker = "update"
    /\ ~ item.firmware \/ updating
    /\ worker' = "services"
    /\ UNCHANGED <<server, proc, cfg, archive, applied, polling, state_queue, item,
                   reading, updating, sdcard, lost, broke_off>>

\* It destroys all services and downloads the firmware ...
StartUpdate ==
    /\ worker = "update"
    /\ item.firmware /\ ~ updating
    /\ updating' = TRUE
    /\ worker' = "fetch"
    /\ UNCHANGED <<server, proc, cfg, archive, applied, polling, state_queue, item,
                   reading, sdcard, lost, broke_off>>

\* ... writes it to the card, whatever there was on it ...
WriteImage ==
    /\ worker = "fetch"
    /\ card' = Blank
    /\ preserved' = FALSE
    /\ worker' = "flash"
    /\ UNCHANGED <<server, proc, cfg, archive, applied, polling, state_queue, item,
                   reading, updating, rebooting, refused, lost, broke_off>>

\* ... and the configuration archive as well, which the installer takes over ...
PreserveArchive ==
    /\ worker = "flash"
    /\ card' = archive
    /\ preserved' = broke_off
    /\ worker' = "copied"
    /\ UNCHANGED <<server, proc, cfg, archive, applied, polling, state_queue, item,
                   reading, updating, rebooting, refused, lost, broke_off>>

\* Mutant of UpdateFails: the flag stays set.
UpdateFailsForGood ==
    /\ worker \in Updating
    /\ worker' = "services"
    /\ UNCHANGED <<server, proc, cfg, archive, applied, polling, state_queue, item,
                   reading, updating, sdcard, lost, broke_off>>

\* ... which may fail up to the unmounting of the card: the temporary directory and the
\* flag are removed, what is on the card stays.
UpdateFails ==
    /\ worker \in Updating
    /\ card' \in IF worker = "flash" THEN {card, Broken} ELSE {card}
    /\ updating' = FALSE
    /\ worker' = "services"
    /\ UNCHANGED <<server, proc, cfg, archive, applied, polling, state_queue, item,
                   reading, preserved, rebooting, refused, lost, broke_off>>

\* At last /sbin/reboot is called, which does not wait for the board to restart; nor is it
\* looked at whether the board will.  The update ends with the flag set.
CallReboot ==
    /\ worker = "copied"
    /\ \/ rebooting' = TRUE /\ UNCHANGED refused
       \/ refused' = TRUE /\ UNCHANGED rebooting
    /\ worker' = "services"
    /\ UNCHANGED <<server, proc, cfg, archive, applied, polling, state_queue, item,
                   reading, updating, card, preserved, lost, broke_off>>

\* The remaining hooks: the network of the services and the services themselves.
ApplyServices ==
    /\ worker = "services"
    /\ applied' = [applied EXCEPT ![0] = cfg[0]]
    /\ worker' = NextPass
    /\ item' = NoItem
    /\ reading' = 1
    /\ UNCHANGED <<server, proc, cfg, archive, polling, state_queue,
                   updating, sdcard, lost, broke_off>>

\* A hook raises: nothing catches the exception, the thread is gone.  So does the update
\* if it cannot remove its temporary directory after a failure, which is already gone
\* when /sbin/reboot cannot be called.
HookRaises ==
    /\ worker \in {"network", "update", "services"} \cup Updating
    /\ worker' = "dead"
    /\ item' = NoItem
    /\ reading' = 1
    /\ UNCHANGED <<server, proc, cfg, archive, applied, polling, state_queue,
                   updating, sdcard, lost, broke_off>>

StateWorker == TakeState \/ WorkerStops \/ ApplySetting \/ NoUpdate \/ StartUpdate
                  \/ WriteImage \/ PreserveArchive \/ UpdateFails \/ CallReboot
                  \/ ApplyServices \/ HookRaises

-----------------------------------------------------------------------------
(* The main thread and the process *)

\* init_config unpacks the archive; if it cannot, the process exits again.  Nothing is
\* started while the board goes down.
Boot ==
    /\ proc = "down"
    /\ ~ rebooting
    /\ IF archive = Broken
       THEN UNCHANGED <<proc, cfg>>
       ELSE proc' = "boot" /\ cfg' = archive
    /\ UNCHANGED <<server, archive, applied, polling, state_queue, stateworker,
                   lost, broke_off>>

\* Manager.start applies what it loaded as if the network had changed, and polls.
InitialApply ==
    /\ proc = "boot"
    /\ proc' = "starting"
    /\ applied' = cfg
    /\ lost' = {}
    /\ worker' = "idle"
    /\ poll' = "request"
    /\ UNCHANGED <<server, cfg, archive, answer, next, changed, touched, last_ok,
                   state_queue, item, reading, updating, sdcard, broke_off>>

\* A hook raises in the main thread, which ends; the StateWorker, not a daemon
\* thread, keeps the process from exiting.
InitialApplyRaises ==
    /\ proc = "boot"
    /\ proc' = "hung"
    /\ worker' = "idle"
    /\ UNCHANGED <<server, cfg, archive, applied, polling, state_queue, item, reading,
                   updating, sdcard, lost, broke_off>>

\* Manager.shutdown cancels the timer, which does not stop a poll under way.
Shutdown ==
    /\ proc = "up"
    /\ proc' = "stopping"
    /\ poll' = IF poll = "idle" THEN "off" ELSE poll
    /\ UNCHANGED <<server, cfg, archive, applied, answer, next, changed, touched,
                   last_ok, state_queue, stateworker, lost, broke_off>>

\* With the StateWorker joined, the configuration directory is removed.
RemoveConfigDir ==
    /\ proc = "stopping"
    /\ worker \in {"off", "dead"}
    /\ proc' = "removed"
    /\ UNCHANGED <<server, cfg, archive, applied, polling, state_queue, stateworker,
                   lost, broke_off>>

\* The process ends, and with it the polling thread, wherever it is.
Ends ==
    /\ proc' = "down"
    /\ poll' = "off"
    /\ answer' = NoAnswer
    /\ next' = 0
    /\ changed' = FALSE
    /\ touched' = {}
    /\ last_ok' = FALSE
    /\ state_queue' = <<>>
    /\ worker' = "off"
    /\ item' = NoItem
    /\ reading' = 1
    /\ updating' = FALSE
    /\ refused' = FALSE
    /\ UNCHANGED <<desired, changes, cfg, applied, issued, lost>>

\* sys.exit at the end of a shutdown, or a crash at any time.
Exit ==
    /\ proc # "down"
    /\ Ends
    /\ UNCHANGED <<firmware, archive, card, preserved, rebooting, broke_off>>

\* The board restarts, because it was told to or has lost its power.  From a card that is
\* complete it installs the firmware and the archive, and makes the card unbootable.
Reboot ==
    /\ card # Blank
    /\ archive' = card
    /\ firmware' = FALSE
    /\ broke_off' = preserved
    /\ card' = Blank
    /\ preserved' = FALSE
    /\ rebooting' = FALSE
    /\ Ends

Main == Boot \/ InitialApply \/ InitialApplyRaises \/ Shutdown \/ RemoveConfigDir

Next == AdminChanges \/ Polling \/ StateWorker \/ Main \/ Exit \/ Reboot

Spec == Init /\ [][Next]_vars

=============================================================================
