------------------------- MODULE ConfigPollingProps --------------------------
(***************************************************************************)
(* The correctness properties of ConfigPolling.                            *)
(***************************************************************************)
EXTENDS ConfigPolling

\* Nothing is under way on the sensor: no poll, and the StateWorker waits for work.
Quiescent ==
    proc = "up" /\ poll = "idle" /\ state_queue = <<>> /\ worker = "idle"

(***************************************************************************)
(* The StateWorker reads the settings while the polling thread may be      *)
(* changing them, and so may apply a mixture of two configurations.  Once  *)
(* both have come to rest, the operating system is set up with what the    *)
(* configuration says, except for settings whose change was lost with a    *)
(* failed poll (polling.py, lines 132-178 and 54; state.py, lines 26-50).  *)
(***************************************************************************)
AppliedIsConfigured ==
    Quiescent => \A s \in Setting \ lost : applied[s] = cfg[s]

(***************************************************************************)
(* The archive a sensor would start from holds one of the configurations   *)
(* the server has sent, never parts of two: honeysens.cfg and the archive  *)
(* are written only after all settings have been taken over (polling.py,   *)
(* lines 179-196), unless a value that cannot be converted has broken off  *)
(* update_config and nothing has replaced its half of a configuration.     *)
(***************************************************************************)
ArchiveIsOneConfiguration == archive \in issued \cup {Broken} \/ broke_off

(***************************************************************************)
(* After a poll that counts as successful the archive holds exactly the    *)
(* configuration in memory: a restart of the manager at rest changes       *)
(* nothing (polling.py, lines 47-50 and 194-196).                          *)
(***************************************************************************)
ArchiveIsCurrent ==
    last_ok /\ poll = "idle" => archive = cfg

-----------------------------------------------------------------------------
(***************************************************************************)
(* Fairness: each thread runs as long as it can, requests are answered or  *)
(* fail, and a board that was told to restart does.  Nothing forces an     *)
(* administrator, a start, a shutdown or the end of the process, or the    *)
(* loss of power; what keeps failing may fail for ever.                    *)
(***************************************************************************)
FairSpec ==
    /\ Spec
    /\ WF_vars(Polling)
    /\ WF_vars(StateWorker)
    /\ WF_vars(rebooting /\ Reboot)

\* From some point on the manager runs, polls succeed, and the server never answers
\* with an error any more.
Works ==
    /\ <>[](proc = "up" /\ worker # "dead" /\ last_ok)
    /\ <>[](poll = "update" => answer.settings # NoSettings)

(***************************************************************************)
(* A sensor that works takes over the configuration of the server and, as  *)
(* far as no change of it was lost with a failed poll, applies it for good *)
(* (polling.py, lines 39-72; state.py, lines 26-36).                       *)
(***************************************************************************)
TakesOverConfiguration ==
    Works => <>[](cfg = desired /\ \A s \in Setting \ lost : applied[s] = desired[s])

(***************************************************************************)
(* A firmware the server keeps offering is attempted again and again until *)
(* it is installed: an update that fails leaves nothing behind that        *)
(* prevents the next one (bbb.py, lines 116-128 and 170-173), unless it    *)
(* was the call of /sbin/reboot at its end that failed (line 169).         *)
(***************************************************************************)
RepeatsFirmwareUpdate ==
    Works /\ <>[]firmware => []<>(worker = "fetch") \/ <>[]refused

-----------------------------------------------------------------------------
(***************************************************************************)
(* "The current sensor configuration will survive that process"            *)
(* (sensor/platforms/bbb/Readme.md, line 2, on the firmware update): what  *)
(* is on the card when the board is told to restart is a usable archive.   *)
(***************************************************************************)
ConfigurationSurvivesUpdate == rebooting => card # Broken

=============================================================================
