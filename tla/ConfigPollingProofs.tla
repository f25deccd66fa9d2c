------------------------- MODULE ConfigPollingProofs -------------------------
(***************************************************************************)
(* Proofs of the safety properties of ConfigPolling, for any number of     *)
(* settings, any values and any bounds.                                    *)
(*                                                                         *)
(* None of the properties is inductive alone.  That the archive is one     *)
(* configuration rests on what update_config has taken over of an answer   *)
(* so far (TakenOver), and on the card that a board restarts from          *)
(* (OnCard).  That the operating system is set up with the configuration   *)
(* once both threads rest is the end of a longer promise: a setting that   *)
(* differs has been touched by the poll under way, was lost with a failed  *)
(* one, or the StateWorker has yet to come to it (Outstanding).            *)
(***************************************************************************)
EXTENDS ConfigPollingProps, SequenceTheorems, TLAPS

USE SettingsAssumption, ValueAssumption, FactoryAssumption, RegisteredAssumption,
    BrokenAssumption, PollingBoundsAssumption

\* A poll keeps its local variables only while it is under way.
PollLocals ==
    /\ poll \in {"off", "idle", "request"} => next = 0 /\ ~ changed /\ touched = {}
    /\ poll \in {"archive", "enqueue"} => next = NetworkSettings + 1
    /\ touched \cap Network # {} => changed

\* What runs in which phase of the process.
Phases ==
    /\ proc \in {"down", "boot", "hung"} => poll = "off" /\ ~ last_ok /\ state_queue = <<>>
    /\ proc \in {"down", "boot"} => worker = "off"
    /\ proc = "starting" => poll \notin {"off", "idle"}
    /\ worker = "off" => proc \notin {"starting", "up"}
    /\ worker \in {"off", "idle", "dead"} => reading = 1
    /\ worker = "network" => reading \in Network

\* An archive that cannot be unpacked, or one the server has sent.
Sound(a) == a \in issued \cup {Broken}

\* While update_config goes through an answer, cfg is the answer up to next.
TakenOver ==
    /\ answer.settings \in issued \cup {NoSettings}
    /\ poll \in {"update", "archive", "enqueue"} /\ answer.settings # NoSettings =>
          \A s \in Setting : s < next => cfg[s] = answer.settings[s]
    /\ proc # "down" =>
          cfg \in issued \/ broke_off \/ (poll = "update" /\ answer.settings # NoSettings)
    /\ poll = "enqueue" => archive = cfg

\* A card that the board installs from holds an archive like any other.
OnCard == card = Blank \/ Sound(card) \/ preserved

\* The StateWorker has yet to apply a setting: an item that waits makes it, or it is
\* on its way to that setting.
WillApply(s) ==
    \/ \E i \in 1..Len(state_queue) : s = 0 \/ state_queue[i].changed
    \/ s = 0 /\ worker # "idle"
    \/ worker = "network" /\ reading <= s

\* A setting is applied, or will be, or was changed by a poll that has not told yet.
Outstanding ==
    proc \in {"starting", "up"} /\ worker # "dead" =>
        \A s \in Setting \ (lost \cup touched) : applied[s] = cfg[s] \/ WillApply(s)


IInv ==
    /\ TypeOK
    /\ PollLocals
    /\ Phases
    /\ TakenOver
    /\ OnCard
    /\ Outstanding
    /\ ArchiveIsOneConfiguration
    /\ ArchiveIsCurrent

-----------------------------------------------------------------------------
(***************************************************************************)
(* Type correctness.  That reading never leaves the settings of the        *)
(* network needs Phases.                                                   *)
(***************************************************************************)
LEMMA FactoryConfig == Factory \in Config
BY DEF Config

\* A poll that has an answer reads it setting by setting.
LEMMA AnswerDomain ==
    ASSUME TypeOK
    PROVE  /\ answer.settings \in Config \/ answer.settings = NoSettings
           /\ answer.settings # NoSettings =>
                  DOMAIN answer.settings = Setting /\ \A s \in Setting : answer.settings[s] \in Value
           /\ answer.settings = NoSettings => DOMAIN answer.settings = {}
           /\ answer.firmware \in BOOLEAN
<1>1. answer \in Answer
  BY DEF TypeOK
<1>2. DOMAIN NoSettings = {}
  BY EmptySeq DEF NoSettings
<1>. QED  BY <1>1, <1>2 DEF Answer, Config

\* What waits for the StateWorker, and what is left when it takes the first.
LEMMA Queue ==
    ASSUME TypeOK
    PROVE  /\ Len(state_queue) \in Nat
           /\ \A i \in 1..Len(state_queue) : state_queue[i] \in Item /\ state_queue[i].changed \in BOOLEAN
           /\ state_queue # <<>> =>
                 /\ Head(state_queue) \in Item
                 /\ Head(state_queue) = state_queue[1]
                 /\ Tail(state_queue) \in Seq(Item)
                 /\ Len(state_queue) >= 1
                 /\ Len(Tail(state_queue)) = Len(state_queue) - 1
                 /\ \A i \in 1..Len(Tail(state_queue)) : Tail(state_queue)[i] = state_queue[i + 1]
<1>1. state_queue \in Seq(Item)
  BY DEF TypeOK
<1>2. Len(state_queue) \in Nat
  BY <1>1, LenProperties
<1>3. \A i \in 1..Len(state_queue) : state_queue[i] \in Item /\ state_queue[i].changed \in BOOLEAN
  <2>1. \A i \in 1..Len(state_queue) : state_queue[i] \in Item
    BY <1>1, ElementOfSeq
  <2>. QED  BY <2>1 DEF Item
<1>4. state_queue # <<>> => Len(state_queue) >= 1
  BY <1>1, <1>2, EmptySeq
<1>. QED  BY <1>1, <1>2, <1>3, <1>4, HeadTailProperties

LEMMA TypeOKInit == Init => TypeOK
<1>1. <<>> \in Seq(Item) /\ NoAnswer \in Answer /\ NoItem \in Item
  BY EmptySeq DEF NoAnswer, Answer, NoItem, Item
<1>2. Init => /\ firmware \in BOOLEAN /\ changed \in BOOLEAN /\ last_ok \in BOOLEAN
              /\ rebooting \in BOOLEAN /\ refused \in BOOLEAN
              /\ updating \in BOOLEAN /\ broke_off \in BOOLEAN /\ preserved \in BOOLEAN
  BY DEF Init
<1>3. Init => touched \in SUBSET Setting /\ lost \in SUBSET Setting
  BY DEF Init
<1>. QED
  BY <1>1, <1>2, <1>3, FactoryConfig DEF Init, TypeOK, Running

LEMMA TypeOKPolling ==
    ASSUME IInv, Polling
    PROVE  TypeOK'
<1>. USE DEF IInv, sdcard
<1>1. CASE PollStart
  BY <1>1 DEF PollStart, TypeOK, server, stateworker
<1>2. CASE ServerAnswers
  <2>1. answer' \in Answer /\ issued' \in SUBSET Config
    <3>1. [settings |-> desired, firmware |-> firmware] \in Answer
      BY DEF TypeOK, Answer
    <3>2. NoAnswer \in Answer
      BY DEF NoAnswer, Answer
    <3>. QED  BY <1>2, <3>1, <3>2 DEF ServerAnswers, TypeOK
  <2>2. changed' \in BOOLEAN /\ touched' \in SUBSET Setting
    BY <1>2 DEF ServerAnswers
  <2>3. poll' = "update" /\ next' = 0
        /\ UNCHANGED <<desired, firmware, changes, proc, cfg, archive, applied, last_ok,
                       state_queue, stateworker, lost, broke_off>>
    BY <1>2 DEF ServerAnswers
  <2>. QED  BY <2>1, <2>2, <2>3 DEF TypeOK, stateworker
<1>3. CASE SetSetting
  <2>1. cfg' \in Config
    BY <1>3, AnswerDomain DEF SetSetting, TypeOK, Config
  <2>2. changed' \in BOOLEAN
    BY <1>3 DEF SetSetting, TypeOK
  <2>3. touched' \in SUBSET Setting /\ next' \in 0..NetworkSettings + 1
    <3>1. next \in Setting /\ next + 1 \in 0..NetworkSettings + 1
      BY <1>3 DEF SetSetting, TypeOK, Setting
    <3>2. touched \in SUBSET Setting
      BY DEF TypeOK
    <3>. QED  BY <1>3, <3>1, <3>2 DEF SetSetting
  <2>4. UNCHANGED <<server, proc, archive, applied, poll, answer, last_ok, state_queue,
                    stateworker, lost, broke_off>>
    BY <1>3 DEF SetSetting
  <2>. QED  BY <2>1, <2>2, <2>3, <2>4 DEF TypeOK, server, stateworker
<1>4. CASE SaveConfig
  BY <1>4 DEF SaveConfig, TypeOK, server, stateworker
<1>5. CASE WriteArchive
  BY <1>5 DEF WriteArchive, TypeOK, server, stateworker
<1>6. CASE Enqueue
  <2>1. [changed |-> changed, firmware |-> answer.firmware] \in Item
    BY AnswerDomain DEF TypeOK, Item
  <2>2. state_queue' \in Seq(Item)
    BY <1>6, <2>1, AppendProperties DEF Enqueue, TypeOK
  <2>3. /\ last_ok' \in BOOLEAN /\ changed' \in BOOLEAN /\ broke_off' \in BOOLEAN
        /\ lost' \in SUBSET Setting /\ touched' \in SUBSET Setting
    BY <1>6 DEF Enqueue, Reschedule, TypeOK
  <2>4. poll' = "idle" /\ next' = 0 /\ proc' \in {proc, "up"}
        /\ UNCHANGED <<server, cfg, archive, applied, answer, stateworker>>
    BY <1>6 DEF Enqueue, Reschedule
  <2>. QED  BY <2>2, <2>3, <2>4 DEF TypeOK, server, stateworker, Running
<1>7. CASE PollFails
  <2>1. NoAnswer \in Answer
    BY DEF NoAnswer, Answer
  <2>2. /\ last_ok' \in BOOLEAN /\ changed' \in BOOLEAN /\ broke_off' \in BOOLEAN
        /\ lost' \in SUBSET Setting /\ touched' \in SUBSET Setting
    BY <1>7 DEF PollFails, Reschedule, TypeOK
  <2>3. poll' = "idle" /\ next' = 0 /\ proc' \in {proc, "up"} /\ answer' = NoAnswer
        /\ UNCHANGED <<server, cfg, archive, applied, state_queue, stateworker>>
    BY <1>7 DEF PollFails, Reschedule
  <2>. QED  BY <2>1, <2>2, <2>3 DEF TypeOK, server, stateworker, Running
<1>. QED  BY <1>1, <1>2, <1>3, <1>4, <1>5, <1>6, <1>7 DEF Polling

LEMMA TypeOKStateWorker ==
    ASSUME IInv, StateWorker
    PROVE  TypeOK'
<1>. USE DEF IInv, sdcard, Updating
<1>1. CASE TakeState
  BY <1>1, Queue DEF TakeState, TypeOK, server, polling
<1>2. CASE WorkerStops
  BY <1>2 DEF WorkerStops, TypeOK, server, polling
<1>3. CASE ApplySetting
  <2>1. reading \in Setting /\ reading + 1 \in 1..NetworkSettings + 1
    BY <1>3 DEF ApplySetting, Phases, Network, Setting
  <2>2. applied' \in Config
    BY <1>3, <2>1 DEF ApplySetting, TypeOK, Config
  <2>. QED  BY <1>3, <2>1, <2>2 DEF ApplySetting, TypeOK, server, polling
<1>4. CASE NoUpdate
  BY <1>4 DEF NoUpdate, TypeOK, server, polling
<1>5. CASE StartUpdate
  BY <1>5 DEF StartUpdate, TypeOK, server, polling
<1>6. CASE UpdateFails
  <2>1. updating' \in BOOLEAN /\ worker' = "services" /\ card' \in {card, Broken}
        /\ UNCHANGED <<server, proc, cfg, archive, applied, polling, state_queue, item,
                       reading, preserved, rebooting, refused, lost, broke_off>>
    BY <1>6 DEF UpdateFails
  <2>. QED  BY <2>1 DEF TypeOK, server, polling
<1>7. CASE PreserveArchive
  BY <1>7 DEF PreserveArchive, TypeOK, server, polling
<1>8. CASE ApplyServices
  <2>1. applied' \in Config
    BY <1>8 DEF ApplyServices, TypeOK, Config, Setting
  <2>2. NoItem \in Item /\ NextPass \in {"off", "idle"}
    BY DEF NoItem, Item, NextPass
  <2>. QED  BY <1>8, <2>1, <2>2 DEF ApplyServices, TypeOK, server, polling
<1>9. CASE HookRaises
  <2>1. NoItem \in Item
    BY DEF NoItem, Item
  <2>. QED  BY <1>9, <2>1 DEF HookRaises, TypeOK, server, polling
<1>10. CASE WriteImage
  <2>1. preserved' \in BOOLEAN
    BY <1>10 DEF WriteImage
  <2>. QED  BY <1>10, <2>1 DEF WriteImage, TypeOK, server, polling
<1>11. CASE CallReboot
  <2>1. rebooting' \in BOOLEAN /\ refused' \in BOOLEAN
    BY <1>11 DEF CallReboot, TypeOK
  <2>. QED  BY <1>11, <2>1 DEF CallReboot, TypeOK, server, polling
<1>. QED
  BY <1>1, <1>2, <1>3, <1>4, <1>5, <1>6, <1>7, <1>8, <1>9, <1>10, <1>11 DEF StateWorker

LEMMA TypeOKMain ==
    ASSUME IInv, AdminChanges \/ Main \/ Exit \/ Reboot
    PROVE  TypeOK'
<1>. USE DEF IInv, sdcard
<1>1. CASE AdminChanges
  <2>1. firmware' \in BOOLEAN /\ desired' \in Config /\ changes' \in 0..MaxChanges
    <3>1. desired' \in Config /\ (firmware' = firmware \/ firmware' = TRUE)
      BY <1>1 DEF AdminChanges, TypeOK
    <3>2. changes' \in 0..MaxChanges
      BY <1>1 DEF AdminChanges, TypeOK
    <3>. QED  BY <3>1, <3>2 DEF TypeOK
  <2>2. UNCHANGED <<proc, cfg, archive, applied, polling, state_queue, stateworker,
                    issued, lost, broke_off>>
    BY <1>1 DEF AdminChanges
  <2>. QED  BY <2>1, <2>2 DEF TypeOK, polling, stateworker
<1>2. CASE Boot
  BY <1>2 DEF Boot, TypeOK, server, polling, stateworker
<1>3. CASE InitialApply
  BY <1>3 DEF InitialApply, TypeOK, server, Running
<1>4. CASE InitialApplyRaises
  BY <1>4 DEF InitialApplyRaises, TypeOK, server, polling
<1>5. CASE Shutdown
  BY <1>5 DEF Shutdown, TypeOK, server, stateworker, Running
<1>6. CASE RemoveConfigDir
  BY <1>6 DEF RemoveConfigDir, TypeOK, server, polling, stateworker, Running
<1>7. CASE Exit \/ Reboot
  <2>1. NoAnswer \in Answer /\ NoItem \in Item /\ <<>> \in Seq(Item)
    BY EmptySeq DEF NoAnswer, Answer, NoItem, Item
  <2>2. /\ last_ok' \in BOOLEAN /\ changed' \in BOOLEAN /\ updating' \in BOOLEAN
        /\ refused' \in BOOLEAN /\ touched' \in SUBSET Setting
    BY <1>7 DEF Exit, Reboot, Ends
  <2>3. /\ proc' = "down" /\ poll' = "off" /\ answer' = NoAnswer /\ next' = 0
        /\ state_queue' = <<>> /\ worker' = "off" /\ item' = NoItem /\ reading' = 1
        /\ UNCHANGED <<desired, changes, cfg, applied, issued, lost>>
    BY <1>7 DEF Exit, Reboot, Ends
  <2>4. /\ archive' \in Config \cup {Broken} /\ card' \in {card, Blank}
        /\ firmware' \in BOOLEAN /\ broke_off' \in BOOLEAN
        /\ preserved' \in BOOLEAN /\ rebooting' \in BOOLEAN
    BY <1>7 DEF Exit, Reboot, TypeOK
  <2>. QED  BY <2>1, <2>2, <2>3, <2>4 DEF TypeOK
<1>. QED
  BY <1>1, <1>2, <1>3, <1>4, <1>5, <1>6, <1>7 DEF Main

-----------------------------------------------------------------------------
(***************************************************************************)
(* The other conjuncts of IInv, action by action.                          *)
(***************************************************************************)

\* An answer that has been gone through is the configuration.
LEMMA WholeAnswer ==
    ASSUME IInv, answer.settings # NoSettings, next = NetworkSettings + 1,
           poll \in {"update", "archive", "enqueue"}
    PROVE  cfg = answer.settings
<1>1. \A s \in Setting : cfg[s] = answer.settings[s]
  BY DEF IInv, TakenOver, Setting
<1>2. cfg \in [Setting -> Value] /\ answer.settings \in [Setting -> Value]
  BY AnswerDomain DEF IInv, TypeOK, Config
<1>. QED  BY <1>1, <1>2

LEMMA PollLocalsNext ==
    ASSUME IInv, TypeOK', Next
    PROVE  PollLocals'
<1>. USE DEF IInv, TypeOK, PollLocals, server, polling, stateworker, sdcard, Updating,
         Setting, Network
<1>1. CASE AdminChanges
  BY <1>1 DEF AdminChanges
<1>2. CASE PollStart
  BY <1>2 DEF PollStart
<1>3. CASE ServerAnswers
  BY <1>3 DEF ServerAnswers, NoAnswer
<1>4. CASE SetSetting
  BY <1>4 DEF SetSetting, Raises
<1>5. CASE SaveConfig
  BY <1>5 DEF SaveConfig
<1>6. CASE WriteArchive
  BY <1>6 DEF WriteArchive
<1>7. CASE Enqueue
  BY <1>7 DEF Enqueue, Reschedule
<1>8. CASE PollFails
  BY <1>8 DEF PollFails, Reschedule, NoAnswer
<1>9. CASE TakeState
  BY <1>9 DEF TakeState
<1>10. CASE WorkerStops
  BY <1>10 DEF WorkerStops, NextPass
<1>11. CASE ApplySetting
  BY <1>11 DEF ApplySetting
<1>12. CASE NoUpdate
  BY <1>12 DEF NoUpdate
<1>13. CASE StartUpdate
  BY <1>13 DEF StartUpdate
<1>14. CASE UpdateFails
  BY <1>14 DEF UpdateFails
<1>15. CASE PreserveArchive
  BY <1>15 DEF PreserveArchive
<1>16. CASE ApplyServices
  BY <1>16 DEF ApplyServices, NextPass
<1>17. CASE HookRaises
  BY <1>17 DEF HookRaises
<1>18. CASE Boot
  BY <1>18 DEF Boot
<1>19. CASE InitialApply
  <2>1. poll = "off" /\ poll' = "request" /\ UNCHANGED <<next, changed, touched>>
    BY <1>19 DEF InitialApply, Phases
  <2>. QED  BY <2>1
<1>20. CASE InitialApplyRaises
  BY <1>20 DEF InitialApplyRaises
<1>21. CASE Shutdown
  BY <1>21 DEF Shutdown
<1>22. CASE RemoveConfigDir
  BY <1>22 DEF RemoveConfigDir
<1>23. CASE Exit
  BY <1>23 DEF Exit, Ends, NoAnswer
<1>24. CASE Reboot
  BY <1>24 DEF Reboot, Ends, NoAnswer
<1>25. CASE WriteImage
  BY <1>25 DEF WriteImage
<1>26. CASE CallReboot
  BY <1>26 DEF CallReboot
<1>. QED
  BY <1>1, <1>2, <1>3, <1>4, <1>5, <1>6, <1>7, <1>8, <1>9, <1>10, <1>11, <1>12, <1>13,
     <1>14, <1>15, <1>16, <1>17, <1>18, <1>19, <1>20, <1>21, <1>22, <1>23, <1>24, <1>25,
     <1>26
  DEF Next, Polling, StateWorker, Main

LEMMA PhasesNext ==
    ASSUME IInv, TypeOK', Next
    PROVE  Phases'
<1>. USE DEF IInv, TypeOK, Phases, server, polling, stateworker, sdcard, Updating, Running, Network
<1>1. CASE AdminChanges
  BY <1>1 DEF AdminChanges
<1>2. CASE PollStart
  BY <1>2 DEF PollStart
<1>3. CASE ServerAnswers
  BY <1>3 DEF ServerAnswers, NoAnswer
<1>4. CASE SetSetting
  BY <1>4 DEF SetSetting, Raises
<1>5. CASE SaveConfig
  BY <1>5 DEF SaveConfig
<1>6. CASE WriteArchive
  BY <1>6 DEF WriteArchive
<1>7. CASE Enqueue
  BY <1>7 DEF Enqueue, Reschedule
<1>8. CASE PollFails
  BY <1>8 DEF PollFails, Reschedule, NoAnswer
<1>9. CASE TakeState
  BY <1>9 DEF TakeState
<1>10. CASE WorkerStops
  BY <1>10 DEF WorkerStops, NextPass
<1>11. CASE ApplySetting
  BY <1>11 DEF ApplySetting
<1>12. CASE NoUpdate
  BY <1>12 DEF NoUpdate
<1>13. CASE StartUpdate
  BY <1>13 DEF StartUpdate
<1>14. CASE UpdateFails
  BY <1>14 DEF UpdateFails
<1>15. CASE PreserveArchive
  BY <1>15 DEF PreserveArchive
<1>16. CASE ApplyServices
  BY <1>16 DEF ApplyServices, NextPass
<1>17. CASE HookRaises
  BY <1>17 DEF HookRaises
<1>18. CASE Boot
  BY <1>18 DEF Boot
<1>19. CASE InitialApply
  <2>1. proc' = "starting" /\ worker' = "idle" /\ poll' = "request" /\ reading' = 1
    BY <1>19 DEF InitialApply
  <2>. QED  BY <2>1
<1>20. CASE InitialApplyRaises
  BY <1>20 DEF InitialApplyRaises
<1>21. CASE Shutdown
  BY <1>21 DEF Shutdown
<1>22. CASE RemoveConfigDir
  BY <1>22 DEF RemoveConfigDir
<1>23. CASE Exit
  BY <1>23 DEF Exit, Ends, NoAnswer
<1>24. CASE Reboot
  BY <1>24 DEF Reboot, Ends, NoAnswer
<1>25. CASE WriteImage
  BY <1>25 DEF WriteImage
<1>26. CASE CallReboot
  BY <1>26 DEF CallReboot
<1>. QED
  BY <1>1, <1>2, <1>3, <1>4, <1>5, <1>6, <1>7, <1>8, <1>9, <1>10, <1>11, <1>12, <1>13,
     <1>14, <1>15, <1>16, <1>17, <1>18, <1>19, <1>20, <1>21, <1>22, <1>23, <1>24, <1>25,
     <1>26
  DEF Next, Polling, StateWorker, Main

LEMMA TakenOverNext ==
    ASSUME IInv, TypeOK', Next
    PROVE  TakenOver'
<1>. USE DEF IInv, TypeOK, TakenOver, server, polling, stateworker, sdcard, Updating, Config, Setting
<1>1. CASE AdminChanges
  BY <1>1 DEF AdminChanges
<1>2. CASE PollStart
  BY <1>2 DEF PollStart
<1>3. CASE ServerAnswers
  BY <1>3 DEF ServerAnswers, NoAnswer
<1>4. CASE SetSetting
  <2>1. /\ poll = "update" /\ next \in Setting /\ next' = next + 1
        /\ UNCHANGED <<server, proc, archive, poll, answer, broke_off>>
    BY <1>4 DEF SetSetting
  <2>2. ASSUME answer.settings # NoSettings, NEW s \in Setting, s < next'
        PROVE  cfg'[s] = answer.settings[s]
    <3>1. s <= next
      BY <2>1, <2>2
    <3>2. CASE s = next
      BY <1>4, <2>2, <3>2, AnswerDomain DEF SetSetting
    <3>3. CASE s # next
      <4>1. cfg[s] = answer.settings[s]
        BY <2>1, <2>2, <3>1, <3>3
      <4>. QED  BY <1>4, <3>3, <4>1 DEF SetSetting
    <3>. QED  BY <3>2, <3>3
  <2>3. answer.settings = NoSettings => cfg' = cfg
    BY <1>4, AnswerDomain DEF SetSetting
  <2>. QED  BY <2>1, <2>2, <2>3
<1>5. CASE SaveConfig
  <2>1. answer.settings # NoSettings => cfg = answer.settings
    BY <1>5, WholeAnswer DEF SaveConfig
  <2>. QED  BY <1>5, <2>1 DEF SaveConfig
<1>6. CASE WriteArchive
  BY <1>6 DEF WriteArchive
<1>7. CASE Enqueue
  <2>1. answer.settings # NoSettings => cfg = answer.settings
    BY <1>7, WholeAnswer DEF Enqueue, PollLocals
  <2>2. /\ poll' = "idle" /\ broke_off' = (broke_off /\ answer.settings = NoSettings)
        /\ UNCHANGED <<server, cfg, archive, answer>>
        /\ proc # "down"
    BY <1>7 DEF Enqueue, Reschedule, Phases
  <2>3. cfg \in issued \/ broke_off'
    BY <2>1, <2>2
  <2>. QED  BY <2>2, <2>3
<1>8. CASE PollFails
  <2>1. poll' = "idle" /\ answer'.settings = NoSettings /\ UNCHANGED <<server, cfg, archive>>
        /\ proc # "down" /\ (broke_off' = broke_off \/ broke_off' = TRUE)
    BY <1>8 DEF PollFails, Reschedule, NoAnswer, Phases
  <2>2. cfg \in issued \/ broke_off'
    <3>1. CASE poll = "request" \/ poll = "archive"
      BY <1>8, <2>1, <3>1
    <3>2. CASE poll = "update" /\ next \in Setting /\ broke_off' = TRUE
      BY <3>2
    <3>3. CASE poll = "update" /\ next = NetworkSettings + 1
      <4>1. answer.settings # NoSettings => cfg = answer.settings
        BY <3>3, WholeAnswer
      <4>. QED  BY <2>1, <3>3, <4>1
    <3>. QED  BY <1>8, <3>1, <3>2, <3>3 DEF PollFails
  <2>. QED  BY <2>1, <2>2
<1>9. CASE TakeState
  BY <1>9 DEF TakeState
<1>10. CASE WorkerStops
  BY <1>10 DEF WorkerStops, NextPass
<1>11. CASE ApplySetting
  BY <1>11 DEF ApplySetting
<1>12. CASE NoUpdate
  BY <1>12 DEF NoUpdate
<1>13. CASE StartUpdate
  BY <1>13 DEF StartUpdate
<1>14. CASE UpdateFails
  BY <1>14 DEF UpdateFails
<1>15. CASE PreserveArchive
  BY <1>15 DEF PreserveArchive
<1>16. CASE ApplyServices
  BY <1>16 DEF ApplyServices, NextPass
<1>17. CASE HookRaises
  BY <1>17 DEF HookRaises
<1>18. CASE Boot
  <2>1. UNCHANGED <<server, polling, archive, broke_off>> /\ poll = "off"
    BY <1>18 DEF Boot, Phases
  <2>2. proc' # "down" => cfg' \in issued \/ broke_off
    BY <1>18 DEF Boot, ArchiveIsOneConfiguration
  <2>. QED  BY <2>1, <2>2
<1>19. CASE InitialApply
  <2>1. UNCHANGED <<server, cfg, answer, broke_off>> /\ poll' = "request" /\ proc = "boot" /\ poll = "off"
    BY <1>19 DEF InitialApply, Phases
  <2>. QED  BY <2>1
<1>20. CASE InitialApplyRaises
  BY <1>20 DEF InitialApplyRaises
<1>21. CASE Shutdown
  BY <1>21 DEF Shutdown
<1>22. CASE RemoveConfigDir
  BY <1>22 DEF RemoveConfigDir
<1>23. CASE Exit
  BY <1>23 DEF Exit, Ends, NoAnswer
<1>24. CASE Reboot
  BY <1>24 DEF Reboot, Ends, NoAnswer
<1>25. CASE WriteImage
  BY <1>25 DEF WriteImage
<1>26. CASE CallReboot
  BY <1>26 DEF CallReboot
<1>. QED
  BY <1>1, <1>2, <1>3, <1>4, <1>5, <1>6, <1>7, <1>8, <1>9, <1>10, <1>11, <1>12, <1>13,
     <1>14, <1>15, <1>16, <1>17, <1>18, <1>19, <1>20, <1>21, <1>22, <1>23, <1>24, <1>25,
     <1>26
  DEF Next, Polling, StateWorker, Main

LEMMA OnCardNext ==
    ASSUME IInv, TypeOK', Next
    PROVE  OnCard'
<1>. USE DEF IInv, TypeOK, OnCard, server, polling, stateworker, sdcard, Updating, Sound,
         ArchiveIsOneConfiguration
<1>1. CASE AdminChanges
  BY <1>1 DEF AdminChanges
<1>2. CASE PollStart
  BY <1>2 DEF PollStart
<1>3. CASE ServerAnswers
  BY <1>3 DEF ServerAnswers, NoAnswer
<1>4. CASE SetSetting
  BY <1>4 DEF SetSetting, Raises
<1>5. CASE SaveConfig
  BY <1>5 DEF SaveConfig
<1>6. CASE WriteArchive
  BY <1>6 DEF WriteArchive
<1>7. CASE Enqueue
  BY <1>7 DEF Enqueue, Reschedule
<1>8. CASE PollFails
  BY <1>8 DEF PollFails, Reschedule, NoAnswer
<1>9. CASE TakeState
  BY <1>9 DEF TakeState
<1>10. CASE WorkerStops
  BY <1>10 DEF WorkerStops, NextPass
<1>11. CASE ApplySetting
  BY <1>11 DEF ApplySetting
<1>12. CASE NoUpdate
  BY <1>12 DEF NoUpdate
<1>13. CASE StartUpdate
  BY <1>13 DEF StartUpdate
<1>14. CASE UpdateFails
  BY <1>14 DEF UpdateFails
<1>15. CASE PreserveArchive
  BY <1>15 DEF PreserveArchive
<1>16. CASE ApplyServices
  BY <1>16 DEF ApplyServices, NextPass
<1>17. CASE HookRaises
  BY <1>17 DEF HookRaises
<1>18. CASE Boot
  BY <1>18 DEF Boot
<1>19. CASE InitialApply
  BY <1>19 DEF InitialApply
<1>20. CASE InitialApplyRaises
  BY <1>20 DEF InitialApplyRaises
<1>21. CASE Shutdown
  BY <1>21 DEF Shutdown
<1>22. CASE RemoveConfigDir
  BY <1>22 DEF RemoveConfigDir
<1>23. CASE Exit
  BY <1>23 DEF Exit, Ends, NoAnswer
<1>24. CASE Reboot
  BY <1>24 DEF Reboot, Ends, NoAnswer
<1>25. CASE WriteImage
  BY <1>25 DEF WriteImage
<1>26. CASE CallReboot
  BY <1>26 DEF CallReboot
<1>. QED
  BY <1>1, <1>2, <1>3, <1>4, <1>5, <1>6, <1>7, <1>8, <1>9, <1>10, <1>11, <1>12, <1>13,
     <1>14, <1>15, <1>16, <1>17, <1>18, <1>19, <1>20, <1>21, <1>22, <1>23, <1>24, <1>25,
     <1>26
  DEF Next, Polling, StateWorker, Main

LEMMA ArchiveIsOneConfigurationNext ==
    ASSUME IInv, TypeOK', Next
    PROVE  ArchiveIsOneConfiguration'
<1>. USE DEF IInv, TypeOK, ArchiveIsOneConfiguration, server, polling, stateworker, sdcard, Updating,
         TakenOver, OnCard, Sound, Phases, Setting, Config, PollLocals
<1>1. CASE AdminChanges
  BY <1>1 DEF AdminChanges
<1>2. CASE PollStart
  BY <1>2 DEF PollStart
<1>3. CASE ServerAnswers
  BY <1>3 DEF ServerAnswers, NoAnswer
<1>4. CASE SetSetting
  BY <1>4 DEF SetSetting, Raises
<1>5. CASE SaveConfig
  BY <1>5 DEF SaveConfig
<1>6. CASE WriteArchive
  BY <1>6 DEF WriteArchive
<1>7. CASE Enqueue
  <2>1. answer.settings # NoSettings => archive = answer.settings
    BY <1>7, WholeAnswer DEF Enqueue, PollLocals, TakenOver
  <2>2. /\ broke_off' = (broke_off /\ answer.settings = NoSettings)
        /\ UNCHANGED <<server, archive>>
    BY <1>7 DEF Enqueue
  <2>. QED  BY <2>1, <2>2 DEF TakenOver
<1>8. CASE PollFails
  BY <1>8 DEF PollFails, Reschedule, NoAnswer
<1>9. CASE TakeState
  BY <1>9 DEF TakeState
<1>10. CASE WorkerStops
  BY <1>10 DEF WorkerStops, NextPass
<1>11. CASE ApplySetting
  BY <1>11 DEF ApplySetting
<1>12. CASE NoUpdate
  BY <1>12 DEF NoUpdate
<1>13. CASE StartUpdate
  BY <1>13 DEF StartUpdate
<1>14. CASE UpdateFails
  BY <1>14 DEF UpdateFails
<1>15. CASE PreserveArchive
  BY <1>15 DEF PreserveArchive
<1>16. CASE ApplyServices
  BY <1>16 DEF ApplyServices, NextPass
<1>17. CASE HookRaises
  BY <1>17 DEF HookRaises
<1>18. CASE Boot
  BY <1>18 DEF Boot
<1>19. CASE InitialApply
  BY <1>19 DEF InitialApply
<1>20. CASE InitialApplyRaises
  BY <1>20 DEF InitialApplyRaises
<1>21. CASE Shutdown
  BY <1>21 DEF Shutdown
<1>22. CASE RemoveConfigDir
  BY <1>22 DEF RemoveConfigDir
<1>23. CASE Exit
  BY <1>23 DEF Exit, Ends, NoAnswer
<1>24. CASE Reboot
  BY <1>24 DEF Reboot, Ends, NoAnswer
<1>25. CASE WriteImage
  BY <1>25 DEF WriteImage
<1>26. CASE CallReboot
  BY <1>26 DEF CallReboot
<1>. QED
  BY <1>1, <1>2, <1>3, <1>4, <1>5, <1>6, <1>7, <1>8, <1>9, <1>10, <1>11, <1>12, <1>13,
     <1>14, <1>15, <1>16, <1>17, <1>18, <1>19, <1>20, <1>21, <1>22, <1>23, <1>24, <1>25,
     <1>26
  DEF Next, Polling, StateWorker, Main

LEMMA ArchiveIsCurrentNext ==
    ASSUME IInv, TypeOK', Next
    PROVE  ArchiveIsCurrent'
<1>. USE DEF IInv, TypeOK, ArchiveIsCurrent, server, polling, stateworker, sdcard, Updating, Phases, TakenOver
<1>1. CASE AdminChanges
  BY <1>1 DEF AdminChanges
<1>2. CASE PollStart
  BY <1>2 DEF PollStart
<1>3. CASE ServerAnswers
  BY <1>3 DEF ServerAnswers, NoAnswer
<1>4. CASE SetSetting
  BY <1>4 DEF SetSetting, Raises
<1>5. CASE SaveConfig
  BY <1>5 DEF SaveConfig
<1>6. CASE WriteArchive
  BY <1>6 DEF WriteArchive
<1>7. CASE Enqueue
  BY <1>7 DEF Enqueue, Reschedule
<1>8. CASE PollFails
  BY <1>8 DEF PollFails, Reschedule, NoAnswer
<1>9. CASE TakeState
  BY <1>9 DEF TakeState
<1>10. CASE WorkerStops
  BY <1>10 DEF WorkerStops, NextPass
<1>11. CASE ApplySetting
  BY <1>11 DEF ApplySetting
<1>12. CASE NoUpdate
  BY <1>12 DEF NoUpdate
<1>13. CASE StartUpdate
  BY <1>13 DEF StartUpdate
<1>14. CASE UpdateFails
  BY <1>14 DEF UpdateFails
<1>15. CASE PreserveArchive
  BY <1>15 DEF PreserveArchive
<1>16. CASE ApplyServices
  BY <1>16 DEF ApplyServices, NextPass
<1>17. CASE HookRaises
  BY <1>17 DEF HookRaises
<1>18. CASE Boot
  BY <1>18 DEF Boot
<1>19. CASE InitialApply
  BY <1>19 DEF InitialApply
<1>20. CASE InitialApplyRaises
  BY <1>20 DEF InitialApplyRaises
<1>21. CASE Shutdown
  BY <1>21 DEF Shutdown
<1>22. CASE RemoveConfigDir
  BY <1>22 DEF RemoveConfigDir
<1>23. CASE Exit
  BY <1>23 DEF Exit, Ends, NoAnswer
<1>24. CASE Reboot
  BY <1>24 DEF Reboot, Ends, NoAnswer
<1>25. CASE WriteImage
  BY <1>25 DEF WriteImage
<1>26. CASE CallReboot
  BY <1>26 DEF CallReboot
<1>. QED
  BY <1>1, <1>2, <1>3, <1>4, <1>5, <1>6, <1>7, <1>8, <1>9, <1>10, <1>11, <1>12, <1>13,
     <1>14, <1>15, <1>16, <1>17, <1>18, <1>19, <1>20, <1>21, <1>22, <1>23, <1>24, <1>25,
     <1>26
  DEF Next, Polling, StateWorker, Main

LEMMA OutstandingNext ==
    ASSUME IInv, TypeOK', Next
    PROVE  Outstanding'
<1>. USE DEF IInv, TypeOK, Outstanding, server, polling, stateworker, sdcard, Updating, WillApply, Phases,
         PollLocals, Setting, Network, Config, Item
<1>1. CASE AdminChanges
  BY <1>1 DEF AdminChanges
<1>2. CASE PollStart
  BY <1>2 DEF PollStart
<1>3. CASE ServerAnswers
  BY <1>3 DEF ServerAnswers, NoAnswer
<1>4. CASE SetSetting
  <2>1. /\ UNCHANGED <<proc, applied, state_queue, worker, reading, lost>>
        /\ poll = "update" /\ poll' = "update"
        /\ touched \subseteq touched' /\ (changed => changed')
    BY <1>4 DEF SetSetting
  <2>2. ASSUME NEW s \in Setting, cfg'[s] # cfg[s]
        PROVE  s \in touched'
    BY <1>4, <2>2 DEF SetSetting
  <2>. QED  BY <2>1, <2>2
<1>5. CASE SaveConfig
  BY <1>5 DEF SaveConfig
<1>6. CASE WriteArchive
  BY <1>6 DEF WriteArchive
<1>7. CASE Enqueue
  <2>. DEFINE e == [changed |-> changed, firmware |-> answer.firmware]
              n == Len(state_queue) + 1
  <2>1. e \in Item
    BY AnswerDomain DEF Item
  <2>2. /\ Len(state_queue) \in Nat /\ Len(state_queue') = n
        /\ \A i \in 1..Len(state_queue) : state_queue'[i] = state_queue[i]
        /\ state_queue'[n] = e
    BY <1>7, <2>1, Queue, AppendProperties DEF Enqueue
  <2>3. /\ touched' = {} /\ lost' = IF changed THEN {} ELSE lost \ {0}
        /\ UNCHANGED <<applied, cfg, worker, reading>>
        /\ proc' \in {"starting", "up"} => proc \in {"starting", "up"}
    BY <1>7 DEF Enqueue, Reschedule
  <2>. SUFFICES ASSUME proc \in {"starting", "up"}, worker # "dead",
                       NEW s \in Setting, s \notin lost', applied[s] # cfg[s]
                PROVE  WillApply(s)'
    BY <2>3 DEF Outstanding
  <2>4. n \in 1..Len(state_queue') /\ state_queue'[n].changed = changed
    BY <2>2
  <2>5. CASE s = 0 \/ changed
    BY <2>4, <2>5 DEF WillApply
  <2>6. CASE s # 0 /\ ~ changed
    <3>0. s \in Network /\ lost' = lost \ {0}
      BY <2>3, <2>6 DEF Setting, Network
    <3>1. s \notin lost /\ s \notin touched
      BY <2>6, <3>0 DEF PollLocals
    <3>2. WillApply(s)
      BY <3>1 DEF Outstanding
    <3>. QED  BY <2>2, <2>3, <2>6, <3>2 DEF WillApply
  <2>. QED  BY <2>5, <2>6
<1>8. CASE PollFails
  BY <1>8 DEF PollFails, Reschedule, NoAnswer
<1>9. CASE TakeState
  <2>1. /\ state_queue # <<>> /\ worker = "idle" /\ state_queue' = Tail(state_queue)
        /\ reading = 1
        /\ UNCHANGED <<proc, cfg, applied, touched, lost, reading>>
    BY <1>9 DEF TakeState, Phases
  <2>2. worker' \in {"network", "update"} /\ (state_queue[1].changed => worker' = "network")
    BY <1>9, Queue DEF TakeState
  <2>. SUFFICES ASSUME proc \in {"starting", "up"},
                       NEW s \in Setting \ (lost \cup touched), applied[s] # cfg[s], s # 0
                PROVE  WillApply(s)'
    BY <2>1, <2>2 DEF Outstanding, WillApply
  <2>3. PICK i \in 1..Len(state_queue) : state_queue[i].changed
    BY <2>1 DEF Outstanding, WillApply
  <2>4. CASE i = 1
    BY <2>1, <2>2, <2>3, <2>4 DEF WillApply, Setting
  <2>5. CASE i # 1
    <3>1. i - 1 \in 1..Len(Tail(state_queue)) /\ Tail(state_queue)[i - 1] = state_queue[i]
      BY <2>1, <2>5, Queue
    <3>. QED  BY <2>1, <2>3, <3>1 DEF WillApply
  <2>. QED  BY <2>4, <2>5
<1>10. CASE WorkerStops
  BY <1>10 DEF WorkerStops, NextPass
<1>11. CASE ApplySetting
  BY <1>11 DEF ApplySetting
<1>12. CASE NoUpdate
  BY <1>12 DEF NoUpdate
<1>13. CASE StartUpdate
  BY <1>13 DEF StartUpdate
<1>14. CASE UpdateFails
  BY <1>14 DEF UpdateFails
<1>15. CASE PreserveArchive
  BY <1>15 DEF PreserveArchive
<1>16. CASE ApplyServices
  BY <1>16 DEF ApplyServices, NextPass
<1>17. CASE HookRaises
  BY <1>17 DEF HookRaises
<1>18. CASE Boot
  BY <1>18 DEF Boot
<1>19. CASE InitialApply
  BY <1>19 DEF InitialApply
<1>20. CASE InitialApplyRaises
  BY <1>20 DEF InitialApplyRaises
<1>21. CASE Shutdown
  BY <1>21 DEF Shutdown
<1>22. CASE RemoveConfigDir
  BY <1>22 DEF RemoveConfigDir
<1>23. CASE Exit
  BY <1>23 DEF Exit, Ends, NoAnswer
<1>24. CASE Reboot
  BY <1>24 DEF Reboot, Ends, NoAnswer
<1>25. CASE WriteImage
  BY <1>25 DEF WriteImage
<1>26. CASE CallReboot
  BY <1>26 DEF CallReboot
<1>. QED
  BY <1>1, <1>2, <1>3, <1>4, <1>5, <1>6, <1>7, <1>8, <1>9, <1>10, <1>11, <1>12, <1>13,
     <1>14, <1>15, <1>16, <1>17, <1>18, <1>19, <1>20, <1>21, <1>22, <1>23, <1>24, <1>25,
     <1>26
  DEF Next, Polling, StateWorker, Main

-----------------------------------------------------------------------------
(***************************************************************************)
(* The invariant is inductive, and what follows from it.                   *)
(***************************************************************************)
LEMMA IInvInit == Init => IInv
<1>. SUFFICES ASSUME Init PROVE IInv
  OBVIOUS
<1>1. TypeOK
  BY TypeOKInit
<1>2. Outstanding /\ TakenOver
  BY DEF Init, Outstanding, TakenOver, NoAnswer
<1>. QED
  BY <1>1, <1>2 DEF Init, IInv, PollLocals, Phases, OnCard, ArchiveIsOneConfiguration,
                    ArchiveIsCurrent

LEMMA IInvStutter == IInv /\ UNCHANGED vars => IInv'
BY DEF vars, IInv, TypeOK, PollLocals, Phases, TakenOver, OnCard, Sound, Outstanding,
       WillApply, ArchiveIsOneConfiguration, ArchiveIsCurrent

LEMMA IInvNext == IInv /\ [Next]_vars => IInv'
<1>1. ASSUME IInv, Next PROVE IInv'
  <2>1. TypeOK'
    BY <1>1, TypeOKPolling, TypeOKStateWorker, TypeOKMain DEF Next
  <2>. QED
    BY <1>1, <2>1, PollLocalsNext, PhasesNext, TakenOverNext, OnCardNext,
       ArchiveIsOneConfigurationNext, ArchiveIsCurrentNext, OutstandingNext DEF IInv
<1>. QED  BY <1>1, IInvStutter

LEMMA IInvHolds == Spec => []IInv
BY IInvInit, IInvNext, PTL DEF Spec

(***************************************************************************)
(* Every variable keeps its type: in particular the StateWorker never      *)
(* reads a setting there is not (platform.apply_config, bbb.py).           *)
(***************************************************************************)
THEOREM TypeCorrect == Spec => []TypeOK
<1>1. IInv => TypeOK
  BY DEF IInv
<1>. QED  BY <1>1, IInvHolds, PTL

(***************************************************************************)
(* The archive is never made of parts of two configurations, unless        *)
(* update_config broke off (polling.py, lines 132-196).                    *)
(***************************************************************************)
THEOREM ArchivesAreConfigurations == Spec => []ArchiveIsOneConfiguration
<1>1. IInv => ArchiveIsOneConfiguration
  BY DEF IInv
<1>. QED  BY <1>1, IInvHolds, PTL

(***************************************************************************)
(* After a successful poll the archive is the configuration in memory      *)
(* (polling.py, lines 47-50 and 194-196).                                  *)
(***************************************************************************)
THEOREM RestartChangesNothing == Spec => []ArchiveIsCurrent
<1>1. IInv => ArchiveIsCurrent
  BY DEF IInv
<1>. QED  BY <1>1, IInvHolds, PTL

(***************************************************************************)
(* Once both threads rest, every setting whose change was not lost with a  *)
(* failed poll is applied, however polls and passes of the StateWorker     *)
(* were interleaved (polling.py, lines 132-178; state.py, lines 26-50).    *)
(***************************************************************************)
THEOREM ConfigurationIsApplied == Spec => []AppliedIsConfigured
<1>1. IInv => AppliedIsConfigured
  <2>. SUFFICES ASSUME IInv, Quiescent, NEW s \in Setting \ lost
                PROVE  applied[s] = cfg[s]
    BY DEF AppliedIsConfigured
  <2>1. Len(state_queue) = 0 /\ touched = {}
    BY EmptySeq DEF IInv, PollLocals, Quiescent
  <2>2. ~ WillApply(s)
    BY <2>1 DEF WillApply, Quiescent
  <2>. QED  BY <2>1, <2>2 DEF IInv, Outstanding, Quiescent
<1>. QED  BY <1>1, IInvHolds, PTL

=============================================================================
