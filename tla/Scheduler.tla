------------------------------ MODULE Scheduler ------------------------------
(***************************************************************************)
(* `qualock schedule enable | status | disable': scheduler/commands.py     *)
(* over the registration file (scheduler/state.py) and the system's own    *)
(* scheduler (scheduler/backends): systemd's user manager, launchd, or the *)
(* Windows Task Scheduler.                                                 *)
(*                                                                         *)
(* Three places hold the schedule: registration.json, the definition the   *)
(* system keeps on disk (service and timer file, plist, task), and the     *)
(* manager, which triggers by the definition it had when it last read it.  *)
(* Commands run one at a time; a call of systemctl, launchctl or schtasks  *)
(* may fail, or time out with its request served or not; file operations   *)
(* may fail; Ctrl-C or a crash ends a command anywhere.                    *)
(***************************************************************************)
EXTENDS Naturals

CONSTANTS Platforms,  \* of "systemd", "launchd" and "windows"
          Times,      \* times of day
          Commands,   \* what the service runs: Python, project and directory
          Corrupt,    \* a registration.json that does not validate
          None

Schedule == [time : Times, command : Commands]
UnitFiles == [service : Commands \cup {None}, timer : Times \cup {None}]
Words == {"enable", "disable", "ENABLED", "DISABLED", "rolled back"}

(* select_backend finds one of three, and what is absent or does not       *)
(* validate is no time, no command, no definition and no outcome.          *)
ASSUME PlatformsAssumption == Platforms \subseteq {"systemd", "launchd", "windows"}
ASSUME MarkersAssumption ==
  /\ None \notin Times \cup Commands \cup Schedule \cup UnitFiles \cup Words
  /\ Corrupt \notin Schedule \cup {None}

VARIABLES
  platform,      \* what select_backend finds
  registration,  \* registration.json: a Schedule, None or Corrupt
  units,         \* what the service and the timer file, the plist or the task hold
  enabled,       \* it is started after a reboot: the timer is linked into
                 \* timers.target, the plist is there, the task is not disabled
  armed,         \* the definition the manager triggers by, or None
  command,       \* the command that runs: its op, where it is (at), the
                 \* candidate of an enable, and whether its rollback failed
  told,          \* how the last command ended, if nothing happened since
  unsettled      \* a command was cut short, or warned that its rollback failed,
                 \* and none that installs or removes was completed since

native == <<units, enabled, armed>>
vars == <<platform, registration, native, command, told, unsettled>>

UnitsOf(schedule) == [service |-> schedule.command, timer |-> schedule.time]
NoUnits == [service |-> None, timer |-> None]
NoCommand == [op |-> None, at |-> "idle", candidate |-> None, remove_error |-> FALSE]

Init ==
  /\ platform \in Platforms
  /\ registration = None /\ units = NoUnits /\ enabled = FALSE /\ armed = None
  /\ command = NoCommand /\ told = None /\ unsettled = FALSE

At(point) == command.at = point

Goto(point) == command' = [command EXCEPT !.at = point] /\ UNCHANGED <<told, unsettled>>

Finish(outcome) == command' = NoCommand /\ told' = outcome

InstallFrom ==
  [systemd |-> "write_service", launchd |-> "bootout_old", windows |-> "create_task"]

RemoveFrom ==
  [systemd |-> "disable_timer", launchd |-> "bootout", windows |-> "delete_task"]

(* The command raises before it touched the native schedule.               *)
Fail == Finish("failed") /\ UNCHANGED unsettled

-----------------------------------------------------------------------------
(* backend.inspect.                                                        *)

(* Defect: the definition is only looked for, not compared.                *)
NativeStateByPresence(expected) ==
  IF units = NoUnits /\ armed \in {None, NoUnits} THEN "missing"
  ELSE IF expected = None THEN "present_but_unverified"
  ELSE IF enabled /\ armed # None THEN "matching" ELSE "drifted"

(* is-enabled and is-active say nothing about the definition that an active*)
(* timer runs by, nor does launchctl print; of a task, whether it is       *)
(* disabled is not read.                                                   *)
TimerMatches(expected) == units = UnitsOf(expected) /\ enabled /\ armed # None

AgentMatches(expected) == units = UnitsOf(expected) /\ armed # None

TaskMatches(expected) == units = UnitsOf(expected)

Matches(expected) ==
  \/ platform = "systemd" /\ TimerMatches(expected)
  \/ platform = "launchd" /\ AgentMatches(expected)
  \/ platform = "windows" /\ TaskMatches(expected)

(* Missing, to systemd: LoadState is "not-found", there is no file and the *)
(* manager, since it last read them, knows of none.                        *)
NativeState(expected) ==
  IF /\ units = NoUnits /\ armed \in {None, NoUnits}
     /\ platform = "launchd" => expected = None
  THEN "missing"
  ELSE IF expected = None THEN "present_but_unverified"
  ELSE IF Matches(expected) THEN "matching" ELSE "drifted"

Valid == registration \notin {None, Corrupt}

Trusted == IF Valid THEN registration ELSE None

(* What schedule_status reports; healthy: the project, the Python and the  *)
(* working directory of the registration still exist.                      *)
Report(healthy) ==
  IF registration = None /\ NativeState(None) = "missing" THEN "DISABLED"
  ELSE IF Valid /\ healthy /\ NativeState(registration) = "matching" THEN "ENABLED"
  ELSE "NEEDS REPAIR"

(* A native call that fails makes inspect, and with it status, raise.   *)
Status ==
  /\ At("idle")
  /\ \/ \E healthy \in BOOLEAN : told' = Report(healthy)
     \/ told' = "failed"
  /\ UNCHANGED <<registration, native, command, unsettled>>

-----------------------------------------------------------------------------
(* enable_schedule.                                                        *)

(* Preflight and probe may refuse.  A registration equal to the candidate  *)
(* is looked at before anything is written.                                *)
Enable(schedule) ==
  /\ At("idle")
  /\ \/ /\ command' = [op |-> "enable", candidate |-> schedule, remove_error |-> FALSE,
                       at |-> IF registration = schedule THEN "compare" ELSE "save"]
        /\ told' = None /\ UNCHANGED unsettled
     \/ Fail
  /\ UNCHANGED <<registration, native>>

Compare ==
  /\ At("compare")
  /\ \/ /\ NativeState(registration) = "matching"
        /\ Finish("ENABLED") /\ UNCHANGED unsettled
     \/ NativeState(registration) # "matching" /\ Goto("save")
     \/ Fail
  /\ UNCHANGED <<registration, native>>

(* The file is replaced in one step; save may raise before or after it.    *)
Save ==
  /\ At("save")
  /\ \/ registration' = command.candidate /\ (Goto(InstallFrom[platform]) \/ Fail)
     \/ Fail /\ UNCHANGED registration
  /\ UNCHANGED native

(* Any failure from here on rolls back: backend.remove, store.delete.      *)
Rollback == Goto(RemoveFrom[platform])

(* install: systemd.                                                       *)
WriteService ==
  /\ At("write_service")
  /\ \/ units' = [units EXCEPT !.service = command.candidate.command] /\ Goto("write_timer")
     \/ Rollback /\ UNCHANGED units
  /\ UNCHANGED <<registration, enabled, armed>>

WriteTimer ==
  /\ At("write_timer")
  /\ \/ units' = [units EXCEPT !.timer = command.candidate.time] /\ Goto("reload")
     \/ Rollback /\ UNCHANGED units
  /\ UNCHANGED <<registration, enabled, armed>>

(* The manager reads the files.  A timer that is active stays active, also *)
(* when its file is gone.                                                  *)
DaemonReload == armed' = IF armed = None THEN None ELSE units

Reload ==
  /\ At("reload")
  /\ \/ DaemonReload /\ (Goto("enable_timer") \/ Rollback)
     \/ Rollback /\ UNCHANGED armed
  /\ UNCHANGED <<registration, units, enabled>>

(* systemctl enable --now links the timer, reloads and starts it; a client *)
(* that times out may leave it linked and not started.                     *)
EnableTimer ==
  /\ At("enable_timer")
  /\ \/ enabled' = TRUE /\ armed' = units /\ (Goto("verify") \/ Rollback)
     \/ Rollback /\ enabled' \in {enabled, TRUE} /\ UNCHANGED armed
  /\ UNCHANGED <<registration, units>>

(* install: launchd.  A service that is not there is booted out already.   *)
(* The plist in LaunchAgents is loaded at the next login.                  *)
BootoutOld ==
  /\ At("bootout_old")
  /\ \/ armed' = None /\ (Goto("write_plist") \/ Rollback)
     \/ Rollback /\ UNCHANGED armed
  /\ UNCHANGED <<registration, units, enabled>>

WritePlist ==
  /\ At("write_plist")
  /\ \/ units' = UnitsOf(command.candidate) /\ enabled' = TRUE /\ Goto("bootstrap")
     \/ Rollback /\ UNCHANGED <<units, enabled>>
  /\ UNCHANGED <<registration, armed>>

Bootstrap ==
  /\ At("bootstrap")
  /\ \/ armed' = units /\ (Goto("verify") \/ Rollback)
     \/ Rollback /\ UNCHANGED armed
  /\ UNCHANGED <<registration, units, enabled>>

(* install: Windows.  /Create /F replaces the task in one step.            *)
CreateTask ==
  /\ At("create_task")
  /\ \/ /\ units' = UnitsOf(command.candidate) /\ armed' = units' /\ enabled' = TRUE
        /\ Goto("verify") \/ Rollback
     \/ Rollback /\ UNCHANGED native
  /\ UNCHANGED registration

Verify ==
  /\ At("verify")
  /\ \/ /\ NativeState(command.candidate) = "matching"
        /\ Finish("ENABLED") /\ unsettled' = FALSE
     \/ Rollback
  /\ UNCHANGED <<registration, native>>

-----------------------------------------------------------------------------
(* disable_schedule, and the rollback of enable_schedule: backend.remove,  *)
(* then store.delete.                                                      *)

Disable ==
  /\ At("idle")
  /\ \/ /\ command' = [NoCommand EXCEPT !.op = "disable", !.at = RemoveFrom[platform]]
        /\ told' = None /\ UNCHANGED unsettled
     \/ Fail
  /\ UNCHANGED <<registration, native>>

(* Defect: a rollback that failed is not mentioned.                        *)
RemoveRaisesUnnoticed ==
  \/ command.op = "disable" /\ Fail
  \/ command.op = "enable" /\ Goto("delete")

(* remove raises: disable raises too; a rollback goes on, and remembers.   *)
RemoveRaises ==
  \/ command.op = "disable" /\ Fail
  \/ /\ command.op = "enable"
     /\ command' = [command EXCEPT !.at = "delete", !.remove_error = TRUE]
     /\ UNCHANGED <<told, unsettled>>

(* remove: systemd.                                                        *)
(* Defect: every failure of systemctl disable is taken for a missing unit. *)
DisableTimerTrusting ==
  /\ At("disable_timer")
  /\ \/ units.timer = None /\ Goto("unlink_service") /\ UNCHANGED <<enabled, armed>>
     \/ /\ units.timer # None /\ Goto("unlink_service")
        /\ enabled' \in {enabled, FALSE} /\ armed' \in {armed, None}
  /\ UNCHANGED <<registration, units>>

(* systemctl disable --now unlinks and stops the timer.  "Unit does not    *)
(* exist" is no failure; any other failure, and a timeout, raises.         *)
DisableTimer ==
  /\ At("disable_timer")
  /\ \/ units.timer = None /\ Goto("unlink_service") /\ UNCHANGED <<enabled, armed>>
     \/ /\ units.timer # None /\ enabled' = FALSE /\ armed' = None
        /\ Goto("unlink_service") \/ RemoveRaises
     \/ RemoveRaises /\ enabled' \in {enabled, FALSE} /\ UNCHANGED armed
  /\ UNCHANGED <<registration, units>>

UnlinkService ==
  /\ At("unlink_service")
  /\ \/ units' = [units EXCEPT !.service = None] /\ Goto("unlink_timer")
     \/ RemoveRaises /\ UNCHANGED units
  /\ UNCHANGED <<registration, enabled, armed>>

UnlinkTimer ==
  /\ At("unlink_timer")
  /\ \/ units' = [units EXCEPT !.timer = None] /\ Goto("reload_removed")
     \/ RemoveRaises /\ UNCHANGED units
  /\ UNCHANGED <<registration, enabled, armed>>

ReloadRemoved ==
  /\ At("reload_removed")
  /\ \/ DaemonReload /\ (Goto("delete") \/ RemoveRaises)
     \/ RemoveRaises /\ UNCHANGED armed
  /\ UNCHANGED <<registration, units, enabled>>

(* remove: launchd.  The manager is not asked again after the unlink.      *)
Bootout ==
  /\ At("bootout")
  /\ \/ armed' = None /\ (Goto("unlink_plist") \/ RemoveRaises)
     \/ RemoveRaises /\ UNCHANGED armed
  /\ UNCHANGED <<registration, units, enabled>>

UnlinkPlist ==
  /\ At("unlink_plist")
  /\ \/ units' = NoUnits /\ enabled' = FALSE /\ Goto("delete")
     \/ RemoveRaises /\ UNCHANGED <<units, enabled>>
  /\ UNCHANGED <<registration, armed>>

(* remove: Windows.                                                        *)
DeleteTask ==
  /\ At("delete_task")
  /\ \/ /\ units' = NoUnits /\ armed' = None /\ enabled' = FALSE
        /\ Goto("delete") \/ RemoveRaises
     \/ RemoveRaises /\ UNCHANGED native
  /\ UNCHANGED registration

(* The error of a rollback has rollback_uncertain set after a RemoveRaises,*)
(* whether or not the registration could be deleted.                       *)
RolledBack ==
  /\ Finish(IF command.remove_error THEN "uncertain" ELSE "rolled back")
  /\ unsettled' = command.remove_error

Delete ==
  /\ At("delete")
  /\ \/ /\ registration' = None
        /\ \/ command.op = "disable" /\ Finish("DISABLED") /\ unsettled' = FALSE
           \/ command.op = "enable" /\ RolledBack
     \/ /\ UNCHANGED registration
        /\ \/ command.op = "disable" /\ Fail
           \/ command.op = "enable" /\ RolledBack
  /\ UNCHANGED native

-----------------------------------------------------------------------------
(* The environment.                                                        *)

(* Ctrl-C, which nothing in enable_schedule catches, or a crash.           *)
Interrupt ==
  /\ ~At("idle")
  /\ Finish("interrupted") /\ unsettled' = TRUE
  /\ UNCHANGED <<registration, native>>

(* The user disables the timer or the task, or boots out the service,      *)
(* whose plist stays.                                                      *)
UserStopsTimer ==
  /\ armed # None
  /\ enabled' = (platform = "launchd" /\ enabled) /\ armed' = None /\ told' = None
  /\ UNCHANGED <<registration, units, command, unsettled>>

(* The user changes the time of the task.                                  *)
UserEditsTask ==
  /\ platform = "windows" /\ units # NoUnits
  /\ \E time \in Times : units' = [units EXCEPT !.timer = time]
  /\ armed' = (IF enabled THEN units' ELSE None) /\ told' = None
  /\ UNCHANGED <<registration, enabled, command, unsettled>>

(* The manager starts anew, with the files as they are.                    *)
Reboot ==
  /\ At("idle")
  /\ armed' = IF enabled /\ units.timer # None THEN units ELSE None
  /\ told' = None
  /\ UNCHANGED <<registration, units, enabled, command, unsettled>>

DamageRegistration ==
  /\ At("idle") /\ Valid
  /\ registration' = Corrupt /\ told' = None
  /\ UNCHANGED <<native, command, unsettled>>

Next ==
  /\ \/ Status \/ Disable \/ \E schedule \in Schedule : Enable(schedule)
     \/ Compare \/ Save \/ Verify \/ Delete
     \/ WriteService \/ WriteTimer \/ Reload \/ EnableTimer
     \/ DisableTimer \/ UnlinkService \/ UnlinkTimer \/ ReloadRemoved
     \/ BootoutOld \/ WritePlist \/ Bootstrap \/ Bootout \/ UnlinkPlist
     \/ CreateTask \/ DeleteTask
     \/ Interrupt \/ UserStopsTimer \/ UserEditsTask \/ Reboot \/ DamageRegistration
  /\ UNCHANGED platform

Spec == Init /\ [][Next]_vars

-----------------------------------------------------------------------------
(* Properties.                                                             *)

(* A task that was disabled by hand: inspect does not read that.           *)
DisabledByHand == platform = "windows" /\ units # NoUnits /\ ~enabled

(* ENABLED, whether enable or status says so, means that the system        *)
(* triggers by the registered schedule and will after a reboot, whatever   *)
(* failed before.  Exceptions: with systemd, after a command that was cut  *)
(* short or that warned of its rollback; on Windows, a task disabled by    *)
(* hand (commands.py:167-243, 285-301; systemd.py:182-279; launchd.py:     *)
(* 142-191: the service goes before its plist changes; windows.py:122-195).*)
EnabledIsTrue ==
  told = "ENABLED" /\ ~(platform = "systemd" /\ unsettled) /\ ~DisabledByHand =>
    Valid /\ armed = UnitsOf(registration) /\ enabled

(* DISABLED means that nothing is left that could start a monitor, now or  *)
(* after a reboot, whatever failed or was cut short before                 *)
(* (commands.py:264-270, 304-335; systemd.py:281-292, launchd.py:193-200,   *)
(* windows.py:197-202).                                                    *)
DisabledIsQuiet ==
  told = "DISABLED" =>
    registration = None /\ units = NoUnits /\ armed = None /\ ~enabled

(* An enable that failed without the warning that the native schedule may  *)
(* still be enabled left none armed, neither the new one nor the one it    *)
(* was to replace (commands.py:208-235).                                   *)
RolledBackIsQuiet == told = "rolled back" => armed = None /\ ~enabled

(* What docs/superpowers/specs/2026-09-02-release-monitor-scheduler-       *)
(* design.md says at lines 298 and 830: a native schedule that differs in  *)
(* time or command from the registration is never reported ENABLED.        *)
DriftNeverEnabled == told = "ENABLED" => armed = UnitsOf(registration)
=============================================================================
