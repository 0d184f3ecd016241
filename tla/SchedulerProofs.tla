---------------------------- MODULE SchedulerProofs ----------------------------
(***************************************************************************)
(* That what `qualock schedule' says is true, for every set of times and   *)
(* commands, on each platform.                                             *)
(*                                                                         *)
(* Each platform has its own reason.  systemd: the timer file goes last    *)
(* and only after the timer was stopped, so no timer file means nothing is *)
(* armed; and only a command that was cut short or that warned leaves a    *)
(* timer armed by another definition than the files hold.  launchd: the    *)
(* service is booted out before its plist changes.  Windows: the task is   *)
(* replaced in one step.                                                   *)
(***************************************************************************)
EXTENDS Scheduler, TLAPS

Quiet == armed = None /\ ~enabled

SystemdPoints ==
  {"write_service", "write_timer", "reload", "enable_timer",
   "disable_timer", "unlink_service", "unlink_timer", "reload_removed"}

LaunchdPoints == {"bootout_old", "write_plist", "bootstrap", "bootout", "unlink_plist"}

WindowsPoints == {"create_task", "delete_task"}

InstallPoints ==
  {"compare", "verify", "write_service", "write_timer", "reload", "enable_timer",
   "bootout_old", "write_plist", "bootstrap", "create_task"}

RemovePoints ==
  {"disable_timer", "unlink_service", "unlink_timer", "reload_removed",
   "bootout", "unlink_plist", "delete_task"}

Points == {"idle", "save", "delete"} \cup InstallPoints \cup RemovePoints

Types ==
  /\ platform \in {"systemd", "launchd", "windows"}
  /\ registration \in Schedule \cup {None, Corrupt}
  /\ units \in UnitFiles
  /\ enabled \in BOOLEAN
  /\ armed \in UnitFiles \cup {None}
  /\ unsettled \in BOOLEAN
  /\ command \in [op : {None, "enable", "disable"}, at : Points,
                  candidate : Schedule \cup {None}, remove_error : BOOLEAN]

(* What a command may be at, and that nothing was told while one runs.     *)
Commanded ==
  /\ told # None => command.at = "idle"
  /\ command.at = "idle" => command.op = None
  /\ command.op = None => command.at = "idle"
  /\ command.op = "enable" =>
       command.at \in {"save", "delete"} \cup InstallPoints \cup RemovePoints
  /\ command.op = "disable" => command.at \in {"delete"} \cup RemovePoints
  /\ command.remove_error => command.op = "enable" /\ command.at = "delete"

OnItsPlatform ==
  /\ command.at \in SystemdPoints => platform = "systemd"
  /\ command.at \in LaunchdPoints => platform = "launchd"
  /\ command.at \in WindowsPoints => platform = "windows"

(* An enable works on the schedule that it registered.                     *)
Registered ==
  /\ command.op = "enable" => command.candidate \in Schedule
  /\ command.at \in InstallPoints => registration = command.candidate

SystemdHolds ==
  /\ units.timer = None => Quiet
  /\ command.at \in {"unlink_service", "unlink_timer", "reload_removed"} => Quiet
  /\ command.at \in {"unlink_timer", "reload_removed"} => units.service = None
  /\ command.at = "reload_removed" => units.timer = None
  /\ command.at \in {"reload", "enable_timer", "verify"} => units.timer # None
  /\ command.at = "verify" => armed \in {None, units}
  /\ ~unsettled /\ (command.at \in {"idle", "compare", "save"} \/ command.op = "disable") =>
       armed \in {None, units}

LaunchdHolds ==
  /\ enabled <=> units # NoUnits
  /\ armed # None => armed = units /\ enabled
  /\ command.at \in {"write_plist", "bootstrap", "unlink_plist"} => armed = None
  /\ command.at = "bootstrap" => enabled

WindowsHolds ==
  /\ armed = IF enabled THEN units ELSE None
  /\ enabled => units.timer # None

(* What a remove that raised nothing leaves to store.delete.               *)
Removed == command.at = "delete" /\ ~command.remove_error => Quiet /\ units = NoUnits

Told == EnabledIsTrue /\ DisabledIsQuiet /\ RolledBackIsQuiet

IInv ==
  /\ Types /\ Commanded /\ OnItsPlatform /\ Registered
  /\ platform = "systemd" => SystemdHolds
  /\ platform = "launchd" => LaunchdHolds
  /\ platform = "windows" => WindowsHolds
  /\ Removed /\ Told

-----------------------------------------------------------------------------
(* How a command goes on, field by field.                                  *)

SameCommand ==
  /\ command'.op = command.op /\ command'.candidate = command.candidate
  /\ told' = told /\ unsettled' = unsettled

Moved(point) ==
  SameCommand /\ command'.at = point /\ command'.remove_error = command.remove_error

Ended(outcome) ==
  /\ command'.op = None /\ command'.at = "idle" /\ ~command'.remove_error
  /\ told' = outcome

Raised ==
  \/ command.op = "disable" /\ Ended("failed") /\ unsettled' = unsettled
  \/ /\ command.op = "enable" /\ SameCommand
     /\ command'.at = "delete" /\ command'.remove_error

RollsBack == Moved("disable_timer") \/ Moved("bootout") \/ Moved("delete_task")

CommandTypes ==
  command \in [op : {None, "enable", "disable"}, at : Points,
               candidate : Schedule \cup {None}, remove_error : BOOLEAN]

LEMMA GotoMoves ==
  ASSUME CommandTypes, NEW point \in Points, Goto(point)
  PROVE  Moved(point) /\ CommandTypes'
BY DEF CommandTypes, Goto, Moved, SameCommand

LEMMA FinishEnds ==
  ASSUME NEW outcome, Finish(outcome)
  PROVE  Ended(outcome) /\ CommandTypes'
BY DEF CommandTypes, Finish, Ended, NoCommand, Points

LEMMA RemoveRaisesRaises ==
  ASSUME CommandTypes, RemoveRaises
  PROVE  Raised /\ CommandTypes'
<1>1. CASE command.op = "disable" /\ Fail
  BY <1>1, FinishEnds DEF Fail, Raised
<1>2. CASE command.op = "enable" /\ ~Fail
  BY <1>2, RemoveRaises DEF RemoveRaises, CommandTypes, Raised, SameCommand, Points
<1> QED  BY <1>1, <1>2 DEF RemoveRaises, CommandTypes, Raised, SameCommand, Points

LEMMA RollbackMoves ==
  ASSUME CommandTypes, platform \in {"systemd", "launchd", "windows"}, Rollback
  PROVE  /\ Moved(RemoveFrom[platform]) /\ CommandTypes'
         /\ platform = "systemd" => RemoveFrom[platform] = "disable_timer"
         /\ platform = "launchd" => RemoveFrom[platform] = "bootout"
         /\ platform = "windows" => RemoveFrom[platform] = "delete_task"
BY GotoMoves DEF Rollback, RemoveFrom, Points, RemovePoints

-----------------------------------------------------------------------------
(* What the backends' inspect is worth.                                    *)

(* A definition that inspect calls matching is the one that triggers.      *)
LEMMA MatchingIsTrue ==
  ASSUME IInv, NEW expected \in Schedule, NativeState(expected) = "matching",
         ~DisabledByHand,
         platform = "systemd" =>
           command.at = "verify" \/ (command.at \in {"idle", "compare"} /\ ~unsettled)
  PROVE  armed = UnitsOf(expected) /\ enabled
<1> USE MarkersAssumption DEF IInv, Types, UnitFiles, Schedule
<1>1. Matches(expected) /\ expected # None
  BY DEF NativeState
<1>2. UnitsOf(expected) # NoUnits
  BY DEF UnitsOf, NoUnits
<1>3. CASE platform = "systemd"
  BY <1>1, <1>3 DEF Matches, TimerMatches, SystemdHolds
<1>4. CASE platform = "launchd"
  BY <1>1, <1>4 DEF Matches, AgentMatches, LaunchdHolds
<1>5. CASE platform = "windows"
  BY <1>1, <1>2, <1>5 DEF Matches, TaskMatches, WindowsHolds, DisabledByHand
<1> QED  BY <1>3, <1>4, <1>5

(* What inspect calls missing, with nothing registered, is not there.      *)
LEMMA MissingIsTrue ==
  ASSUME IInv, NativeState(None) = "missing"
  PROVE  units = NoUnits /\ Quiet
<1> USE MarkersAssumption DEF IInv, Types, UnitFiles
<1>1. units = NoUnits /\ armed \in {None, NoUnits} /\ units.timer = None
  BY DEF NativeState, NoUnits
<1>2. CASE platform = "systemd"
  BY <1>1, <1>2 DEF SystemdHolds
<1>3. CASE platform = "launchd"
  BY <1>1, <1>3 DEF LaunchdHolds, Quiet
<1>4. CASE platform = "windows"
  BY <1>1, <1>4 DEF WindowsHolds, Quiet
<1> QED  BY <1>2, <1>3, <1>4

(* Where install and remove begin.                                         *)
LEMMA PlatformPoints ==
  ASSUME platform \in {"systemd", "launchd", "windows"}
  PROVE  /\ platform = "systemd" => /\ InstallFrom[platform] = "write_service"
                                    /\ RemoveFrom[platform] = "disable_timer"
         /\ platform = "launchd" => /\ InstallFrom[platform] = "bootout_old"
                                    /\ RemoveFrom[platform] = "bootout"
         /\ platform = "windows" => /\ InstallFrom[platform] = "create_task"
                                    /\ RemoveFrom[platform] = "delete_task"
BY DEF InstallFrom, RemoveFrom

(* Whoever is told anything else, or nothing, is told nothing untrue.      *)
LEMMA Untold == ASSUME told' \notin {"ENABLED", "DISABLED", "rolled back"} PROVE Told'
BY DEF Told, EnabledIsTrue, DisabledIsQuiet, RolledBackIsQuiet

-----------------------------------------------------------------------------
(* One lemma per action.                                                   *)

LEMMA StatusKeeps == IInv /\ Status /\ UNCHANGED platform => IInv'
<1> SUFFICES ASSUME IInv, Status, UNCHANGED platform PROVE IInv'
  OBVIOUS
<1>1. /\ command.at = "idle" /\ UNCHANGED <<registration, units, enabled, armed, command, unsettled>>
      /\ told' = "failed" \/ \E healthy \in BOOLEAN : told' = Report(healthy)
  BY DEF Status, At, native
<1>2. Told'
  <2>1. CASE told' = "ENABLED"
    <3>1. Valid /\ NativeState(registration) = "matching" /\ registration \in Schedule
      BY <1>1, <2>1 DEF Report, Valid, IInv, Types
    <3> QED  BY <1>1, <2>1, <3>1, MatchingIsTrue
             DEF Told, EnabledIsTrue, DisabledIsQuiet, RolledBackIsQuiet, DisabledByHand, Valid
  <2>2. CASE told' = "DISABLED"
    <3>1. registration = None /\ NativeState(None) = "missing"
      BY <1>1, <2>2 DEF Report
    <3> QED  BY <1>1, <2>2, <3>1, MissingIsTrue
             DEF Told, EnabledIsTrue, DisabledIsQuiet, RolledBackIsQuiet, Quiet
  <2> QED  BY <1>1, <2>1, <2>2, Untold DEF Report
<1> QED
  BY <1>1, <1>2
  DEF IInv, Types, Commanded, OnItsPlatform, Registered, SystemdHolds, LaunchdHolds,
      WindowsHolds, Removed, Quiet

LEMMA EnableKeeps ==
  ASSUME IInv, NEW schedule \in Schedule, Enable(schedule), UNCHANGED platform
  PROVE  IInv'
<1> USE MarkersAssumption
    DEF IInv, Types, Commanded, OnItsPlatform, Registered, Removed, Quiet, Words, Points,
        InstallPoints, RemovePoints, SystemdPoints, LaunchdPoints, WindowsPoints
<1>1. command.at = "idle" /\ UNCHANGED <<registration, units, enabled, armed>>
  BY DEF Enable, At, native
<1>2. CASE Fail
  <2>1. Ended("failed") /\ unsettled' = unsettled /\ CommandTypes'
    BY <1>2, FinishEnds DEF Fail
  <2>2. Told'
    BY <2>1, Untold DEF Ended
  <2> QED  BY ZenonT(40), <1>1, <2>1, <2>2 DEF Ended, CommandTypes, SystemdHolds, LaunchdHolds, WindowsHolds
<1>3. CASE /\ command' = [op |-> "enable", candidate |-> schedule, remove_error |-> FALSE,
                          at |-> IF registration = schedule THEN "compare" ELSE "save"]
           /\ told' = None /\ UNCHANGED unsettled
  <2>1. /\ command'.op = "enable" /\ command'.candidate = schedule /\ ~command'.remove_error
        /\ command'.at \in {"compare", "save"}
        /\ command'.at = "compare" => registration = schedule
        /\ CommandTypes'
    BY <1>3 DEF CommandTypes
  <2>2. Told'
    BY <1>3, Untold
  <2> QED  BY ZenonT(40), <1>1, <1>3, <2>1, <2>2 DEF CommandTypes, SystemdHolds, LaunchdHolds, WindowsHolds
<1> QED  BY <1>2, <1>3 DEF Enable

LEMMA DisableKeeps == IInv /\ Disable /\ UNCHANGED platform => IInv'
<1> SUFFICES ASSUME IInv, Disable, UNCHANGED platform PROVE IInv'
  OBVIOUS
<1> USE MarkersAssumption
    DEF IInv, Types, Commanded, OnItsPlatform, Registered, Removed, Quiet, Words, Points,
        InstallPoints, RemovePoints, SystemdPoints, LaunchdPoints, WindowsPoints
<1>1. command.at = "idle" /\ UNCHANGED <<registration, units, enabled, armed>>
  BY DEF Disable, At, native
<1>2. CASE Fail
  <2>1. Ended("failed") /\ unsettled' = unsettled /\ CommandTypes'
    BY <1>2, FinishEnds DEF Fail
  <2>2. Told'
    BY <2>1, Untold DEF Ended
  <2> QED  BY ZenonT(40), <1>1, <2>1, <2>2 DEF Ended, CommandTypes, SystemdHolds, LaunchdHolds, WindowsHolds
<1>3. CASE /\ command' = [NoCommand EXCEPT !.op = "disable", !.at = RemoveFrom[platform]]
           /\ told' = None /\ UNCHANGED unsettled
  <2>0. /\ platform = "systemd" => RemoveFrom[platform] = "disable_timer"
        /\ platform = "launchd" => RemoveFrom[platform] = "bootout"
        /\ platform = "windows" => RemoveFrom[platform] = "delete_task"
    BY PlatformPoints
  <2>1. /\ command'.op = "disable" /\ ~command'.remove_error /\ CommandTypes'
        /\ command'.at = RemoveFrom[platform]
    BY <1>3, <2>0 DEF CommandTypes, NoCommand
  <2>2. Told'
    BY <1>3, Untold
  <2> QED
    BY <1>1, <1>3, <2>0, <2>1, <2>2 DEF CommandTypes, SystemdHolds, LaunchdHolds, WindowsHolds
<1> QED  BY <1>2, <1>3 DEF Disable

LEMMA CompareKeeps == IInv /\ Compare /\ UNCHANGED platform => IInv'
<1> SUFFICES ASSUME IInv, Compare, UNCHANGED platform PROVE IInv'
  OBVIOUS
<1>0. /\ command.at = "compare" /\ registration \in Schedule
      /\ NativeState(registration) = "matching"
      /\ ~DisabledByHand /\ ~(platform = "systemd" /\ unsettled)
      => armed = UnitsOf(registration) /\ enabled
  BY MatchingIsTrue
<1> USE MarkersAssumption
    DEF IInv, Types, Commanded, OnItsPlatform, Registered, Removed, Quiet, Words, Points,
        InstallPoints, RemovePoints, SystemdPoints, LaunchdPoints, WindowsPoints
<1>1. /\ command.at = "compare" /\ UNCHANGED <<registration, units, enabled, armed>>
      /\ command.op = "enable" /\ registration \in Schedule /\ CommandTypes
  BY DEF Compare, At, native, CommandTypes
<1>2. CASE Fail
  <2>1. Ended("failed") /\ unsettled' = unsettled /\ CommandTypes'
    BY <1>2, FinishEnds DEF Fail
  <2>2. Told'
    BY <2>1, Untold DEF Ended
  <2> QED  BY <1>1, <2>1, <2>2 DEF Ended, CommandTypes, SystemdHolds, LaunchdHolds, WindowsHolds
<1>3. CASE NativeState(registration) = "matching" /\ Finish("ENABLED") /\ UNCHANGED unsettled
  <2>1. Ended("ENABLED") /\ unsettled' = unsettled /\ CommandTypes'
    BY <1>3, FinishEnds
  <2>2. ~(platform = "systemd" /\ unsettled) /\ ~DisabledByHand =>
          armed = UnitsOf(registration) /\ enabled
    BY <1>0, <1>1, <1>3
  <2>3. /\ told' = "ENABLED" /\ DisabledByHand' = DisabledByHand /\ Valid'
        /\ unsettled' = unsettled
    BY <1>1, <2>1 DEF Ended, DisabledByHand, Valid
  <2>4. Told'
    BY <1>1, <2>2, <2>3 DEF Told, EnabledIsTrue, DisabledIsQuiet, RolledBackIsQuiet, UnitsOf
  <2> QED
    BY <1>1, <2>1, <2>4
    DEF Ended, CommandTypes, SystemdHolds, LaunchdHolds, WindowsHolds
<1>4. CASE Goto("save")
  <2>1. Moved("save") /\ CommandTypes'
    BY <1>1, <1>4, GotoMoves
  <2>2. told' = None
    BY <1>1, <2>1 DEF Moved, SameCommand
  <2>3. Told'
    BY <2>2, Untold
  <2> QED
    BY <1>1, <2>1, <2>2, <2>3
    DEF Moved, SameCommand, CommandTypes, SystemdHolds, LaunchdHolds, WindowsHolds
<1> QED  BY <1>2, <1>3, <1>4 DEF Compare

LEMMA SaveKeeps == IInv /\ Save /\ UNCHANGED platform => IInv'
<1> SUFFICES ASSUME IInv, Save, UNCHANGED platform PROVE IInv'
  OBVIOUS
<1> USE MarkersAssumption
    DEF IInv, Types, Commanded, OnItsPlatform, Registered, Removed, Quiet, Words, Points,
        InstallPoints, RemovePoints, SystemdPoints, LaunchdPoints, WindowsPoints
<1>1. /\ command.at = "save" /\ UNCHANGED <<units, enabled, armed>>
      /\ command.op = "enable" /\ command.candidate \in Schedule /\ CommandTypes
      /\ registration' \in {registration, command.candidate}
  BY DEF Save, At, native, CommandTypes
<1>2. CASE Fail
  <2>1. Ended("failed") /\ unsettled' = unsettled /\ CommandTypes'
    BY <1>2, FinishEnds DEF Fail
  <2>2. Told'
    BY <2>1, Untold DEF Ended
  <2> QED  BY ZenonT(40), <1>1, <2>1, <2>2 DEF Ended, CommandTypes, SystemdHolds, LaunchdHolds, WindowsHolds
<1>3. CASE registration' = command.candidate /\ Goto(InstallFrom[platform])
  <2>1. /\ platform = "systemd" => InstallFrom[platform] = "write_service"
        /\ platform = "launchd" => InstallFrom[platform] = "bootout_old"
        /\ platform = "windows" => InstallFrom[platform] = "create_task"
    BY PlatformPoints
  <2>2. Moved(InstallFrom[platform]) /\ CommandTypes'
    BY <1>1, <1>3, <2>1, GotoMoves
  <2>3. told' = None
    BY <1>1, <2>2 DEF Moved, SameCommand
  <2>4. Told'
    BY <2>3, Untold
  <2> QED
    BY <1>1, <1>3, <2>1, <2>2, <2>3, <2>4
    DEF Moved, SameCommand, CommandTypes, SystemdHolds, LaunchdHolds, WindowsHolds
<1> QED  BY <1>2, <1>3 DEF Save

LEMMA VerifyKeeps == IInv /\ Verify /\ UNCHANGED platform => IInv'
<1> SUFFICES ASSUME IInv, Verify, UNCHANGED platform PROVE IInv'
  OBVIOUS
<1>0. ASSUME command.at = "verify", command.candidate \in Schedule,
             NativeState(command.candidate) = "matching", ~DisabledByHand
      PROVE  armed = UnitsOf(command.candidate) /\ enabled
  <2>1. platform = "systemd" =>
          command.at = "verify" \/ (command.at \in {"idle", "compare"} /\ ~unsettled)
    BY <1>0
  <2> QED  BY <1>0, <2>1, MatchingIsTrue
<1> USE MarkersAssumption
    DEF IInv, Types, Commanded, OnItsPlatform, Registered, Removed, Quiet, Words, Points,
        InstallPoints, RemovePoints, SystemdPoints, LaunchdPoints, WindowsPoints
<1>1. /\ command.at = "verify" /\ UNCHANGED <<registration, units, enabled, armed>>
      /\ command.op = "enable" /\ command.candidate \in Schedule /\ CommandTypes
      /\ registration = command.candidate
  BY DEF Verify, At, native, CommandTypes
<1>2. CASE Rollback
  <2>1. /\ Moved(RemoveFrom[platform]) /\ CommandTypes'
        /\ platform = "systemd" => RemoveFrom[platform] = "disable_timer"
        /\ platform = "launchd" => RemoveFrom[platform] = "bootout"
        /\ platform = "windows" => RemoveFrom[platform] = "delete_task"
    BY <1>1, <1>2, RollbackMoves
  <2>2. told' = None
    BY <1>1, <2>1 DEF Moved, SameCommand
  <2>3. Told'
    BY <2>2, Untold
  <2> QED
    BY ZenonT(40), <1>1, <2>1, <2>2, <2>3
    DEF Moved, SameCommand, CommandTypes, SystemdHolds, LaunchdHolds, WindowsHolds
<1>3. CASE NativeState(command.candidate) = "matching" /\ Finish("ENABLED") /\ unsettled' = FALSE
  <2>1. Ended("ENABLED") /\ ~unsettled' /\ unsettled' \in BOOLEAN /\ CommandTypes'
    BY <1>3, FinishEnds
  <2>2. ~(platform = "systemd" /\ unsettled') /\ ~DisabledByHand =>
          armed = UnitsOf(registration) /\ enabled
    BY <1>0, <1>1, <1>3
  <2>3. told' = "ENABLED" /\ DisabledByHand' = DisabledByHand /\ Valid'
    BY <1>1, <2>1 DEF Ended, DisabledByHand, Valid
  <2>4. Told'
    BY <1>1, <2>2, <2>3 DEF Told, EnabledIsTrue, DisabledIsQuiet, RolledBackIsQuiet, UnitsOf
  <2> QED  BY <1>1, <2>1, <2>3, <2>4 DEF Ended, CommandTypes, SystemdHolds, LaunchdHolds, WindowsHolds
<1> QED  BY <1>2, <1>3 DEF Verify

LEMMA DeleteKeeps == IInv /\ Delete /\ UNCHANGED platform => IInv'
<1> SUFFICES ASSUME IInv, Delete, UNCHANGED platform PROVE IInv'
  OBVIOUS
<1> USE MarkersAssumption
    DEF IInv, Types, Commanded, OnItsPlatform, Registered, Quiet, Words, Points,
        InstallPoints, RemovePoints, SystemdPoints, LaunchdPoints, WindowsPoints
<1>1. /\ command.at = "delete" /\ UNCHANGED <<units, enabled, armed>>
      /\ command.op \in {"enable", "disable"} /\ CommandTypes
      /\ registration' \in {registration, None}
  BY DEF Delete, At, native, CommandTypes
<1>2. CASE command.op = "disable" /\ Fail
  <2>1. Ended("failed") /\ unsettled' = unsettled /\ CommandTypes'
    BY <1>2, FinishEnds DEF Fail
  <2>2. Told'
    BY <2>1, Untold DEF Ended
  <2> QED
    BY ZenonT(40), <1>1, <1>2, <2>1, <2>2
    DEF Ended, CommandTypes, SystemdHolds, LaunchdHolds, WindowsHolds, Removed
<1>3. CASE /\ command.op = "disable" /\ registration' = None /\ Finish("DISABLED")
           /\ unsettled' = FALSE
  <2>1. Ended("DISABLED") /\ unsettled' \in BOOLEAN /\ CommandTypes'
    BY <1>3, FinishEnds
  <2>2. Quiet /\ units = NoUnits
    BY <1>1, <1>3 DEF Removed
  <2>3. Told'
    BY <1>1, <1>3, <2>1, <2>2 DEF Ended, Told, EnabledIsTrue, DisabledIsQuiet, RolledBackIsQuiet
  <2> QED
    BY ZenonT(40), <1>1, <2>1, <2>2, <2>3
    DEF Ended, CommandTypes, SystemdHolds, LaunchdHolds, WindowsHolds, Removed
<1>4. CASE command.op = "enable" /\ RolledBack
  <2>1. /\ Ended(IF command.remove_error THEN "uncertain" ELSE "rolled back") /\ CommandTypes'
        /\ unsettled' = command.remove_error
    BY <1>4, FinishEnds DEF RolledBack
  <2>2. command.remove_error \in BOOLEAN /\ unsettled' \in BOOLEAN
    BY <1>1, <2>1 DEF CommandTypes
  <2>3. CASE command.remove_error
    <3>1. told' = "uncertain" /\ unsettled'
      BY <2>1, <2>3 DEF Ended
    <3>2. Told'
      BY <3>1, Untold
    <3> QED
      BY ZenonT(40), <1>1, <2>1, <2>2, <3>1, <3>2
      DEF Ended, CommandTypes, SystemdHolds, LaunchdHolds, WindowsHolds, Removed
  <2>4. CASE ~command.remove_error
    <3>1. told' = "rolled back" /\ Quiet
      BY <1>1, <2>1, <2>4 DEF Ended, Removed
    <3>2. Told'
      BY <1>1, <3>1 DEF Told, EnabledIsTrue, DisabledIsQuiet, RolledBackIsQuiet
    <3> QED
      BY ZenonT(40), <1>1, <2>1, <2>2, <3>1, <3>2
      DEF Ended, CommandTypes, SystemdHolds, LaunchdHolds, WindowsHolds, Removed
  <2> QED  BY <2>3, <2>4
<1> QED  BY <1>2, <1>3, <1>4 DEF Delete

LEMMA InterruptKeeps == IInv /\ Interrupt /\ UNCHANGED platform => IInv'
<1> SUFFICES ASSUME IInv, Interrupt, UNCHANGED platform PROVE IInv'
  OBVIOUS
<1> USE MarkersAssumption
    DEF IInv, Types, Commanded, OnItsPlatform, Registered, Removed, Quiet, Words, Points,
        InstallPoints, RemovePoints, SystemdPoints, LaunchdPoints, WindowsPoints
<1>1. UNCHANGED <<registration, units, enabled, armed>>
  BY DEF Interrupt, native
<1>2. Ended("interrupted") /\ unsettled' /\ unsettled' \in BOOLEAN /\ CommandTypes'
  BY FinishEnds DEF Interrupt
<1>3. Told'
  BY <1>2, Untold DEF Ended
<1> QED
  BY <1>1, <1>2, <1>3 DEF Ended, CommandTypes, SystemdHolds, LaunchdHolds, WindowsHolds

LEMMA UserStopsTimerKeeps == IInv /\ UserStopsTimer /\ UNCHANGED platform => IInv'
<1> SUFFICES ASSUME IInv, UserStopsTimer, UNCHANGED platform PROVE IInv'
  OBVIOUS
<1> USE MarkersAssumption DEF IInv, Types, Commanded, OnItsPlatform, Registered, Removed, Quiet
<1>1. /\ UNCHANGED <<registration, units, command, unsettled>> /\ armed # None
      /\ enabled' = (platform = "launchd" /\ enabled) /\ armed' = None /\ told' = None
  BY DEF UserStopsTimer
<1>2. Told'
  BY <1>1, Untold DEF Words
<1>3. enabled' \in BOOLEAN /\ (enabled' => platform = "launchd")
  BY <1>1
<1>4. CASE platform = "systemd"
  BY <1>1, <1>2, <1>3, <1>4 DEF SystemdHolds
<1>5. CASE platform = "launchd"
  <2>1. enabled' = enabled
    BY <1>1, <1>5
  <2> QED  BY <1>1, <1>2, <1>5, <2>1 DEF LaunchdHolds
<1>6. CASE platform = "windows"
  BY <1>1, <1>2, <1>3, <1>6 DEF WindowsHolds
<1> QED  BY <1>4, <1>5, <1>6

LEMMA UserEditsTaskKeeps == IInv /\ UserEditsTask /\ UNCHANGED platform => IInv'
<1> SUFFICES ASSUME IInv, UserEditsTask, UNCHANGED platform PROVE IInv'
  OBVIOUS
<1> USE MarkersAssumption DEF IInv, Types, Commanded, OnItsPlatform, Registered, Removed, Quiet
<1>1. /\ UNCHANGED <<registration, enabled, command, unsettled>> /\ units # NoUnits
      /\ platform = "windows" /\ armed' = (IF enabled THEN units' ELSE None) /\ told' = None
  BY DEF UserEditsTask
<1>2. units' \in UnitFiles /\ units'.timer # None
  BY DEF UserEditsTask, UnitFiles
<1>3. Told'
  BY <1>1, Untold DEF Words
<1> QED  BY <1>1, <1>2, <1>3 DEF WindowsHolds

LEMMA RebootKeeps == IInv /\ Reboot /\ UNCHANGED platform => IInv'
<1> SUFFICES ASSUME IInv, Reboot, UNCHANGED platform PROVE IInv'
  OBVIOUS
<1> USE MarkersAssumption DEF IInv, Types, Commanded, OnItsPlatform, Registered, Removed, Quiet
<1>1. /\ UNCHANGED <<registration, units, enabled, command, unsettled>> /\ command.at = "idle"
      /\ armed' = (IF enabled /\ units.timer # None THEN units ELSE None) /\ told' = None
  BY DEF Reboot, At
<1>2. Told'
  BY <1>1, Untold DEF Words
<1>3. CASE platform = "systemd"
  BY <1>1, <1>2, <1>3 DEF SystemdHolds
<1>4. CASE platform = "launchd"
  BY <1>1, <1>2, <1>4 DEF LaunchdHolds
<1>5. CASE platform = "windows"
  BY <1>1, <1>2, <1>5 DEF WindowsHolds
<1> QED  BY <1>3, <1>4, <1>5

LEMMA DamageRegistrationKeeps == IInv /\ DamageRegistration /\ UNCHANGED platform => IInv'
<1> SUFFICES ASSUME IInv, DamageRegistration, UNCHANGED platform PROVE IInv'
  OBVIOUS
<1> USE MarkersAssumption DEF IInv, Types, Commanded, OnItsPlatform, Registered, Removed, Quiet
<1>1. /\ UNCHANGED <<units, enabled, armed, command, unsettled>> /\ command.at = "idle"
      /\ registration' = Corrupt /\ told' = None
  BY DEF DamageRegistration, At, native
<1>2. Told'
  BY <1>1, Untold DEF Words
<1> QED
  BY <1>1, <1>2 DEF SystemdHolds, LaunchdHolds, WindowsHolds, InstallPoints

LEMMA WriteServiceKeeps == IInv /\ WriteService /\ UNCHANGED platform => IInv'
<1> SUFFICES ASSUME IInv, WriteService, UNCHANGED platform PROVE IInv'
  OBVIOUS
<1> USE MarkersAssumption
    DEF WriteService, IInv, Types, CommandTypes, Commanded, OnItsPlatform, Registered, Quiet,
        Points, InstallPoints, RemovePoints, SystemdPoints, LaunchdPoints, WindowsPoints
<1>1. /\ platform = "systemd" /\ command.at = "write_service" /\ CommandTypes
      /\ command.op = "enable" /\ command.candidate \in Schedule /\ told = None
  BY DEF At, Words
<1>2. CASE units' = [units EXCEPT !.service = command.candidate.command] /\ Goto("write_timer")
  <2>1. Moved("write_timer") /\ CommandTypes'
    BY <1>1, <1>2, GotoMoves
  <2>2. units'.timer = units.timer /\ units' \in UnitFiles
    BY <1>1, <1>2 DEF UnitFiles, UnitsOf, NoUnits, Schedule, SystemdHolds
  <2> QED
    BY <1>1, <1>2, <2>1, <2>2
    DEF SystemdHolds, Removed, Told, EnabledIsTrue, DisabledIsQuiet, RolledBackIsQuiet,
        Words, Moved, SameCommand
<1>3. CASE Rollback /\ UNCHANGED units
  <2>1. Moved("disable_timer") /\ CommandTypes'
    BY <1>1, <1>3, RollbackMoves
  <2> QED
    BY <1>1, <1>3, <2>1
    DEF SystemdHolds, Removed, Told, EnabledIsTrue, DisabledIsQuiet, RolledBackIsQuiet,
        Words, Moved, SameCommand
<1> QED  BY <1>2, <1>3

LEMMA WriteTimerKeeps == IInv /\ WriteTimer /\ UNCHANGED platform => IInv'
<1> SUFFICES ASSUME IInv, WriteTimer, UNCHANGED platform PROVE IInv'
  OBVIOUS
<1> USE MarkersAssumption
    DEF WriteTimer, IInv, Types, CommandTypes, Commanded, OnItsPlatform, Registered, Quiet,
        Points, InstallPoints, RemovePoints, SystemdPoints, LaunchdPoints, WindowsPoints
<1>1. /\ platform = "systemd" /\ command.at = "write_timer" /\ CommandTypes
      /\ command.op = "enable" /\ command.candidate \in Schedule /\ told = None
  BY DEF At, Words
<1>2. CASE units' = [units EXCEPT !.timer = command.candidate.time] /\ Goto("reload")
  <2>1. Moved("reload") /\ CommandTypes'
    BY <1>1, <1>2, GotoMoves
  <2>2. units'.timer \in Times /\ units' \in UnitFiles
    BY <1>1, <1>2 DEF UnitFiles, UnitsOf, NoUnits, Schedule, SystemdHolds
  <2> QED
    BY <1>1, <1>2, <2>1, <2>2
    DEF SystemdHolds, Removed, Told, EnabledIsTrue, DisabledIsQuiet, RolledBackIsQuiet,
        Words, Moved, SameCommand
<1>3. CASE Rollback /\ UNCHANGED units
  <2>1. Moved("disable_timer") /\ CommandTypes'
    BY <1>1, <1>3, RollbackMoves
  <2> QED
    BY <1>1, <1>3, <2>1
    DEF SystemdHolds, Removed, Told, EnabledIsTrue, DisabledIsQuiet, RolledBackIsQuiet,
        Words, Moved, SameCommand
<1> QED  BY <1>2, <1>3

LEMMA ReloadKeeps == IInv /\ Reload /\ UNCHANGED platform => IInv'
<1> SUFFICES ASSUME IInv, Reload, UNCHANGED platform PROVE IInv'
  OBVIOUS
<1> USE MarkersAssumption
    DEF Reload, IInv, Types, CommandTypes, Commanded, OnItsPlatform, Registered, Quiet,
        Points, InstallPoints, RemovePoints, SystemdPoints, LaunchdPoints, WindowsPoints
<1>1. /\ platform = "systemd" /\ command.at = "reload" /\ CommandTypes
      /\ command.op = "enable" /\ command.candidate \in Schedule /\ told = None
  BY DEF At, Words
<1>2. CASE DaemonReload /\ Goto("enable_timer")
  <2>1. Moved("enable_timer") /\ CommandTypes'
    BY <1>1, <1>2, GotoMoves
  <2> QED
    BY <1>1, <1>2, <2>1
    DEF SystemdHolds, Removed, Told, EnabledIsTrue, DisabledIsQuiet, RolledBackIsQuiet,
        Words, Moved, SameCommand, DaemonReload
<1>3. CASE Rollback /\ (DaemonReload \/ UNCHANGED armed)
  <2>1. Moved("disable_timer") /\ CommandTypes'
    BY <1>1, <1>3, RollbackMoves
  <2> QED
    BY ZenonT(40), <1>1, <1>3, <2>1
    DEF SystemdHolds, Removed, Told, EnabledIsTrue, DisabledIsQuiet, RolledBackIsQuiet,
        Words, Moved, SameCommand, DaemonReload
<1> QED  BY <1>2, <1>3

LEMMA EnableTimerKeeps == IInv /\ EnableTimer /\ UNCHANGED platform => IInv'
<1> SUFFICES ASSUME IInv, EnableTimer, UNCHANGED platform PROVE IInv'
  OBVIOUS
<1> USE MarkersAssumption
    DEF EnableTimer, IInv, Types, CommandTypes, Commanded, OnItsPlatform, Registered, Quiet,
        Points, InstallPoints, RemovePoints, SystemdPoints, LaunchdPoints, WindowsPoints
<1>1. /\ platform = "systemd" /\ command.at = "enable_timer" /\ CommandTypes
      /\ command.op = "enable" /\ command.candidate \in Schedule /\ told = None
  BY DEF At, Words
<1>2. CASE enabled' = TRUE /\ armed' = units /\ Goto("verify")
  <2>1. Moved("verify") /\ CommandTypes'
    BY <1>1, <1>2, GotoMoves
  <2> QED
    BY <1>1, <1>2, <2>1
    DEF SystemdHolds, Removed, Told, EnabledIsTrue, DisabledIsQuiet, RolledBackIsQuiet,
        Words, Moved, SameCommand
<1>3. CASE Rollback
  <2>1. Moved("disable_timer") /\ CommandTypes'
    BY <1>1, <1>3, RollbackMoves
  <2> QED
    BY ZenonT(40), <1>1, <1>3, <2>1
    DEF SystemdHolds, Removed, Told, EnabledIsTrue, DisabledIsQuiet, RolledBackIsQuiet,
        Words, Moved, SameCommand
<1> QED  BY <1>2, <1>3

LEMMA DisableTimerKeeps == IInv /\ DisableTimer /\ UNCHANGED platform => IInv'
<1> SUFFICES ASSUME IInv, DisableTimer, UNCHANGED platform PROVE IInv'
  OBVIOUS
<1> USE MarkersAssumption
    DEF IInv, Types, CommandTypes, Commanded, OnItsPlatform, Registered, Quiet,
        Points, InstallPoints, RemovePoints, SystemdPoints, LaunchdPoints, WindowsPoints
<1>1. /\ platform = "systemd" /\ command.at = "disable_timer" /\ CommandTypes
      /\ command.op \in {"enable", "disable"} /\ ~command.remove_error /\ told = None
      /\ registration' = registration /\ units' = units
  BY DEF DisableTimer, At, Words
<1>2. CASE units.timer = None /\ Goto("unlink_service") /\ UNCHANGED <<enabled, armed>>
  <2>1. Moved("unlink_service") /\ CommandTypes'
    BY <1>1, <1>2, GotoMoves
  <2> QED
    BY <1>1, <1>2, <2>1
    DEF SystemdHolds, Removed, Told, EnabledIsTrue, DisabledIsQuiet, RolledBackIsQuiet,
        Words, Moved, SameCommand
<1>3. CASE enabled' = FALSE /\ armed' = None /\ Goto("unlink_service")
  <2>1. Moved("unlink_service") /\ CommandTypes'
    BY <1>1, <1>3, GotoMoves
  <2> QED
    BY <1>1, <1>3, <2>1
    DEF SystemdHolds, Removed, Told, EnabledIsTrue, DisabledIsQuiet, RolledBackIsQuiet,
        Words, Moved, SameCommand
<1>4. CASE RemoveRaises /\ enabled' = FALSE /\ armed' = None
  <2>1. Raised /\ CommandTypes'
    BY <1>1, <1>4, RemoveRaisesRaises
  <2> QED
    BY <1>1, <1>4, <2>1
    DEF SystemdHolds, Removed, Told, EnabledIsTrue, DisabledIsQuiet, RolledBackIsQuiet,
        Words, Raised, Ended, SameCommand
<1>5. CASE RemoveRaises /\ (enabled' = FALSE) /\ UNCHANGED armed
  <2>1. Raised /\ CommandTypes'
    BY <1>1, <1>5, RemoveRaisesRaises
  <2>2. SystemdHolds'
    BY <1>1, <1>5, <2>1 DEF SystemdHolds, Raised, Ended, SameCommand
  <2>3. Commanded'
    BY <1>1, <1>5, <2>1 DEF Words, Raised, Ended, SameCommand
  <2>6. Registered'
    BY <1>1, <1>5, <2>1 DEF Words, Raised, Ended, SameCommand
  <2>7. OnItsPlatform'
    BY <1>1, <1>5, <2>1 DEF Raised, Ended, SameCommand
  <2>4. Removed' /\ Told'
    BY <1>1, <1>5, <2>1
    DEF Removed, Told, EnabledIsTrue, DisabledIsQuiet, RolledBackIsQuiet,
        Words, Raised, Ended, SameCommand
  <2>5. Types'
    BY <1>1, <1>5, <2>1 DEF Raised, Ended, SameCommand
  <2> QED  BY <1>1, <2>2, <2>3, <2>4, <2>5, <2>6, <2>7
<1>6. CASE RemoveRaises /\ UNCHANGED <<enabled, armed>>
  <2>1. Raised /\ CommandTypes'
    BY <1>1, <1>6, RemoveRaisesRaises
  <2>2. SystemdHolds'
    BY <1>1, <1>6, <2>1 DEF SystemdHolds, Raised, Ended, SameCommand
  <2>3. Commanded'
    BY <1>1, <1>6, <2>1 DEF Words, Raised, Ended, SameCommand
  <2>6. Registered'
    BY <1>1, <1>6, <2>1 DEF Words, Raised, Ended, SameCommand
  <2>7. OnItsPlatform'
    BY <1>1, <1>6, <2>1 DEF Raised, Ended, SameCommand
  <2>4. Removed' /\ Told'
    BY <1>1, <1>6, <2>1
    DEF Removed, Told, EnabledIsTrue, DisabledIsQuiet, RolledBackIsQuiet,
        Words, Raised, Ended, SameCommand
  <2>5. Types'
    BY <1>1, <1>6, <2>1 DEF Raised, Ended, SameCommand
  <2> QED  BY <1>1, <2>2, <2>3, <2>4, <2>5, <2>6, <2>7
<1>7. RemoveRaises /\ UNCHANGED armed /\ enabled' \in {enabled, FALSE} =>
        (enabled' = FALSE) \/ UNCHANGED enabled
  OBVIOUS
<1> QED  BY <1>2, <1>3, <1>4, <1>5, <1>6, <1>7 DEF DisableTimer

LEMMA UnlinkServiceKeeps == IInv /\ UnlinkService /\ UNCHANGED platform => IInv'
<1> SUFFICES ASSUME IInv, UnlinkService, UNCHANGED platform PROVE IInv'
  OBVIOUS
<1> USE MarkersAssumption
    DEF UnlinkService, IInv, Types, CommandTypes, Commanded, OnItsPlatform, Registered, Quiet,
        Points, InstallPoints, RemovePoints, SystemdPoints, LaunchdPoints, WindowsPoints
<1>1. /\ platform = "systemd" /\ command.at = "unlink_service" /\ CommandTypes
      /\ command.op \in {"enable", "disable"} /\ ~command.remove_error /\ told = None
  BY DEF At, Words
<1>2. CASE units' = [units EXCEPT !.service = None] /\ Goto("unlink_timer")
  <2>1. Moved("unlink_timer") /\ CommandTypes'
    BY <1>1, <1>2, GotoMoves
  <2>2. units'.service = None /\ units'.timer = units.timer /\ units' \in UnitFiles
    BY <1>1, <1>2 DEF UnitFiles, UnitsOf, NoUnits, Schedule, SystemdHolds
  <2> QED
    BY <1>1, <1>2, <2>1, <2>2
    DEF SystemdHolds, Removed, Told, EnabledIsTrue, DisabledIsQuiet, RolledBackIsQuiet,
        Words, Moved, SameCommand
<1>3. CASE RemoveRaises /\ UNCHANGED units
  <2>1. Raised /\ CommandTypes'
    BY <1>1, <1>3, RemoveRaisesRaises
  <2> QED
    BY <1>1, <1>3, <2>1
    DEF SystemdHolds, Removed, Told, EnabledIsTrue, DisabledIsQuiet, RolledBackIsQuiet,
        Words, Raised, Ended, SameCommand
<1> QED  BY <1>2, <1>3

LEMMA UnlinkTimerKeeps == IInv /\ UnlinkTimer /\ UNCHANGED platform => IInv'
<1> SUFFICES ASSUME IInv, UnlinkTimer, UNCHANGED platform PROVE IInv'
  OBVIOUS
<1> USE MarkersAssumption
    DEF UnlinkTimer, IInv, Types, CommandTypes, Commanded, OnItsPlatform, Registered, Quiet,
        Points, InstallPoints, RemovePoints, SystemdPoints, LaunchdPoints, WindowsPoints
<1>1. /\ platform = "systemd" /\ command.at = "unlink_timer" /\ CommandTypes
      /\ command.op \in {"enable", "disable"} /\ ~command.remove_error /\ told = None
  BY DEF At, Words
<1>2. CASE units' = [units EXCEPT !.timer = None] /\ Goto("reload_removed")
  <2>1. Moved("reload_removed") /\ CommandTypes'
    BY <1>1, <1>2, GotoMoves
  <2>2. units'.timer = None /\ units'.service = units.service /\ units' \in UnitFiles
    BY <1>1, <1>2 DEF UnitFiles, UnitsOf, NoUnits, Schedule, SystemdHolds
  <2> QED
    BY <1>1, <1>2, <2>1, <2>2
    DEF SystemdHolds, Removed, Told, EnabledIsTrue, DisabledIsQuiet, RolledBackIsQuiet,
        Words, Moved, SameCommand
<1>3. CASE RemoveRaises /\ UNCHANGED units
  <2>1. Raised /\ CommandTypes'
    BY <1>1, <1>3, RemoveRaisesRaises
  <2> QED
    BY <1>1, <1>3, <2>1
    DEF SystemdHolds, Removed, Told, EnabledIsTrue, DisabledIsQuiet, RolledBackIsQuiet,
        Words, Raised, Ended, SameCommand
<1> QED  BY <1>2, <1>3

LEMMA ReloadRemovedKeeps == IInv /\ ReloadRemoved /\ UNCHANGED platform => IInv'
<1> SUFFICES ASSUME IInv, ReloadRemoved, UNCHANGED platform PROVE IInv'
  OBVIOUS
<1> USE MarkersAssumption
    DEF ReloadRemoved, IInv, Types, CommandTypes, Commanded, OnItsPlatform, Registered, Quiet,
        Points, InstallPoints, RemovePoints, SystemdPoints, LaunchdPoints, WindowsPoints
<1>1. /\ platform = "systemd" /\ command.at = "reload_removed" /\ CommandTypes
      /\ command.op \in {"enable", "disable"} /\ ~command.remove_error /\ told = None
  BY DEF At, Words
<1>2. CASE DaemonReload /\ Goto("delete")
  <2>1. Moved("delete") /\ CommandTypes'
    BY <1>1, <1>2, GotoMoves
  <2>2. units = NoUnits
    BY <1>1, <1>2 DEF UnitFiles, UnitsOf, NoUnits, Schedule, SystemdHolds
  <2> QED
    BY <1>1, <1>2, <2>1, <2>2
    DEF SystemdHolds, Removed, Told, EnabledIsTrue, DisabledIsQuiet, RolledBackIsQuiet,
        Words, Moved, SameCommand, DaemonReload
<1>3. CASE RemoveRaises /\ (DaemonReload \/ UNCHANGED armed)
  <2>1. Raised /\ CommandTypes'
    BY <1>1, <1>3, RemoveRaisesRaises
  <2> QED
    BY <1>1, <1>3, <2>1
    DEF SystemdHolds, Removed, Told, EnabledIsTrue, DisabledIsQuiet, RolledBackIsQuiet,
        Words, Raised, Ended, SameCommand, DaemonReload
<1> QED  BY <1>2, <1>3

LEMMA BootoutOldKeeps == IInv /\ BootoutOld /\ UNCHANGED platform => IInv'
<1> SUFFICES ASSUME IInv, BootoutOld, UNCHANGED platform PROVE IInv'
  OBVIOUS
<1> USE MarkersAssumption
    DEF BootoutOld, IInv, Types, CommandTypes, Commanded, OnItsPlatform, Registered, Quiet,
        Points, InstallPoints, RemovePoints, SystemdPoints, LaunchdPoints, WindowsPoints
<1>1. /\ platform = "launchd" /\ command.at = "bootout_old" /\ CommandTypes
      /\ command.op = "enable" /\ command.candidate \in Schedule /\ told = None
  BY DEF At, Words
<1>2. CASE armed' = None /\ Goto("write_plist")
  <2>1. Moved("write_plist") /\ CommandTypes'
    BY <1>1, <1>2, GotoMoves
  <2> QED
    BY <1>1, <1>2, <2>1
    DEF LaunchdHolds, Removed, Told, EnabledIsTrue, DisabledIsQuiet, RolledBackIsQuiet,
        Words, Moved, SameCommand
<1>3. CASE Rollback /\ (armed' = None \/ UNCHANGED armed)
  <2>1. Moved("bootout") /\ CommandTypes'
    BY <1>1, <1>3, RollbackMoves
  <2> QED
    BY ZenonT(40), <1>1, <1>3, <2>1
    DEF LaunchdHolds, Removed, Told, EnabledIsTrue, DisabledIsQuiet, RolledBackIsQuiet,
        Words, Moved, SameCommand
<1> QED  BY <1>2, <1>3

LEMMA WritePlistKeeps == IInv /\ WritePlist /\ UNCHANGED platform => IInv'
<1> SUFFICES ASSUME IInv, WritePlist, UNCHANGED platform PROVE IInv'
  OBVIOUS
<1> USE MarkersAssumption
    DEF WritePlist, IInv, Types, CommandTypes, Commanded, OnItsPlatform, Registered, Quiet,
        Points, InstallPoints, RemovePoints, SystemdPoints, LaunchdPoints, WindowsPoints
<1>1. /\ platform = "launchd" /\ command.at = "write_plist" /\ CommandTypes
      /\ command.op = "enable" /\ command.candidate \in Schedule /\ told = None
  BY DEF At, Words
<1>2. CASE units' = UnitsOf(command.candidate) /\ enabled' = TRUE /\ Goto("bootstrap")
  <2>1. Moved("bootstrap") /\ CommandTypes'
    BY <1>1, <1>2, GotoMoves
  <2>2. units' \in UnitFiles /\ units' # NoUnits
    BY <1>1, <1>2 DEF UnitFiles, UnitsOf, NoUnits, Schedule, LaunchdHolds
  <2> QED
    BY <1>1, <1>2, <2>1, <2>2
    DEF LaunchdHolds, Removed, Told, EnabledIsTrue, DisabledIsQuiet, RolledBackIsQuiet,
        Words, Moved, SameCommand
<1>3. CASE Rollback /\ UNCHANGED <<units, enabled>>
  <2>1. Moved("bootout") /\ CommandTypes'
    BY <1>1, <1>3, RollbackMoves
  <2> QED
    BY <1>1, <1>3, <2>1
    DEF LaunchdHolds, Removed, Told, EnabledIsTrue, DisabledIsQuiet, RolledBackIsQuiet,
        Words, Moved, SameCommand
<1> QED  BY <1>2, <1>3

LEMMA BootstrapKeeps == IInv /\ Bootstrap /\ UNCHANGED platform => IInv'
<1> SUFFICES ASSUME IInv, Bootstrap, UNCHANGED platform PROVE IInv'
  OBVIOUS
<1> USE MarkersAssumption
    DEF Bootstrap, IInv, Types, CommandTypes, Commanded, OnItsPlatform, Registered, Quiet,
        Points, InstallPoints, RemovePoints, SystemdPoints, LaunchdPoints, WindowsPoints
<1>1. /\ platform = "launchd" /\ command.at = "bootstrap" /\ CommandTypes
      /\ command.op = "enable" /\ command.candidate \in Schedule /\ told = None
  BY DEF At, Words
<1>2. CASE armed' = units /\ Goto("verify")
  <2>1. Moved("verify") /\ CommandTypes'
    BY <1>1, <1>2, GotoMoves
  <2> QED
    BY <1>1, <1>2, <2>1
    DEF LaunchdHolds, Removed, Told, EnabledIsTrue, DisabledIsQuiet, RolledBackIsQuiet,
        Words, Moved, SameCommand
<1>3. CASE Rollback /\ (armed' = units \/ UNCHANGED armed)
  <2>1. Moved("bootout") /\ CommandTypes'
    BY <1>1, <1>3, RollbackMoves
  <2> QED
    BY ZenonT(40), <1>1, <1>3, <2>1
    DEF LaunchdHolds, Removed, Told, EnabledIsTrue, DisabledIsQuiet, RolledBackIsQuiet,
        Words, Moved, SameCommand
<1> QED  BY <1>2, <1>3

LEMMA BootoutKeeps == IInv /\ Bootout /\ UNCHANGED platform => IInv'
<1> SUFFICES ASSUME IInv, Bootout, UNCHANGED platform PROVE IInv'
  OBVIOUS
<1> USE MarkersAssumption
    DEF Bootout, IInv, Types, CommandTypes, Commanded, OnItsPlatform, Registered, Quiet,
        Points, InstallPoints, RemovePoints, SystemdPoints, LaunchdPoints, WindowsPoints
<1>1. /\ platform = "launchd" /\ command.at = "bootout" /\ CommandTypes
      /\ command.op \in {"enable", "disable"} /\ ~command.remove_error /\ told = None
  BY DEF At, Words
<1>2. CASE armed' = None /\ Goto("unlink_plist")
  <2>1. Moved("unlink_plist") /\ CommandTypes'
    BY <1>1, <1>2, GotoMoves
  <2> QED
    BY <1>1, <1>2, <2>1
    DEF LaunchdHolds, Removed, Told, EnabledIsTrue, DisabledIsQuiet, RolledBackIsQuiet,
        Words, Moved, SameCommand
<1>3. CASE RemoveRaises /\ (armed' = None \/ UNCHANGED armed)
  <2>1. Raised /\ CommandTypes'
    BY <1>1, <1>3, RemoveRaisesRaises
  <2> QED
    BY ZenonT(40), <1>1, <1>3, <2>1
    DEF LaunchdHolds, Removed, Told, EnabledIsTrue, DisabledIsQuiet, RolledBackIsQuiet,
        Words, Raised, Ended, SameCommand
<1> QED  BY <1>2, <1>3

LEMMA UnlinkPlistKeeps == IInv /\ UnlinkPlist /\ UNCHANGED platform => IInv'
<1> SUFFICES ASSUME IInv, UnlinkPlist, UNCHANGED platform PROVE IInv'
  OBVIOUS
<1> USE MarkersAssumption
    DEF UnlinkPlist, IInv, Types, CommandTypes, Commanded, OnItsPlatform, Registered, Quiet,
        Points, InstallPoints, RemovePoints, SystemdPoints, LaunchdPoints, WindowsPoints
<1>1. /\ platform = "launchd" /\ command.at = "unlink_plist" /\ CommandTypes
      /\ command.op \in {"enable", "disable"} /\ ~command.remove_error /\ told = None
  BY DEF At, Words
<1>2. CASE units' = NoUnits /\ enabled' = FALSE /\ Goto("delete")
  <2>1. Moved("delete") /\ CommandTypes'
    BY <1>1, <1>2, GotoMoves
  <2>2. NoUnits \in UnitFiles
    BY <1>1, <1>2 DEF UnitFiles, UnitsOf, NoUnits, Schedule, LaunchdHolds
  <2> QED
    BY <1>1, <1>2, <2>1, <2>2
    DEF LaunchdHolds, Removed, Told, EnabledIsTrue, DisabledIsQuiet, RolledBackIsQuiet,
        Words, Moved, SameCommand
<1>3. CASE RemoveRaises /\ UNCHANGED <<units, enabled>>
  <2>1. Raised /\ CommandTypes'
    BY <1>1, <1>3, RemoveRaisesRaises
  <2> QED
    BY <1>1, <1>3, <2>1
    DEF LaunchdHolds, Removed, Told, EnabledIsTrue, DisabledIsQuiet, RolledBackIsQuiet,
        Words, Raised, Ended, SameCommand
<1> QED  BY <1>2, <1>3

LEMMA CreateTaskKeeps == IInv /\ CreateTask /\ UNCHANGED platform => IInv'
<1> SUFFICES ASSUME IInv, CreateTask, UNCHANGED platform PROVE IInv'
  OBVIOUS
<1> USE MarkersAssumption
    DEF CreateTask, IInv, Types, CommandTypes, Commanded, OnItsPlatform, Registered, Quiet,
        Points, InstallPoints, RemovePoints, SystemdPoints, LaunchdPoints, WindowsPoints
<1>1. /\ platform = "windows" /\ command.at = "create_task" /\ CommandTypes
      /\ command.op = "enable" /\ command.candidate \in Schedule /\ told = None
  BY DEF At, Words
<1>2. CASE units' = UnitsOf(command.candidate) /\ armed' = units' /\ enabled' = TRUE /\ Goto("verify")
  <2>1. Moved("verify") /\ CommandTypes'
    BY <1>1, <1>2, GotoMoves
  <2>2. units' \in UnitFiles /\ units'.timer \in Times
    BY <1>1, <1>2 DEF UnitFiles, UnitsOf, NoUnits, Schedule, WindowsHolds
  <2> QED
    BY <1>1, <1>2, <2>1, <2>2
    DEF WindowsHolds, Removed, Told, EnabledIsTrue, DisabledIsQuiet, RolledBackIsQuiet,
        Words, Moved, SameCommand
<1>3. CASE Rollback /\ units' = UnitsOf(command.candidate) /\ armed' = units' /\ enabled' = TRUE
  <2>1. Moved("delete_task") /\ CommandTypes'
    BY <1>1, <1>3, RollbackMoves
  <2>2. units' \in UnitFiles /\ units'.timer \in Times
    BY <1>1, <1>3 DEF UnitFiles, UnitsOf, NoUnits, Schedule, WindowsHolds
  <2> QED
    BY <1>1, <1>3, <2>1, <2>2
    DEF WindowsHolds, Removed, Told, EnabledIsTrue, DisabledIsQuiet, RolledBackIsQuiet,
        Words, Moved, SameCommand
<1>4. CASE Rollback /\ UNCHANGED native
  <2>1. Moved("delete_task") /\ CommandTypes'
    BY <1>1, <1>4, RollbackMoves
  <2> QED
    BY <1>1, <1>4, <2>1
    DEF WindowsHolds, Removed, Told, EnabledIsTrue, DisabledIsQuiet, RolledBackIsQuiet,
        Words, Moved, SameCommand, native
<1> QED  BY <1>2, <1>3, <1>4

LEMMA DeleteTaskKeeps == IInv /\ DeleteTask /\ UNCHANGED platform => IInv'
<1> SUFFICES ASSUME IInv, DeleteTask, UNCHANGED platform PROVE IInv'
  OBVIOUS
<1> USE MarkersAssumption
    DEF DeleteTask, IInv, Types, CommandTypes, Commanded, OnItsPlatform, Registered, Quiet,
        Points, InstallPoints, RemovePoints, SystemdPoints, LaunchdPoints, WindowsPoints
<1>1. /\ platform = "windows" /\ command.at = "delete_task" /\ CommandTypes
      /\ command.op \in {"enable", "disable"} /\ ~command.remove_error /\ told = None
  BY DEF At, Words
<1>2. CASE units' = NoUnits /\ armed' = None /\ enabled' = FALSE /\ Goto("delete")
  <2>1. Moved("delete") /\ CommandTypes'
    BY <1>1, <1>2, GotoMoves
  <2>2. NoUnits \in UnitFiles
    BY <1>1, <1>2 DEF UnitFiles, UnitsOf, NoUnits, Schedule, WindowsHolds
  <2> QED
    BY <1>1, <1>2, <2>1, <2>2
    DEF WindowsHolds, Removed, Told, EnabledIsTrue, DisabledIsQuiet, RolledBackIsQuiet,
        Words, Moved, SameCommand
<1>3. CASE units' = NoUnits /\ armed' = None /\ enabled' = FALSE /\ RemoveRaises
  <2>1. Raised /\ CommandTypes'
    BY <1>1, <1>3, RemoveRaisesRaises
  <2>2. NoUnits \in UnitFiles
    BY <1>1, <1>3 DEF UnitFiles, UnitsOf, NoUnits, Schedule, WindowsHolds
  <2> QED
    BY <1>1, <1>3, <2>1, <2>2
    DEF WindowsHolds, Removed, Told, EnabledIsTrue, DisabledIsQuiet, RolledBackIsQuiet,
        Words, Raised, Ended, SameCommand
<1>4. CASE RemoveRaises /\ UNCHANGED native
  <2>1. Raised /\ CommandTypes'
    BY <1>1, <1>4, RemoveRaisesRaises
  <2> QED
    BY <1>1, <1>4, <2>1
    DEF WindowsHolds, Removed, Told, EnabledIsTrue, DisabledIsQuiet, RolledBackIsQuiet,
        Words, Raised, Ended, SameCommand, native
<1> QED  BY <1>2, <1>3, <1>4

-----------------------------------------------------------------------------

LEMMA InitHolds == Init => IInv
<1> SUFFICES ASSUME Init PROVE IInv
  OBVIOUS
<1> USE PlatformsAssumption, MarkersAssumption DEF Init, NoCommand, NoUnits
<1>1. Types
  BY DEF Types, UnitFiles, Points
<1>2. Commanded /\ OnItsPlatform /\ Registered
  BY DEF Commanded, OnItsPlatform, Registered, Words, InstallPoints, SystemdPoints,
         LaunchdPoints, WindowsPoints
<1>3. SystemdHolds /\ LaunchdHolds /\ WindowsHolds
  BY DEF SystemdHolds, LaunchdHolds, WindowsHolds, Quiet
<1>4. Removed /\ Told
  BY DEF Removed, Told, EnabledIsTrue, DisabledIsQuiet, RolledBackIsQuiet, Words
<1> QED  BY <1>1, <1>2, <1>3, <1>4 DEF IInv

LEMMA StutterKeeps == IInv /\ UNCHANGED vars => IInv'
<1> SUFFICES ASSUME IInv, UNCHANGED vars PROVE IInv'
  OBVIOUS
<1>1. UNCHANGED <<platform, registration, units, enabled, armed, command, told, unsettled>>
  BY DEF vars, native
<1>2. Types' /\ Commanded' /\ OnItsPlatform' /\ Registered'
  BY <1>1 DEF IInv, Types, Commanded, OnItsPlatform, Registered
<1>3. /\ (platform = "systemd" => SystemdHolds)'
      /\ (platform = "launchd" => LaunchdHolds)'
      /\ (platform = "windows" => WindowsHolds)'
  BY <1>1 DEF IInv, SystemdHolds, LaunchdHolds, WindowsHolds, Quiet
<1>4. Removed' /\ Told'
  BY <1>1 DEF IInv, Removed, Quiet, Told, EnabledIsTrue, DisabledIsQuiet, RolledBackIsQuiet,
               DisabledByHand, Valid
<1> QED  BY <1>2, <1>3, <1>4 DEF IInv

LEMMA NextKeeps == IInv /\ Next => IInv'
<1> SUFFICES ASSUME IInv, Next PROVE IInv'
  OBVIOUS
<1>1. UNCHANGED platform
  BY DEF Next
<1>2. ASSUME NEW schedule \in Schedule, Enable(schedule) PROVE IInv'
  BY <1>1, <1>2, EnableKeeps
<1> QED
  BY <1>1, <1>2, WriteServiceKeeps, WriteTimerKeeps, ReloadKeeps, EnableTimerKeeps, DisableTimerKeeps,
     UnlinkServiceKeeps, UnlinkTimerKeeps, ReloadRemovedKeeps, BootoutOldKeeps,
     WritePlistKeeps, BootstrapKeeps, BootoutKeeps, UnlinkPlistKeeps, CreateTaskKeeps,
     DeleteTaskKeeps, StatusKeeps, DisableKeeps, CompareKeeps, SaveKeeps, VerifyKeeps,
     DeleteKeeps, InterruptKeeps, UserStopsTimerKeeps, UserEditsTaskKeeps, RebootKeeps,
     DamageRegistrationKeeps
  DEF Next

(* The inductive invariant: types, where a command may be on its platform,  *)
(* and for each platform why what triggers is what the files say.           *)
THEOREM Invariant == Spec => []IInv
BY InitHolds, NextKeeps, StutterKeeps, PTL DEF Spec

(* ENABLED, from enable or from status, is only said when the registered    *)
(* definition is the one that triggers and starts again after a reboot,     *)
(* with the exceptions that EnabledIsTrue names.                            *)
THEOREM EnabledHolds == Spec => []EnabledIsTrue
<1>1. IInv => EnabledIsTrue
  BY DEF IInv, Told
<1> QED  BY <1>1, Invariant, PTL

(* DISABLED, from disable or from status, is only said when nothing is left *)
(* that could start a monitor.                                              *)
THEOREM DisabledHolds == Spec => []DisabledIsQuiet
<1>1. IInv => DisabledIsQuiet
  BY DEF IInv, Told
<1> QED  BY <1>1, Invariant, PTL

(* An enable that failed without a warning left nothing armed.              *)
THEOREM RolledBackHolds == Spec => []RolledBackIsQuiet
<1>1. IInv => RolledBackIsQuiet
  BY DEF IInv, Told
<1> QED  BY <1>1, Invariant, PTL
=============================================================================
