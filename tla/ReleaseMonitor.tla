---------------------------- MODULE ReleaseMonitor ----------------------------
(***************************************************************************)
(* `qualock monitor': execute_monitor (release_monitor/commands.py), its   *)
(* per-user state file (release_monitor/state.py), and the parts of        *)
(* execute_check and execute_baseline (commands.py, baseline/io.py) that   *)
(* read and write .qualock/baseline.lock under it.                         *)
(*                                                                         *)
(* Monitors are processes: the one the native scheduler starts every day   *)
(* and those the user starts.  Nothing serialises them with each other or  *)
(* with `qualock baseline', so each step that reads or writes a file, or   *)
(* waits for the network or for a qualification, is an action.             *)
(*                                                                         *)
(* A lock is the version it pins and a number that stands for the rest of  *)
(* it, created_at included: a baseline written again is another lock.      *)
(* Running the canaries is the module Qualification; here a check returns  *)
(* any verdict, or raises.                                                 *)
(***************************************************************************)
EXTENDS Naturals, QualificationPolicy

CONSTANTS Monitors,   \* processes that run execute_monitor
          Scheduled,  \* those that the scheduler starts, not the user
          MaxVersion, \* releases are 1..MaxVersion, in version order
          MaxLocks,   \* bound on the baselines written, the first included
          CheckVerdicts, \* the verdicts a check may return
          Torn,       \* a baseline.lock that is truncated, or half written
          Corrupt,    \* a state file that does not parse
          None

ASSUME MonitorAssumption ==
  /\ MaxVersion \in Nat \ {0} /\ MaxLocks \in Nat \ {0}
  /\ Scheduled \subseteq Monitors /\ CheckVerdicts \subseteq Verdicts

Version == 1..MaxVersion
Lock == [version : Version, id : 1..MaxLocks]

ASSUME MarkersAssumption == None \notin Version /\ Torn \notin Lock

TerminalVerdict == Verdicts \ {"INCOMPLETE"}

(* What a completed check established: which candidate did how well        *)
(* against which baseline.  A MonitorState names it by qualification_id.   *)
Qualification == [baseline : Lock, candidate : Version, verdict : Verdicts]

MonitorState == [baseline : Lock, candidate : Version, verdict : TerminalVerdict,
                 qualification : Qualification]

VARIABLES
  lock,         \* .qualock/baseline.lock: a Lock or Torn
  written,      \* how many baselines were written
  suite_fresh,  \* suite and configuration have the lock's fingerprints
  latest,       \* npm's latest dist-tag
  state_file,   \* the monitor's state: a MonitorState, None or Corrupt
  frame         \* what each monitor holds: where it is (at), its --force, the
                \* lock its preflight read (context), the latest version
                \* (candidate), the release it found recorded for that lock,
                \* the lock its check read (measured), and the verdict

project == <<lock, written, suite_fresh, latest>>
vars == <<project, state_file, frame>>

Idle == [at |-> "idle", force |-> FALSE, context |-> None, candidate |-> None,
         recorded |-> None, measured |-> None, verdict |-> None]

Init ==
  /\ lock \in [version : Version, id : {1}] /\ written = 1
  /\ suite_fresh = TRUE
  /\ latest \in Version
  /\ state_file = None
  /\ frame = [m \in Monitors |-> Idle]

At(m, point) == frame[m].at = point

(* execute_monitor returns its outcome, or raises.                         *)
Done(m) == frame' = [frame EXCEPT ![m] = Idle]

-----------------------------------------------------------------------------
(* monitor_preflight: read the lock, require a fresh suite.                *)
Preflight(m) ==
  /\ At(m, "idle")
  /\ \/ /\ lock # Torn /\ suite_fresh
        /\ \E force \in BOOLEAN :
             frame' = [frame EXCEPT ![m] =
               [Idle EXCEPT !.at = "discover", !.force = force, !.context = lock]]
     \/ (lock = Torn \/ ~suite_fresh) /\ Done(m)
  /\ UNCHANGED <<project, state_file>>

(* source.latest_version(), which may raise; without a newer release the   *)
(* outcome is NO_NEW_RELEASE.                                              *)
Discover(m) ==
  /\ At(m, "discover")
  /\ \/ /\ latest > frame[m].context.version
        /\ frame' = [frame EXCEPT ![m].at = "load", ![m].candidate = latest]
     \/ Done(m)
  /\ UNCHANGED <<project, state_file>>

(* Defect: state recorded under another baseline is not ignored.           *)
MatchingAnyBaseline(m, loaded) == loaded \notin {None, Corrupt}

(* The state counts only under the very lock that preflight read.          *)
Matching(m, loaded) ==
  loaded \notin {None, Corrupt} /\ loaded.baseline = frame[m].context

AlreadyQualified(m, loaded) ==
  /\ Matching(m, loaded)
  /\ loaded.candidate = frame[m].candidate /\ ~frame[m].force

(* Defect: --force also qualifies a release older than the recorded one.   *)
IsDowngradeUnlessForced(m, loaded) ==
  /\ Matching(m, loaded) /\ ~frame[m].force
  /\ frame[m].candidate < loaded.candidate

IsDowngrade(m, loaded) ==
  Matching(m, loaded) /\ frame[m].candidate < loaded.candidate

(* store.load and the decision it takes: ALREADY_QUALIFIED, NO_DOWNGRADE,  *)
(* or a check.  A file that is missing or does not parse is no state.      *)
LoadState(m) ==
  /\ At(m, "load")
  /\ \/ (AlreadyQualified(m, state_file) \/ IsDowngrade(m, state_file)) /\ Done(m)
     \/ /\ ~AlreadyQualified(m, state_file) /\ ~IsDowngrade(m, state_file)
        /\ frame' = [frame EXCEPT ![m] =
             [@ EXCEPT !.at = "check", !.force = FALSE,
                       !.recorded = IF Matching(m, state_file)
                                    THEN state_file.candidate ELSE None]]
  /\ UNCHANGED <<project, state_file>>

(* execute_check reads the lock again, and requires a fresh suite again.   *)
StartCheck(m) ==
  /\ At(m, "check")
  /\ \/ /\ lock # Torn /\ suite_fresh
        /\ frame' = [frame EXCEPT ![m].at = "checking", ![m].measured = lock]
     \/ (lock = Torn \/ ~suite_fresh) /\ Done(m)
  /\ UNCHANGED <<project, state_file>>

Terminal(verdict) == verdict \in TerminalVerdict

(* The check returns; INCOMPLETE is never recorded.                        *)
FinishCheck(m, verdict) ==
  /\ At(m, "checking")
  /\ \/ /\ Terminal(verdict)
        /\ frame' = [frame EXCEPT ![m].at = "save", ![m].verdict = verdict]
     \/ ~Terminal(verdict) /\ Done(m)
  /\ UNCHANGED <<project, state_file>>

CheckRaises(m) ==
  /\ At(m, "checking")
  /\ Done(m)
  /\ UNCHANGED <<project, state_file>>

NewState(m) ==
  [baseline |-> frame[m].context, candidate |-> frame[m].candidate,
   verdict |-> frame[m].verdict,
   qualification |-> [baseline |-> frame[m].measured, candidate |-> frame[m].candidate,
                      verdict |-> frame[m].verdict]]

(* store.save replaces the file in one step.                               *)
SaveState(m) ==
  /\ At(m, "save")
  /\ state_file' = NewState(m)
  /\ Done(m)
  /\ UNCHANGED project

(* A failure to save only adds a warning to the outcome.                   *)
SaveFails(m) ==
  /\ At(m, "save")
  /\ Done(m)
  /\ UNCHANGED <<project, state_file>>

-----------------------------------------------------------------------------
(* Other processes.                                                        *)

(* write_baseline_lock opens the file, which truncates it, then writes; a  *)
(* process that dies in between leaves it to the next `qualock baseline'.  *)
TruncateLock ==
  /\ lock # Torn /\ written < MaxLocks
  /\ lock' = Torn
  /\ UNCHANGED <<written, suite_fresh, latest, state_file, frame>>

(* The fingerprints are of the suite that was loaded when the baseline     *)
(* started, which may have been edited since.                              *)
WriteLock ==
  /\ lock = Torn
  /\ written' = written + 1
  /\ \E v \in Version : lock' = [version |-> v, id |-> written + 1]
  /\ suite_fresh' \in BOOLEAN
  /\ UNCHANGED <<latest, state_file, frame>>

EditSuite ==
  /\ suite_fresh' = ~suite_fresh
  /\ UNCHANGED <<lock, written, latest, state_file, frame>>

(* The latest tag moves, also back to an older release.                    *)
Publish ==
  /\ latest' \in Version \ {latest}
  /\ UNCHANGED <<lock, written, suite_fresh, state_file, frame>>

(* The state file is outside the repository and may be lost or damaged.    *)
LoseState ==
  /\ state_file \notin {None, Corrupt}
  /\ state_file' \in {None, Corrupt}
  /\ UNCHANGED <<project, frame>>

Returns(m) ==
  \/ Discover(m) \/ LoadState(m) \/ StartCheck(m)
  \/ \E verdict \in CheckVerdicts : FinishCheck(m, verdict)
  \/ CheckRaises(m) \/ SaveState(m) \/ SaveFails(m)

Next ==
  \/ \E m \in Monitors : Preflight(m) \/ Returns(m)
  \/ TruncateLock \/ WriteLock \/ EditSuite \/ Publish \/ LoseState

Spec == Init /\ [][Next]_vars

(* The scheduler starts its monitor every day, which goes on, since every  *)
(* wait in it has a timeout; and what may fail does not fail for ever: npm *)
(* answers, a check gets a verdict, the state can be saved.  A monitor     *)
(* that is started by hand may be stopped, or killed, at any point.        *)
FairSpec ==
  /\ Spec
  /\ \A m \in Scheduled :
       /\ WF_vars(Preflight(m)) /\ WF_vars(Returns(m))
       /\ SF_vars(Discover(m) /\ frame'[m].at # "idle")
       /\ SF_vars(\E verdict \in CheckVerdicts \cap TerminalVerdict : FinishCheck(m, verdict))
       /\ SF_vars(SaveState(m))

-----------------------------------------------------------------------------
(* Properties.                                                             *)

(* While the baseline stays the one a monitor read, a release it reports as *)
(* already qualified was qualified: the qualification that the state names  *)
(* ran this candidate against this very baseline, completed, and had this   *)
(* verdict, whatever was rewritten, lost or run in parallel in the meantime *)
(* (commands.py:82-102, 116-124).                                           *)
ReuseIsEarned ==
  [][\A m \in Monitors :
       At(m, "load") /\ AlreadyQualified(m, state_file) /\ frame[m].context = lock
       /\ frame'[m].at = "idle" =>
         state_file.qualification =
           [baseline |-> lock, candidate |-> frame[m].candidate,
            verdict |-> state_file.verdict]]_vars

(* Under one baseline the recorded release goes back to an older one only  *)
(* if another monitor recorded the newer one meanwhile: never by what one  *)
(* monitor does alone, forced or not (commands.py:103-111).                *)
RecordRegressesOnlyByOverlap ==
  [][\A m \in Monitors :
       /\ At(m, "save") /\ ~At(m, "save")' /\ state_file' # state_file
       /\ state_file \notin {None, Corrupt} /\ state_file' \notin {None, Corrupt}
       /\ state_file'.baseline = state_file.baseline
       /\ state_file'.candidate < state_file.candidate
       => frame[m].recorded # state_file.candidate]_vars

(* INCOMPLETE checks, failures and lost state cost work, never the answer: *)
(* if the project and the release stay as they are, the release, or a      *)
(* newer one, ends up recorded under the baseline.                         *)
NewRelease == lock # Torn /\ suite_fresh /\ latest > lock.version

Recorded ==
  /\ lock # Torn /\ state_file \notin {None, Corrupt}
  /\ state_file.baseline = lock /\ state_file.candidate >= latest

EventuallyQualified ==
  <>[][FALSE]_project /\ <>[]NewRelease => <>Recorded

(* A release that is not newer than the baseline is never qualified against *)
(* it, as docs/superpowers/specs/2026-09-02-release-monitor-core-design.md  *)
(* says at line 108.                                                        *)
NoDowngradeQualification ==
  \A m \in Monitors : At(m, "checking") => frame[m].candidate > frame[m].measured.version
=============================================================================
