---------------------------- MODULE ProjectWatch ----------------------------
(***************************************************************************)
(* `qualock watch' (project_watch/engine.py): one foreground session over  *)
(* a project whose files are edited all the time, and whose project.lock   *)
(* the commands of ProjectProtection write, tear and unlink meanwhile.     *)
(*                                                                         *)
(* A file is the number of its last edit, which its FileStamp tells apart; *)
(* files are stamped one after the other, so a snapshot may be of no tree  *)
(* that ever was.  An edit that keeps size and mtime is left out.  What a  *)
(* check finds (PASS, FAIL, INCOMPLETE) does not matter here, but what it  *)
(* looked at.                                                              *)
(***************************************************************************)
EXTENDS ProjectProtection

CONSTANTS Files,              \* paths that Git does not ignore
          Tracked,            \* those in its index, which it lists even when deleted
          MaxEdits,           \* bound on edits
          Checks,             \* protections of a lock
          SettlePolls,        \* settle_seconds, in polls
          MaxUnstableCycles,  \* max_unstable_cycles
          Absent,             \* a path at which there is no file
          Unlisted,           \* a path that a snapshot does not name
          Incomplete          \* what is shown when checks and edits kept overlapping

Tree == [Files -> 0..MaxEdits \cup {Absent}]

(* What was found of each path, None as long as it is still to be stamped. *)
Stamps == [Files -> 0..MaxEdits \cup {Absent, Unlisted, None}]
Snapshot == {stamps \in Stamps : \A f \in Files : stamps[f] # None}

ASSUME WatchAssumption ==
  /\ Tracked \subseteq Files
  /\ SettlePolls \in Nat \ {0} /\ MaxUnstableCycles \in Nat \ {0}
  /\ Checks \in Nat \ {0} /\ MaxEdits \in Nat
  /\ Absent \notin Nat /\ Unlisted \notin Nat /\ None \notin Nat \cup Stamps
  /\ Absent # None /\ Unlisted # None

VARIABLES
  files,  \* the working tree: the last edit of each path, or Absent
  edits,  \* the number of edits so far
  watch   \* what the watch session holds

watchVars == <<vars, files, edits, watch>>
project == <<files, edits>>

(* at: where the session is; frozen: the lock it started under; before:    *)
(* the snapshot of the cycle, before its checks; stamps: the snapshot      *)
(* being taken, None where a path is still to be stamped; verified: the    *)
(* lock the checks are of; checked: how many are done; seen: the trees     *)
(* they looked at; result: what was last shown; the rest are run_watch's   *)
(* variables, with age for now less last_change_at.  Exit codes are left   *)
(* out.                                                                    *)
NotStarted ==
  [at |-> "not started", frozen |-> None, before |-> None, stamps |-> None,
   verified |-> None, checked |-> 0, seen |-> {}, observed |-> None, pending |-> FALSE,
   age |-> 0, unstable_cycles |-> 0, result |-> None]

WatchInit ==
  /\ Init
  /\ files = [f \in Files |-> 0] /\ edits = 0
  /\ watch = NotStarted

Watching(point) == watch.at = point

Running == watch.at \notin {"not started", "ended"}

Exit ==
  /\ watch' = [NotStarted EXCEPT !.at = "ended"]
  /\ UNCHANGED <<vars, project>>

Continue(w) == watch' = w /\ UNCHANGED <<vars, project>>

-----------------------------------------------------------------------------
(* The control identity.                                                   *)

Authentic == lock \in Lock /\ key = lock.key

(* freeze_watch_control.                                                   *)
StartWatch ==
  /\ Watching("not started")
  /\ IF Authentic THEN Continue([watch EXCEPT !.at = "control", !.frozen = lock.n]) ELSE Exit

(* assert_watch_control, then on to the point.                             *)
AssertControl(w) ==
  IF Authentic /\ lock.n = watch.frozen THEN Continue(w) ELSE Exit

-----------------------------------------------------------------------------
(* capture_project_snapshot.                                               *)

(* git ls-files: what it does not list is not looked for.                  *)
Discovered ==
  [f \in Files |-> IF f \notin Tracked /\ files[f] = Absent THEN Unlisted ELSE None]

Capturing == {"before", "after", "current"}

(* lstat of one path.                                                      *)
StampFile ==
  /\ watch.at \in Capturing
  /\ \E f \in Files :
       /\ watch.stamps[f] = None
       /\ Continue([watch EXCEPT !.stamps[f] = files[f]])

Captured == \A f \in Files : watch.stamps[f] # None

(* Git times out or fails, or lstat does: ProjectWatchSnapshotError.       *)
SnapshotFails ==
  /\ watch.at \in Capturing
  /\ Exit

-----------------------------------------------------------------------------
(* run_stable_cycle.                                                       *)

AssertBefore ==
  /\ Watching("control")
  /\ AssertControl([watch EXCEPT !.at = "before", !.stamps = Discovered])

SnapshotBefore ==
  /\ Watching("before") /\ Captured
  /\ Continue([watch EXCEPT !.at = "verify", !.before = watch.stamps, !.stamps = None])

(* execute_verify reads the lock itself, whatever it is by now.            *)
ReadLock ==
  /\ Watching("verify")
  /\ IF Authentic THEN Continue([watch EXCEPT !.at = "check", !.verified = lock.n]) ELSE Exit

(* One protection after the other looks at the tree; Git's state is read   *)
(* and evidence written at the end, which may raise.                       *)
RunCheck ==
  /\ Watching("check")
  /\ \/ /\ watch.checked < Checks
        /\ Continue([watch EXCEPT !.seen = @ \cup {files}, !.checked = @ + 1])
     \/ /\ watch.checked = Checks
        /\ Exit \/ Continue([watch EXCEPT !.at = "verified"])

(* Defect: the control identity is asserted before the checks only.        *)
AssertAfterNothing ==
  /\ Watching("verified")
  /\ Continue([watch EXCEPT !.at = "after", !.stamps = Discovered])

AssertAfter ==
  /\ Watching("verified")
  /\ AssertControl([watch EXCEPT !.at = "after", !.stamps = Discovered])

Stable == watch.before = watch.stamps

AfterCycle == [watch EXCEPT !.at = "sleep", !.before = None, !.verified = None, !.checked = 0,
                 !.seen = {}, !.stamps = None, !.observed = watch.stamps]

Show == [snapshot |-> watch.stamps, lock |-> watch.verified, seen |-> watch.seen]

(* The result is authoritative, or the second unstable cycle in a row is   *)
(* reported, or the project must settle again.                             *)
ConcludeCycle ==
  /\ Watching("after") /\ Captured
  /\ CASE Stable ->
            Continue([AfterCycle EXCEPT !.result = Show,
                        !.pending = FALSE, !.age = 0, !.unstable_cycles = 0])
       [] ~Stable /\ watch.unstable_cycles + 1 >= MaxUnstableCycles ->
            Continue([AfterCycle EXCEPT !.result = Incomplete,
                        !.pending = FALSE, !.age = 0, !.unstable_cycles = 0])
       [] OTHER ->
            Continue([AfterCycle EXCEPT !.pending = TRUE, !.age = 0, !.unstable_cycles = @ + 1])

-----------------------------------------------------------------------------
(* The polling loop.                                                       *)

Poll ==
  /\ Watching("sleep")
  /\ AssertControl([watch EXCEPT !.at = "current", !.stamps = Discovered])

Later == {watch.age + 1, SettlePolls}

(* Defect: a change found by a poll is observed but not pending.           *)
CompareForgetting ==
  /\ Watching("current") /\ Captured
  /\ Continue([watch EXCEPT !.at = IF watch.pending THEN "control" ELSE "sleep",
                 !.stamps = None, !.observed = watch.stamps])

(* Time passes while it sleeps: a poll, or more.                           *)
Compare ==
  /\ Watching("current") /\ Captured
  /\ \/ /\ watch.stamps # watch.observed
        /\ Continue([watch EXCEPT !.at = "sleep", !.stamps = None,
                       !.observed = watch.stamps, !.pending = TRUE, !.age = 0])
     \/ /\ watch.stamps = watch.observed /\ ~watch.pending
        /\ Continue([watch EXCEPT !.at = "sleep", !.stamps = None])
     \/ /\ watch.stamps = watch.observed /\ watch.pending
        /\ \E age \in Later :
             Continue([watch EXCEPT !.stamps = None, !.age = age,
                         !.at = IF age < SettlePolls THEN "sleep" ELSE "control"])

(* Ctrl-C, wherever it is: the exit code is that of the last authoritative *)
(* state, which is not distinguished further here.                         *)
InterruptWatch ==
  /\ Running
  /\ Exit

WatchStep ==
  \/ AssertBefore \/ SnapshotBefore \/ ReadLock \/ RunCheck \/ AssertAfter \/ ConcludeCycle
  \/ Poll \/ Compare \/ StampFile

-----------------------------------------------------------------------------
(* The project, and all of it together.                                    *)

(* Somebody, or a protection that is running, writes or deletes a file.    *)
Edit(f) ==
  /\ edits < MaxEdits
  /\ edits' = edits + 1
  /\ \E v \in {edits + 1, Absent} : files' = [files EXCEPT ![f] = v]
  /\ UNCHANGED <<vars, watch>>

WatchNext ==
  \/ SessionNext /\ UNCHANGED <<project, watch>>
  \/ StartWatch \/ WatchStep \/ SnapshotFails \/ InterruptWatch
  \/ \E f \in Files : Edit(f)

WatchSpec == WatchInit /\ [][WatchNext]_watchVars

(* Every command the watch runs has a timeout, and sleep returns.          *)
FairWatchSpec == WatchSpec /\ WF_watchVars(WatchStep)

-----------------------------------------------------------------------------
(* Properties.                                                             *)

Result == [snapshot : Snapshot, lock : Nat, seen : SUBSET Tree]

Watch ==
  [at : {"not started", "control", "before", "verify", "check", "verified", "after",
         "sleep", "current", "ended"},
   frozen : Nat \cup {None}, before : Snapshot \cup {None}, stamps : Stamps \cup {None},
   verified : Nat \cup {None}, checked : Nat, seen : SUBSET Tree,
   observed : Snapshot \cup {None}, pending : BOOLEAN, age : Nat, unstable_cycles : Nat,
   result : Result \cup {None, Incomplete}]

(* Types, with what a cycle holds set while it lasts, and only then.       *)
TypeOK ==
  /\ ProtectionTypeOK
  /\ files \in Tree /\ edits \in 0..MaxEdits
  /\ watch \in Watch
  /\ watch.checked <= Checks /\ watch.age <= SettlePolls
  /\ watch.unstable_cycles < MaxUnstableCycles
  /\ watch.stamps # None <=> watch.at \in Capturing
  /\ watch.before # None <=> watch.at \in {"verify", "check", "verified", "after"}
  /\ watch.unstable_cycles > 0 => watch.pending
  /\ watch.frozen # None <=> Running

(* What is shown as the result of the watched project is: all protections  *)
(* of the lock the session started under, and of no other, looked at the   *)
(* same tree, the one the watch compares later ones with, although files   *)
(* are stamped one by one and locks are written at any time.  Only a path  *)
(* that was absent before and after may have been there in between         *)
(* (engine.py:51-71).                                                      *)
ShownIsTrue ==
  watch.result \notin {None, Incomplete} =>
    /\ watch.result.lock = watch.frozen
    /\ \A tree \in watch.result.seen, f \in Files :
         watch.result.snapshot[f] \notin {Absent, Unlisted} => tree[f] = watch.result.snapshot[f]

Current ==
  /\ watch.result \notin {None, Incomplete}
  /\ \A f \in Files :
       \/ watch.result.snapshot[f] = files[f]
       \/ files[f] = Absent /\ watch.result.snapshot[f] = Unlisted

(* Once nobody edits any more, the result of the final tree is shown, or   *)
(* that checks and edits kept overlapping, or the session has ended: no    *)
(* interleaving of edits, polls and cycles loses the last edit             *)
(* (engine.py:139-176).                                                    *)
EventuallyCurrent ==
  Running ~> [](watch.at = "ended" \/ Current \/ watch.result = Incomplete)
=============================================================================
