-------------------------- MODULE ProjectProtection --------------------------
(***************************************************************************)
(* Protecting a project: `qualock protect', `setup' and `start' in several *)
(* terminals of one user, over one .qualock directory and one signing key  *)
(* (project_protection/, project_setup/commands.py, project_start/).       *)
(*                                                                         *)
(* Nothing of this is locked and no file is replaced by a rename: a file   *)
(* is truncated when it is opened for writing and has its content when it  *)
(* is closed, so another process may read it in between, write to it at    *)
(* the same time, or unlink it.                                            *)
(*                                                                         *)
(* Definitions are told apart by where they come from: written by hand, or *)
(* by setup from its packs.  Commands, levels and rendering are left out,  *)
(* and a project of which setup is not READY does not get past its plan.   *)
(***************************************************************************)
EXTENDS Naturals

CONSTANTS Sessions,     \* terminals that protect, set up or start
          MaxCommands,  \* bound on their commands
          Torn,         \* a file that was truncated and not, or not only, written by one
          None

Definitions == {"manual", "pack"}

VARIABLES
  config,   \* config.yaml's protections: None if there is no file, "empty" if none
  key,      \* the signing key: None, Torn, or the session that generated it
  lock,     \* project.lock: None, Torn, or who wrote what under which key
  written,  \* the number of locks written so far
  frame,    \* what the command of each session holds
  begun     \* the number of commands begun so far

disk == <<config, key, lock, written>>
vars == <<disk, frame, begun>>

(* n tells locks apart, as the timestamps and durations in them do.        *)
Lock == [n : 1..MaxCommands, definitions : Definitions, key : Sessions]

ASSUME ProtectionAssumption ==
  /\ MaxCommands \in Nat
  /\ None \notin Sessions /\ Torn \notin Sessions /\ Torn # None
  /\ None \notin Definitions /\ {None, Torn} \cap Lock = {}

(* setup: inside apply_setup_plan; start: run by `qualock start', which    *)
(* planned for these definitions and saw that many locks written.          *)
Idle == [at |-> "idle", setup |-> FALSE, start |-> FALSE, planned |-> None,
         seen |-> 0, definitions |-> None, key |-> None]

Init ==
  /\ config \in {None, "empty", "manual"}
  /\ key = None /\ lock = None
  /\ written = 0 /\ begun = 0
  /\ frame = [s \in Sessions |-> Idle]

At(s, point) == frame[s].at = point

Goto(s, point) == frame' = [frame EXCEPT ![s].at = point]

End(s) == frame' = [frame EXCEPT ![s] = Idle]

(* What a file holds after `mine' was written to it, when it is `now': on  *)
(* top of another's text, the longer one may show behind the shorter.      *)
AfterWriting(mine, now) == IF now = Torn THEN {mine} ELSE {mine, Torn}

(* lock_path.unlink: whoever has the file open goes on writing to a file   *)
(* that has no name any more.                                              *)
UnlinkLock(s) ==
  /\ lock' = None
  /\ frame' = [r \in Sessions |->
       IF r = s THEN Idle
       ELSE IF At(r, "write") THEN [frame[r] EXCEPT !.at = "write_unlinked"]
       ELSE frame[r]]

(* An exception: inside setup's try statement the lock goes, which setup   *)
(* does not hold to be its own (commands.py:73-79).                        *)
InSetupTry(s) ==
  /\ frame[s].setup
  /\ frame[s].at \notin {"ensure", "default", "define", "defining"}

Fail(s) ==
  \/ InSetupTry(s) /\ UnlinkLock(s) /\ UNCHANGED <<config, key, written>>
  \/ ~InSetupTry(s) /\ End(s) /\ UNCHANGED disk

-----------------------------------------------------------------------------
(* Beginning a command.                                                    *)

Begin(s, f) ==
  /\ At(s, "idle") /\ begun < MaxCommands
  /\ begun' = begun + 1
  /\ frame' = [frame EXCEPT ![s] = f]
  /\ UNCHANGED disk

Protect(s) == Begin(s, [Idle EXCEPT !.at = "load"])

Setup(s) == Begin(s, [Idle EXCEPT !.at = "ensure", !.setup = TRUE])

(* prepare_start; with a lock, start is watch (ProjectWatch).              *)
Start(s) ==
  /\ lock = None /\ config # Torn
  /\ Begin(s, [Idle EXCEPT !.at = "assert", !.start = TRUE,
                 !.planned = IF config \in Definitions THEN config ELSE None])

(* Defect: the plan's own look at the lock is relied on.                   *)
AssertNothing(s) ==
  /\ At(s, "assert")
  /\ frame' = [frame EXCEPT ![s].at = "compatible", ![s].seen = written]
  /\ UNCHANGED <<disk, begun>>

(* The user was asked meanwhile: there must still be no lock ...           *)
AssertLockAbsent(s) ==
  /\ At(s, "assert")
  /\ IF lock = None
     THEN frame' = [frame EXCEPT ![s].at = "compatible", ![s].seen = written]
     ELSE End(s)
  /\ UNCHANGED <<disk, begun>>

(* ... and the configured protections must be the planned ones.            *)
AssertConfigCompatible(s) ==
  /\ At(s, "compatible")
  /\ CASE config = Torn -> End(s)
       [] frame[s].planned = None /\ config \in {None, "empty"} ->
            frame' = [frame EXCEPT ![s].at = "ensure", ![s].setup = TRUE]
       [] frame[s].planned # None /\ config = frame[s].planned -> Goto(s, "load")
       [] OTHER -> End(s)
  /\ UNCHANGED <<disk, begun>>

-----------------------------------------------------------------------------
(* apply_setup_plan, before its try statement: the configuration.          *)

EnsureProject(s) ==
  /\ At(s, "ensure")
  /\ CASE config = None -> config' = Torn /\ Goto(s, "default")
       [] config = Torn -> End(s) /\ UNCHANGED config
       [] OTHER -> Goto(s, "define") /\ UNCHANGED config
  /\ UNCHANGED <<key, lock, written, begun>>

WriteDefaultConfig(s) ==
  /\ At(s, "default")
  /\ config' \in AfterWriting("empty", config)
  /\ Goto(s, "define")
  /\ UNCHANGED <<key, lock, written, begun>>

WriteProtections(s) ==
  /\ At(s, "define")
  /\ IF config = Torn THEN End(s) /\ UNCHANGED config
     ELSE config' = Torn /\ Goto(s, "defining")
  /\ UNCHANGED <<key, lock, written, begun>>

ProtectionsWritten(s) ==
  /\ At(s, "defining")
  /\ config' \in AfterWriting("pack", config)
  /\ Goto(s, "load")
  /\ UNCHANGED <<key, lock, written, begun>>

-----------------------------------------------------------------------------
(* execute_protect.                                                        *)

LoadConfig(s) ==
  /\ At(s, "load")
  /\ \/ /\ config \in Definitions
        /\ frame' = [frame EXCEPT ![s].at = "check", ![s].definitions = config]
        /\ UNCHANGED disk
     \/ config \notin Definitions /\ Fail(s)
  /\ UNCHANGED begun

(* run_protections and read_git_state, which raises without Git.           *)
RunProtections(s) ==
  /\ At(s, "check")
  /\ \/ Goto(s, "key") /\ UNCHANGED disk
     \/ Goto(s, "report") /\ UNCHANGED disk
     \/ Fail(s)
  /\ UNCHANGED begun

(* Defect: the length of the key that was read is not checked.             *)
UseAnyKey(s) ==
  /\ key # None
  /\ frame' = [frame EXCEPT ![s].at = "baseline", ![s].key = key]
  /\ UNCHANGED disk

(* ensure_signing_key: a key that exists is loaded, or is invalid.         *)
UseKey(s) ==
  \/ key = Torn /\ Fail(s)
  \/ /\ key \notin {None, Torn}
     /\ frame' = [frame EXCEPT ![s].at = "baseline", ![s].key = key]
     /\ UNCHANGED disk

LookForKey(s) ==
  /\ At(s, "key")
  /\ \/ key = None /\ Goto(s, "create_key") /\ UNCHANGED disk
     \/ UseKey(s)
  /\ UNCHANGED begun

(* Defect: the file is opened without O_EXCL.                              *)
CreateKeyAnyway(s) ==
  /\ At(s, "create_key")
  /\ key' = Torn
  /\ Goto(s, "write_key")
  /\ UNCHANGED <<config, lock, written, begun>>

(* os.open with O_EXCL: the first to create the file has the key.          *)
CreateKey(s) ==
  /\ At(s, "create_key")
  /\ \/ /\ key = None /\ key' = Torn
        /\ Goto(s, "write_key")
        /\ UNCHANGED <<config, lock, written>>
     \/ UseKey(s)
  /\ UNCHANGED begun

WriteKey(s) ==
  /\ At(s, "write_key")
  /\ key' = s
  /\ frame' = [frame EXCEPT ![s].at = "baseline", ![s].key = s]
  /\ UNCHANGED <<config, lock, written, begun>>

(* create_project_lock reads Git again; write_project_lock opens the file. *)
CreateLock(s) ==
  /\ At(s, "baseline")
  /\ \/ lock' = Torn /\ Goto(s, "write") /\ UNCHANGED <<config, key, written>>
     \/ Fail(s)
  /\ UNCHANGED begun

LockOf(s) == [n |-> written + 1, definitions |-> frame[s].definitions, key |-> frame[s].key]

WriteLock(s) ==
  /\ frame[s].at \in {"write", "write_unlinked"}
  /\ IF At(s, "write") THEN lock' \in AfterWriting(LockOf(s), lock) ELSE UNCHANGED lock
  /\ written' = written + 1
  /\ Goto(s, "evidence")
  /\ UNCHANGED <<config, key, begun>>

(* write_project_evidence, with a lock or, from report, without one.       *)
WriteEvidence(s) ==
  /\ frame[s].at \in {"evidence", "report"}
  /\ \/ Fail(s)
     \/ At(s, "report") /\ frame[s].setup /\ UnlinkLock(s) /\ UNCHANGED <<config, key, written>>
     \/ ~(At(s, "report") /\ frame[s].setup) /\ End(s) /\ UNCHANGED disk
  /\ UNCHANGED begun

(* Ctrl-C, which no handler here catches, or the terminal is closed.       *)
Interrupt(s) ==
  /\ ~At(s, "idle")
  /\ End(s)
  /\ UNCHANGED <<disk, begun>>

Command(s) ==
  \/ AssertLockAbsent(s) \/ AssertConfigCompatible(s)
  \/ EnsureProject(s) \/ WriteDefaultConfig(s) \/ WriteProtections(s) \/ ProtectionsWritten(s)
  \/ LoadConfig(s) \/ RunProtections(s)
  \/ LookForKey(s) \/ CreateKey(s) \/ WriteKey(s)
  \/ CreateLock(s) \/ WriteLock(s) \/ WriteEvidence(s)

SessionNext ==
  \E s \in Sessions : Protect(s) \/ Setup(s) \/ Start(s) \/ Command(s) \/ Interrupt(s)

Spec == Init /\ [][SessionNext]_vars

-----------------------------------------------------------------------------
(* Properties.                                                             *)

Points == {"idle", "assert", "compatible", "ensure", "default", "define", "defining",
           "load", "check", "key", "create_key", "write_key", "baseline", "write",
           "write_unlinked", "evidence", "report"}

Key == {None, Torn} \cup Sessions

Frame ==
  [at : Points, setup : BOOLEAN, start : BOOLEAN, planned : Definitions \cup {None},
   seen : Nat, definitions : Definitions \cup {None}, key : Sessions \cup {None}]

(* A command that reached create_project_lock has a key and definitions.   *)
ProtectionTypeOK ==
  /\ config \in {None, Torn, "empty"} \cup Definitions
  /\ key \in Key
  /\ lock \in {None, Torn} \cup Lock
  /\ written \in 0..MaxCommands /\ begun \in 0..MaxCommands /\ written <= begun
  /\ frame \in [Sessions -> Frame]
  /\ \A s \in Sessions :
       /\ frame[s].seen <= written
       /\ frame[s].key # None <=> frame[s].at \in {"baseline", "write", "write_unlinked", "evidence"}

(* Every complete lock verifies under the key there is: of two commands    *)
(* that both found none, one makes it and the other uses it or fails, and  *)
(* it is never made again (signing.py:39-54).                              *)
LockVerifies == lock \in Lock => lock.key = key

(* start treats no lock as permission to make a new baseline: the lock it  *)
(* replaces or removes can only be one that was written after it had seen, *)
(* with the user's consent given, that there was none                      *)
(* (project_start/commands.py:76-95).                                      *)
StartReplacesOnlyNewer ==
  [][\A s \in Sessions :
       frame[s].start /\ lock \in Lock /\ lock' # lock /\ frame'[s] # frame[s]
         => lock.n > frame[s].seen]_vars
=============================================================================
