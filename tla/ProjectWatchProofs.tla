------------------------- MODULE ProjectWatchProofs -------------------------
(***************************************************************************)
(* Proofs about protecting a project and about watching it, for every      *)
(* number of terminals, commands, files, edits and checks: that there is   *)
(* one signing key, that start replaces no lock it had seen, and that what *)
(* a watch session shows is true of one tree and of one lock.              *)
(***************************************************************************)
EXTENDS ProjectWatch, TLAPS

-----------------------------------------------------------------------------
(* Part one: protecting a project (ProjectProtection).                     *)


ProtectTypes ==
  /\ written \in Nat /\ key \in Key
  /\ frame \in [Sessions -> Frame]

(* The points at which execute_protect holds a key.                        *)
Holding == {"baseline", "write", "write_unlinked", "evidence"}

(* Who holds a key holds the key, and at most one session writes it, which *)
(* is unreadable until then.                                               *)
KeyInv ==
  /\ \A s \in Sessions : frame[s].key # None => frame[s].key = key
  /\ \A s \in Sessions : frame[s].at \in Holding => frame[s].key # None
  /\ \A s \in Sessions : At(s, "write_key") => key = Torn
  /\ \A r, s \in Sessions : At(r, "write_key") /\ At(s, "write_key") => r = s

Complete == lock \notin {None, Torn}

LockInv == Complete => key \in Sessions /\ lock.key = key

(* A lock that is there after start has looked is newer.                   *)
StartInv ==
  \A s \in Sessions :
    /\ frame[s].seen <= written
    /\ frame[s].start => ~At(s, "idle")
    /\ frame[s].start /\ ~At(s, "assert") /\ Complete => lock.n > frame[s].seen

(* The inductive invariant.                                                *)
ProtectInv == ProtectTypes /\ KeyInv /\ LockInv /\ StartInv

(* What StartReplacesOnlyNewer says of a step.                             *)
ReplacesOnlyNewer ==
  \A s \in Sessions :
    frame[s].start /\ lock \in Lock /\ lock' # lock /\ frame'[s] # frame[s]
      => lock.n > frame[s].seen

-----------------------------------------------------------------------------
(* Frames.                                                                 *)

(* A step of s leaves the other frames alone, or finds them writing a lock *)
(* that it unlinks.                                                        *)
Others(s) ==
  \A r \in Sessions \ {s} :
    \/ frame'[r] = frame[r]
    \/ /\ frame[r].at = "write" /\ frame'[r].at = "write_unlinked"
       /\ frame'[r].key = frame[r].key
       /\ frame'[r].seen = frame[r].seen /\ frame'[r].start = frame[r].start

(* s goes to a point, and holds that key.                                  *)
Goes(s, point, k) ==
  /\ frame' \in [Sessions -> Frame] /\ Others(s)
  /\ frame'[s].at = point /\ frame'[s].key = k
  /\ frame'[s].start = frame[s].start /\ frame'[s].seen = frame[s].seen

(* A command of s ends.                                                    *)
Ends(s) ==
  /\ frame' \in [Sessions -> Frame] /\ Others(s)
  /\ frame'[s].at = "idle" /\ frame'[s].key = None
  /\ frame'[s].start = FALSE /\ frame'[s].seen = 0

(* The ways the actions write a frame: they change where s is, ...         *)
LEMMA MovesTo ==
  ASSUME ProtectTypes, NEW s \in Sessions, NEW p \in Points, Goto(s, p)
  PROVE  Goes(s, p, frame[s].key)
BY DEF ProtectTypes, Goto, Goes, Others, Frame

(* ... and that it is setup, ...                                           *)
LEMMA EntersSetup ==
  ASSUME ProtectTypes, NEW s \in Sessions, NEW p \in Points,
         frame' = [frame EXCEPT ![s].at = p, ![s].setup = TRUE]
  PROVE  Goes(s, p, frame[s].key)
<1>1. frame \in [Sessions -> Frame] BY DEF ProtectTypes
<1>2. frame' \in [Sessions -> Frame] BY ZenonT(40), <1>1 DEF Frame
<1>3. Others(s) BY <1>1 DEF Others
<1>4. /\ frame'[s].at = p /\ frame'[s].key = frame[s].key
      /\ frame'[s].start = frame[s].start /\ frame'[s].seen = frame[s].seen
  BY <1>1 DEF Frame
<1> QED BY <1>2, <1>3, <1>4 DEF Goes

(* ... and its key, ...                                                    *)
LEMMA Takes ==
  ASSUME ProtectTypes, NEW s \in Sessions, NEW p \in Points, NEW k \in Sessions,
         frame' = [frame EXCEPT ![s].at = p, ![s].key = k]
  PROVE  Goes(s, p, k)
<1>1. frame \in [Sessions -> Frame] BY DEF ProtectTypes
<1>2. frame' \in [Sessions -> Frame] BY ZenonT(40), <1>1 DEF Frame
<1>3. Others(s) BY <1>1 DEF Others
<1>4. /\ frame'[s].at = p /\ frame'[s].key = k
      /\ frame'[s].start = frame[s].start /\ frame'[s].seen = frame[s].seen
  BY <1>1 DEF Frame
<1> QED BY <1>2, <1>3, <1>4 DEF Goes

(* ... and its definitions.                                                *)
LEMMA Defines ==
  ASSUME ProtectTypes, NEW s \in Sessions, NEW p \in Points, NEW d \in Definitions,
         frame' = [frame EXCEPT ![s].at = p, ![s].definitions = d]
  PROVE  Goes(s, p, frame[s].key)
<1>1. frame \in [Sessions -> Frame] BY DEF ProtectTypes
<1>2. frame' \in [Sessions -> Frame] BY ZenonT(40), <1>1 DEF Frame
<1>3. Others(s) BY <1>1 DEF Others
<1>4. /\ frame'[s].at = p /\ frame'[s].key = frame[s].key
      /\ frame'[s].start = frame[s].start /\ frame'[s].seen = frame[s].seen
  BY <1>1 DEF Frame
<1> QED BY <1>2, <1>3, <1>4 DEF Goes

(* Idle, field by field.                                                   *)
LEMMA IdleFrame ==
  /\ Idle \in Frame
  /\ Idle.at = "idle" /\ Idle.key = None /\ Idle.start = FALSE /\ Idle.seen = 0
BY DEF Idle, Frame, Points

LEMMA EndEnds ==
  ASSUME ProtectTypes, NEW s \in Sessions, End(s)
  PROVE  Ends(s)
BY IdleFrame DEF ProtectTypes, End, Ends, Others

LEMMA UnlinkEnds ==
  ASSUME ProtectTypes, NEW s \in Sessions, UnlinkLock(s)
  PROVE  Ends(s) /\ lock' = None
<1>1. frame \in [Sessions -> Frame] BY DEF ProtectTypes
<1>2. \A r \in Sessions : [frame[r] EXCEPT !.at = "write_unlinked"] \in Frame
  BY <1>1 DEF Frame, Points
<1>3. frame' \in [Sessions -> Frame]
  BY <1>1, <1>2, IdleFrame DEF UnlinkLock
<1>4. Others(s)
  BY <1>1 DEF UnlinkLock, Others, At, Frame
<1>5. frame'[s] = Idle
  BY <1>1 DEF UnlinkLock
<1> QED BY <1>3, <1>4, <1>5, IdleFrame DEF UnlinkLock, Ends

-----------------------------------------------------------------------------
(* Steps that do not touch the key.                                        *)

(* A step of s that writes neither key nor lock, except that the lock may  *)
(* be truncated or go, keeps the invariant if what s holds is the key.     *)
LEMMA Keeps ==
  ASSUME ProtectInv, NEW s \in Sessions, frame' \in [Sessions -> Frame], Others(s),
         key' = key, written' = written,
         lock' = lock \/ lock' \in {None, Torn},
         At(s, "assert") => lock' = lock,
         frame'[s].key = None \/ frame'[s].key = key,
         frame'[s].at \in Holding => frame'[s].key # None,
         frame'[s].at # "write_key",
         frame'[s].seen <= written,
         frame'[s].start =>
           /\ frame'[s].at # "idle"
           /\ \/ frame'[s].at = "assert"
              \/ lock' \in {None, Torn}
              \/ frame[s].start /\ ~At(s, "assert") /\ frame'[s].seen = frame[s].seen
  PROVE  ProtectInv' /\ ReplacesOnlyNewer
<1>1. ProtectTypes' BY DEF ProtectInv, ProtectTypes
<1>2. KeyInv'
  BY DEF ProtectInv, KeyInv, Others, Holding, At
<1>3. LockInv' BY DEF ProtectInv, LockInv, Complete
<1>4. StartInv'
  <2> SUFFICES ASSUME NEW r \in Sessions
               PROVE  /\ frame'[r].seen <= written
                      /\ frame'[r].start => frame'[r].at # "idle"
                      /\ frame'[r].start /\ frame'[r].at # "assert" /\ Complete' => lock'.n > frame'[r].seen
    BY DEF StartInv, At
  <2>1. CASE r = s BY <2>1 DEF ProtectInv, StartInv, At, Complete
  <2>2. CASE r # s BY <2>2 DEF ProtectInv, StartInv, At, Complete, Others
  <2> QED BY <2>1, <2>2
<1>5. ReplacesOnlyNewer
  BY ProtectionAssumption DEF ProtectInv, StartInv, ReplacesOnlyNewer, Others, At, Complete
<1> QED BY <1>1, <1>2, <1>3, <1>4, <1>5 DEF ProtectInv

(* In particular, a command may end at any point of it, ...                *)
LEMMA EndKeeps ==
  ASSUME ProtectInv, NEW s \in Sessions, Ends(s), key' = key, written' = written,
         \/ lock' = lock
         \/ lock' = None /\ ~At(s, "assert")
  PROVE  ProtectInv' /\ ReplacesOnlyNewer
<1>1. 0 <= written BY DEF ProtectInv, ProtectTypes
<1> QED BY <1>1, Keeps DEF Ends, Holding

(* ... and go on with the key it has.                                      *)
LEMMA GoesKeeps ==
  ASSUME ProtectInv, NEW s \in Sessions, NEW p \in Points \ {"idle", "assert", "write_key"},
         NEW k, Goes(s, p, k), k = frame[s].key \/ k = key,
         p \in Holding => k # None,
         ~At(s, "assert"), key' = key, written' = written,
         lock' = lock \/ lock' \in {None, Torn}
  PROVE  ProtectInv' /\ ReplacesOnlyNewer
<1>1. k = None \/ k = key BY DEF ProtectInv, KeyInv
<1>2. frame[s].seen <= written BY DEF ProtectInv, StartInv
<1> QED BY <1>1, <1>2, Keeps DEF Goes

LEMMA FailKeeps ==
  ASSUME ProtectInv, NEW s \in Sessions, Fail(s), ~At(s, "assert")
  PROVE  ProtectInv' /\ ReplacesOnlyNewer
<1>1. CASE InSetupTry(s) /\ UnlinkLock(s) /\ UNCHANGED <<config, key, written>>
  BY <1>1, UnlinkEnds, EndKeeps DEF ProtectInv
<1>2. CASE ~InSetupTry(s) /\ End(s) /\ UNCHANGED disk
  BY <1>2, EndEnds, EndKeeps DEF ProtectInv, disk
<1> QED BY <1>1, <1>2 DEF Fail

(* Beginning a command: the frame is new, and no lock is there if start    *)
(* begins.                                                                 *)
LEMMA BeginKeeps ==
  ASSUME ProtectInv, NEW s \in Sessions, NEW f \in Frame, Begin(s, f),
         f.at \in {"load", "ensure", "assert"}, f.key = None, f.seen = 0,
         f.start => f.at = "assert"
  PROVE  ProtectInv' /\ ReplacesOnlyNewer
<1>1. frame \in [Sessions -> Frame] /\ 0 <= written BY DEF ProtectInv, ProtectTypes
<1>2. frame' \in [Sessions -> Frame] /\ frame'[s] = f /\ Others(s)
  BY <1>1 DEF Begin, Others
<1>3. key' = key /\ written' = written /\ lock' = lock BY DEF Begin, disk
<1> QED BY <1>1, <1>2, <1>3, Keeps DEF Holding

LEMMA CommandsBegin ==
  ASSUME ProtectInv, NEW s \in Sessions, Protect(s) \/ Setup(s) \/ Start(s)
  PROVE  ProtectInv' /\ ReplacesOnlyNewer
<1> DEFINE plan == IF config \in Definitions THEN config ELSE None
           p == [Idle EXCEPT !.at = "load"]
           u == [Idle EXCEPT !.at = "ensure", !.setup = TRUE]
           t == [Idle EXCEPT !.at = "assert", !.start = TRUE, !.planned = plan]
<1>1. CASE Protect(s)
  <2>1. p \in Frame /\ p.at = "load" /\ p.key = None /\ p.seen = 0 /\ p.start = FALSE
    BY DEF Idle, Frame, Points
  <2>2. Begin(s, p) BY <1>1 DEF Protect
  <2> QED BY <2>1, <2>2, BeginKeeps
<1>2. CASE Setup(s)
  <2>1. u \in Frame /\ u.at = "ensure" /\ u.key = None /\ u.seen = 0 /\ u.start = FALSE
    BY DEF Idle, Frame, Points
  <2>2. Begin(s, u) BY <1>2 DEF Setup
  <2> QED BY <2>1, <2>2, BeginKeeps
<1>3. CASE Start(s)
  <2>1. t \in Frame /\ t.at = "assert" /\ t.key = None /\ t.seen = 0
    BY DEF Idle, Frame, Points
  <2>2. Begin(s, t) BY <1>3 DEF Start
  <2> QED BY <2>1, <2>2, BeginKeeps
<1> QED BY <1>1, <1>2, <1>3

-----------------------------------------------------------------------------
(* start's checks, and setup's configuration.                              *)

LEMMA AssertLockAbsentKeeps ==
  ASSUME ProtectInv, NEW s \in Sessions, AssertLockAbsent(s)
  PROVE  ProtectInv' /\ ReplacesOnlyNewer
<1>1. key' = key /\ written' = written /\ lock' = lock BY DEF AssertLockAbsent, disk
<1>2. CASE lock = None
  <2>1. frame \in [Sessions -> Frame] /\ written \in Nat BY DEF ProtectInv, ProtectTypes
  <2>2. frame' = [frame EXCEPT ![s].at = "compatible", ![s].seen = written]
    BY <1>2 DEF AssertLockAbsent
  <2>3. frame' \in [Sessions -> Frame]
    <3>1. ASSUME NEW q \in Frame PROVE [q EXCEPT !.at = "compatible"] \in Frame
      BY <3>1 DEF Frame, Points
    <3>2. ASSUME NEW q \in Frame PROVE [q EXCEPT !.seen = written] \in Frame
      BY <2>1, <3>2 DEF Frame
    <3>3. [[frame[s] EXCEPT !.at = "compatible"] EXCEPT !.seen = written] \in Frame
      BY <2>1, <3>1, <3>2
    <3> QED BY <2>1, <2>2, <3>3
  <2>4. Others(s) BY <2>1, <2>2 DEF Others
  <2>5. /\ frame'[s].at = "compatible" /\ frame'[s].seen = written
        /\ frame'[s].key = frame[s].key
    BY <2>1, <2>2 DEF Frame
  <2>6. frame'[s].key = None \/ frame'[s].key = key
    BY <2>5 DEF ProtectInv, KeyInv
  <2> QED BY <1>1, <1>2, <2>1, <2>3, <2>4, <2>5, <2>6, Keeps DEF Holding
<1>3. CASE lock # None
  BY <1>1, <1>3, EndEnds, EndKeeps DEF AssertLockAbsent, ProtectInv
<1> QED BY <1>2, <1>3

LEMMA AssertConfigCompatibleKeeps ==
  ASSUME ProtectInv, NEW s \in Sessions, AssertConfigCompatible(s)
  PROVE  ProtectInv' /\ ReplacesOnlyNewer
<1>1. key' = key /\ written' = written /\ lock' = lock BY DEF AssertConfigCompatible, disk
<1>2. ~At(s, "assert") BY DEF AssertConfigCompatible, At
<1>3. \/ End(s) \/ Goto(s, "load")
      \/ frame' = [frame EXCEPT ![s].at = "ensure", ![s].setup = TRUE]
  BY DEF AssertConfigCompatible
<1>4. CASE End(s) BY <1>1, <1>4, EndEnds, EndKeeps DEF ProtectInv
<1>5. CASE \/ Goto(s, "load")
           \/ frame' = [frame EXCEPT ![s].at = "ensure", ![s].setup = TRUE]
  <2>1. \E p \in {"load", "ensure"} : Goes(s, p, frame[s].key)
    BY <1>5, MovesTo, EntersSetup DEF ProtectInv, Points
  <2> QED BY <1>1, <1>2, <2>1, GoesKeeps DEF Holding, Points
<1> QED BY <1>3, <1>4, <1>5

LEMMA ConfigurationKeeps ==
  ASSUME ProtectInv, NEW s \in Sessions,
         EnsureProject(s) \/ WriteDefaultConfig(s) \/ WriteProtections(s) \/ ProtectionsWritten(s)
  PROVE  ProtectInv' /\ ReplacesOnlyNewer
<1>1. key' = key /\ written' = written /\ lock' = lock
  BY DEF EnsureProject, WriteDefaultConfig, WriteProtections, ProtectionsWritten
<1>2. ~At(s, "assert")
  BY DEF EnsureProject, WriteDefaultConfig, WriteProtections, ProtectionsWritten, At
<1>3. End(s) \/ \E p \in {"default", "define", "defining", "load"} : Goto(s, p)
  BY DEF EnsureProject, WriteDefaultConfig, WriteProtections, ProtectionsWritten
<1>4. CASE End(s) BY <1>1, <1>4, EndEnds, EndKeeps DEF ProtectInv
<1>5. CASE \E p \in {"default", "define", "defining", "load"} : Goto(s, p)
  <2>1. PICK p \in {"default", "define", "defining", "load"} : Goto(s, p) BY <1>5
  <2>2. Goes(s, p, frame[s].key) BY <2>1, MovesTo DEF ProtectInv, Points
  <2> QED BY <1>1, <1>2, <2>2, GoesKeeps DEF Holding, Points
<1> QED BY <1>3, <1>4, <1>5

-----------------------------------------------------------------------------
(* execute_protect.                                                        *)

LEMMA LoadConfigKeeps ==
  ASSUME ProtectInv, NEW s \in Sessions, LoadConfig(s)
  PROVE  ProtectInv' /\ ReplacesOnlyNewer
<1>1. ~At(s, "assert") BY DEF LoadConfig, At
<1>2. CASE Fail(s) BY <1>1, <1>2, FailKeeps
<1>3. CASE /\ config \in Definitions
           /\ frame' = [frame EXCEPT ![s].at = "check", ![s].definitions = config]
           /\ UNCHANGED disk
  <2>1. Goes(s, "check", frame[s].key) BY <1>3, Defines DEF ProtectInv, Points
  <2> QED BY <1>1, <1>3, <2>1, GoesKeeps DEF Holding, Points, disk
<1> QED BY <1>2, <1>3 DEF LoadConfig

LEMMA RunProtectionsKeeps ==
  ASSUME ProtectInv, NEW s \in Sessions, RunProtections(s)
  PROVE  ProtectInv' /\ ReplacesOnlyNewer
<1>1. ~At(s, "assert") BY DEF RunProtections, At
<1>2. CASE Fail(s) BY <1>1, <1>2, FailKeeps
<1>3. CASE \E p \in {"key", "report"} : Goto(s, p) /\ UNCHANGED disk
  <2>1. PICK p \in {"key", "report"} : Goto(s, p) /\ UNCHANGED disk BY <1>3
  <2>2. Goes(s, p, frame[s].key) BY <2>1, MovesTo DEF ProtectInv, Points
  <2> QED BY <1>1, <2>1, <2>2, GoesKeeps DEF Holding, Points, disk
<1> QED BY <1>2, <1>3 DEF RunProtections

LEMMA UseKeyKeeps ==
  ASSUME ProtectInv, NEW s \in Sessions, UseKey(s), ~At(s, "assert")
  PROVE  ProtectInv' /\ ReplacesOnlyNewer
<1>1. CASE Fail(s) BY <1>1, FailKeeps
<1>2. CASE /\ key \notin {None, Torn}
           /\ frame' = [frame EXCEPT ![s].at = "baseline", ![s].key = key]
           /\ UNCHANGED disk
  <2>1. key \in Sessions BY <1>2 DEF ProtectInv, ProtectTypes, Key
  <2>2. Goes(s, "baseline", key) BY <1>2, <2>1, Takes DEF ProtectInv, Points
  <2>3. key # None BY <1>2
  <2> QED BY <1>2, <2>2, <2>3, GoesKeeps DEF Points, disk
<1> QED BY <1>1, <1>2 DEF UseKey

LEMMA LookForKeyKeeps ==
  ASSUME ProtectInv, NEW s \in Sessions, LookForKey(s)
  PROVE  ProtectInv' /\ ReplacesOnlyNewer
<1>1. ~At(s, "assert") BY DEF LookForKey, At
<1>2. CASE UseKey(s) BY <1>1, <1>2, UseKeyKeeps
<1>3. CASE Goto(s, "create_key") /\ UNCHANGED disk
  <2>1. Goes(s, "create_key", frame[s].key) BY <1>3, MovesTo DEF ProtectInv, Points
  <2> QED BY <1>1, <1>3, <2>1, GoesKeeps DEF Holding, Points, disk
<1> QED BY <1>2, <1>3 DEF LookForKey

(* There was no key, so no one holds one, and no lock is complete.         *)
LEMMA CreateKeyKeeps ==
  ASSUME ProtectInv, NEW s \in Sessions, CreateKey(s)
  PROVE  ProtectInv' /\ ReplacesOnlyNewer
<1>1. ~At(s, "assert") BY DEF CreateKey, At
<1>2. CASE UseKey(s) BY <1>1, <1>2, UseKeyKeeps
<1>3. CASE /\ key = None /\ key' = Torn
           /\ Goto(s, "write_key")
           /\ UNCHANGED <<config, lock, written>>
  <2>1. Goes(s, "write_key", frame[s].key) BY <1>3, MovesTo DEF ProtectInv, Points
  <2>2. \A r \in Sessions : frame[r].key = None /\ frame[r].at \notin Holding \cup {"write_key"}
    BY <1>3, ProtectionAssumption DEF ProtectInv, KeyInv, At
  <2>3. ProtectTypes' BY <1>3, <2>1 DEF ProtectInv, ProtectTypes, Key, Goes
  <2>4. \A r \in Sessions : frame'[r].key = None /\ (frame'[r].at \in Holding \cup {"write_key"} => r = s)
    BY <2>1, <2>2 DEF Goes, Others, Holding
  <2>5. KeyInv' BY <1>3, <2>1, <2>4 DEF KeyInv, Goes, At, Holding
  <2>6. ~Complete BY <1>3, ProtectionAssumption DEF ProtectInv, LockInv
  <2>7. ~Complete' BY <1>3, <2>6 DEF Complete
  <2>8. StartInv'
    BY <1>1, <1>3, <2>1, <2>7 DEF ProtectInv, StartInv, Goes, Others, At
  <2> QED BY <1>3, <2>3, <2>5, <2>7, <2>8 DEF ProtectInv, LockInv, ReplacesOnlyNewer
<1> QED BY <1>2, <1>3 DEF CreateKey

(* The key was unreadable, so no one holds one, and no lock is complete.   *)
LEMMA WriteKeyKeeps ==
  ASSUME ProtectInv, NEW s \in Sessions, WriteKey(s)
  PROVE  ProtectInv' /\ ReplacesOnlyNewer
<1>1. At(s, "write_key") /\ key = Torn /\ ~At(s, "assert")
  BY DEF WriteKey, ProtectInv, KeyInv, At
<1>2. Goes(s, "baseline", s) BY Takes DEF WriteKey, ProtectInv, Points
<1>3. key' = s /\ lock' = lock /\ written' = written BY DEF WriteKey
<1>4. \A r \in Sessions : frame[r].key = None /\ frame[r].at \notin Holding
  BY <1>1, ProtectionAssumption DEF ProtectInv, ProtectTypes, Frame, KeyInv
<1>5. ProtectTypes' BY <1>2, <1>3 DEF ProtectInv, ProtectTypes, Key, Goes
<1>6. \A r \in Sessions \ {s} :
        frame'[r].key = None /\ frame'[r].at \notin Holding \cup {"write_key"}
  BY <1>1, <1>2, <1>4 DEF ProtectInv, KeyInv, Goes, Others, Holding, At
<1>7. KeyInv' BY <1>2, <1>3, <1>6, ProtectionAssumption DEF KeyInv, Goes, At, Holding
<1>8. ~Complete BY <1>1, ProtectionAssumption DEF ProtectInv, LockInv
<1>9. ~Complete' BY <1>3, <1>8 DEF Complete
<1>10. StartInv'
  BY <1>1, <1>2, <1>3, <1>9 DEF ProtectInv, StartInv, Goes, Others, At
<1> QED BY <1>3, <1>5, <1>7, <1>9, <1>10 DEF ProtectInv, LockInv, ReplacesOnlyNewer

LEMMA CreateLockKeeps ==
  ASSUME ProtectInv, NEW s \in Sessions, CreateLock(s)
  PROVE  ProtectInv' /\ ReplacesOnlyNewer
<1>1. ~At(s, "assert") BY DEF CreateLock, At
<1>2. CASE Fail(s) BY <1>1, <1>2, FailKeeps
<1>3. CASE lock' = Torn /\ Goto(s, "write") /\ UNCHANGED <<config, key, written>>
  <2>1. Goes(s, "write", frame[s].key) BY <1>3, MovesTo DEF ProtectInv, Points
  <2>2. frame[s].key # None BY DEF CreateLock, ProtectInv, KeyInv, At, Holding
  <2> QED BY <1>1, <1>3, <2>1, <2>2, GoesKeeps DEF Points
<1> QED BY <1>2, <1>3 DEF CreateLock

(* What is written is signed under the key, and newer than what any start  *)
(* has seen.                                                               *)
LEMMA WriteLockKeeps ==
  ASSUME ProtectInv, NEW s \in Sessions, WriteLock(s)
  PROVE  ProtectInv' /\ ReplacesOnlyNewer
<1>1. frame[s].at \in Holding /\ ~At(s, "assert") /\ written \in Nat
  BY DEF WriteLock, Holding, At, ProtectInv, ProtectTypes
<1>2. Goes(s, "evidence", frame[s].key) BY MovesTo DEF WriteLock, ProtectInv, Points
<1>3. key' = key /\ written' = written + 1 BY DEF WriteLock
<1>4. key \in Sessions /\ frame[s].key = key
  BY <1>1, ProtectionAssumption DEF ProtectInv, ProtectTypes, Frame, KeyInv
<1>5. LockOf(s).n = written + 1 /\ LockOf(s).key = key BY <1>4 DEF LockOf
<1>6. lock' = lock \/ lock' \in {LockOf(s), Torn} BY DEF WriteLock, AfterWriting
<1>7. ProtectTypes' BY <1>1, <1>2, <1>3 DEF ProtectInv, ProtectTypes, Goes
<1>8. KeyInv'
  BY <1>1, <1>2, <1>3, <1>4, ProtectionAssumption DEF ProtectInv, KeyInv, Goes, Others, Holding, At
<1>9. LockInv' BY <1>3, <1>4, <1>5, <1>6 DEF ProtectInv, LockInv, Complete
<1>10. StartInv'
  <2> SUFFICES ASSUME NEW r \in Sessions
               PROVE  /\ frame'[r].seen <= written + 1
                      /\ frame'[r].start => frame'[r].at # "idle"
                      /\ frame'[r].start /\ frame'[r].at # "assert" /\ Complete' => lock'.n > frame'[r].seen
    BY <1>3 DEF StartInv, At
  <2>1. /\ frame'[r].seen = frame[r].seen /\ frame'[r].start = frame[r].start
        /\ frame[r].at = "assert" => frame'[r].at = "assert"
        /\ frame'[r].at = "idle" => frame[r].at = "idle"
    BY <1>1, <1>2 DEF Goes, Others, At
  <2>2. frame[r].seen \in Nat BY DEF ProtectInv, ProtectTypes, Frame
  <2>3. frame[r].seen <= written /\ (frame[r].start => frame[r].at # "idle")
    BY DEF ProtectInv, StartInv, At
  <2>4. CASE lock' = lock
    BY <1>1, <2>1, <2>2, <2>3, <2>4 DEF ProtectInv, StartInv, At, Complete
  <2>5. CASE lock' = LockOf(s) BY <1>1, <1>5, <2>1, <2>2, <2>3, <2>5
  <2>6. CASE lock' = Torn BY <1>1, <2>1, <2>2, <2>3, <2>6 DEF Complete
  <2> QED BY <1>6, <2>4, <2>5, <2>6
<1>11. ReplacesOnlyNewer
  BY <1>1, <1>2, ProtectionAssumption
  DEF ProtectInv, StartInv, ReplacesOnlyNewer, Goes, Others, At, Complete
<1> QED BY <1>7, <1>8, <1>9, <1>10, <1>11 DEF ProtectInv

LEMMA WriteEvidenceKeeps ==
  ASSUME ProtectInv, NEW s \in Sessions, WriteEvidence(s)
  PROVE  ProtectInv' /\ ReplacesOnlyNewer
<1>1. ~At(s, "assert") BY DEF WriteEvidence, At
<1>2. CASE Fail(s) BY <1>1, <1>2, FailKeeps
<1>3. CASE UnlinkLock(s) /\ UNCHANGED <<config, key, written>>
  BY <1>1, <1>3, UnlinkEnds, EndKeeps DEF ProtectInv
<1>4. CASE End(s) /\ UNCHANGED disk BY <1>4, EndEnds, EndKeeps DEF ProtectInv, disk
<1> QED BY <1>2, <1>3, <1>4 DEF WriteEvidence

-----------------------------------------------------------------------------
(* The theorems.                                                           *)

(* Every step keeps the invariant, and no start replaces what it had seen. *)
LEMMA ProtectNextKeeps ==
  ASSUME ProtectInv, [SessionNext]_vars
  PROVE  ProtectInv' /\ ReplacesOnlyNewer
<1>1. ASSUME NEW s \in Sessions, Interrupt(s)
      PROVE  ProtectInv' /\ ReplacesOnlyNewer
  BY <1>1, EndEnds, EndKeeps DEF Interrupt, ProtectInv, disk
<1>2. ASSUME NEW s \in Sessions, Command(s)
      PROVE  ProtectInv' /\ ReplacesOnlyNewer
  BY <1>2, AssertLockAbsentKeeps, AssertConfigCompatibleKeeps, ConfigurationKeeps,
     LoadConfigKeeps, RunProtectionsKeeps, LookForKeyKeeps, CreateKeyKeeps, WriteKeyKeeps,
     CreateLockKeeps, WriteLockKeeps, WriteEvidenceKeeps
  DEF Command
<1>3. CASE UNCHANGED vars
  BY <1>3 DEF vars, disk, ProtectInv, ProtectTypes, KeyInv, LockInv, StartInv, ReplacesOnlyNewer, Complete, At
<1> QED BY <1>1, <1>2, <1>3, CommandsBegin DEF SessionNext

LEMMA ProtectInitHolds == Init => ProtectInv
<1> SUFFICES ASSUME Init PROVE ProtectInv OBVIOUS
<1>1. \A s \in Sessions : frame[s] = Idle BY DEF Init
<1>2. frame \in [Sessions -> Frame] BY IdleFrame DEF Init
<1>3. ProtectTypes BY <1>2 DEF Init, ProtectTypes, Key
<1>4. KeyInv BY <1>1, IdleFrame DEF KeyInv, At, Holding
<1>5. LockInv BY DEF Init, LockInv, Complete
<1>6. StartInv
  <2>1. \A s \in Sessions : ~frame[s].start BY <1>1, IdleFrame
  <2>2. \A s \in Sessions : frame[s].seen = 0 BY <1>1, IdleFrame
  <2>3. written = 0 BY DEF Init
  <2>4. \A s \in Sessions : frame[s].seen <= written
    <3>1. 0 <= 0 OBVIOUS
    <3> QED BY <2>2, <2>3, <3>1, Zenon
  <2> QED BY <2>1, <2>4, Zenon DEF StartInv
<1> QED BY <1>3, <1>4, <1>5, <1>6 DEF ProtectInv

(* The invariant is inductive.                                             *)
THEOREM OneKey == Spec => []ProtectInv
BY ProtectInitHolds, ProtectNextKeeps, PTL DEF Spec

(* For every number of terminals and commands, every complete lock         *)
(* verifies under the one signing key.                                     *)
THEOREM LocksVerify == Spec => []LockVerifies
<1>1. ProtectInv => LockVerifies
  BY ProtectionAssumption DEF ProtectInv, LockInv, LockVerifies, Complete
<1> QED BY <1>1, OneKey, PTL

(* For every number of terminals and commands, start replaces or removes   *)
(* only a lock written after it had seen that there was none.              *)
THEOREM StartKeepsWhatItSaw == Spec => StartReplacesOnlyNewer
<1>1. ReplacesOnlyNewer <=>
        \A s \in Sessions :
          frame[s].start /\ lock \in Lock /\ lock' # lock /\ frame'[s] # frame[s]
            => lock.n > frame[s].seen
  BY DEF ReplacesOnlyNewer
<1>2. ProtectInv /\ [SessionNext]_vars => ReplacesOnlyNewer BY ProtectNextKeeps
<1> QED BY <1>1, <1>2, OneKey, PTL DEF Spec, StartReplacesOnlyNewer

-----------------------------------------------------------------------------
(* Part two: watching a project (ProjectWatch).                            *)


(* What is there of a path: the number of an edit.                         *)
Stamped(v) == v \notin {Absent, Unlisted}

Checking == {"check", "verified", "after"}

Types ==
  /\ written \in Nat
  /\ files \in Tree /\ edits \in 0..MaxEdits
  /\ \A f \in Files : files[f] # Absent => files[f] <= edits
  /\ watch \in Watch

(* What the session holds at which point.                                  *)
HeldInv ==
  /\ watch.stamps # None <=> watch.at \in Capturing
  /\ watch.before # None <=> watch.at \in Checking \cup {"verify"}
  /\ watch.frozen # None <=> Running
  /\ watch.result # None => Running
  /\ watch.verified # None <=> watch.at \in Checking
  /\ watch.at \notin Checking => watch.seen = {}
  /\ watch.at = "after" => watch.verified = watch.frozen

(* Locks are numbered upwards, so the session reads them in that order.    *)
NumberInv ==
  /\ Complete => lock.n \in Nat /\ lock.n <= written
  /\ watch.frozen # None =>
       /\ watch.frozen <= written
       /\ Complete => watch.frozen <= lock.n
  /\ watch.verified # None =>
       /\ watch.frozen <= watch.verified /\ watch.verified <= written
       /\ Complete => watch.verified <= lock.n

(* As long as a path has the stamp it had before the checks, all checks    *)
(* have seen it so; and when it is stamped again, that is settled.         *)
TreeInv ==
  /\ watch.before # None =>
       \A f \in Files : Stamped(watch.before[f]) =>
         /\ watch.before[f] <= edits
         /\ files[f] = watch.before[f] => \A tree \in watch.seen : tree[f] = watch.before[f]
         /\ watch.at = "after" /\ watch.stamps[f] = watch.before[f]
              => \A tree \in watch.seen : tree[f] = watch.before[f]
  /\ watch.stamps # None =>
       \A f \in Files :
         watch.stamps[f] # None /\ Stamped(watch.stamps[f]) => watch.stamps[f] <= edits

(* The inductive invariant.                                                *)
IInv == Types /\ HeldInv /\ NumberInv /\ TreeInv /\ ShownIsTrue

-----------------------------------------------------------------------------
(* Locks.                                                                  *)

(* What a step may do to the lock and to the number of locks written.      *)
LockStep ==
  \/ written' = written /\ (lock' = lock \/ lock' \in {None, Torn})
  \/ /\ written' = written + 1
     /\ lock' = lock \/ lock' \in {None, Torn} \/ lock'.n = written + 1

LEMMA FailLockStep == ASSUME NEW s \in Sessions, Fail(s) PROVE LockStep
BY DEF Fail, UnlinkLock, LockStep, disk

LEMMA UseKeyLockStep == ASSUME NEW s \in Sessions, UseKey(s) PROVE LockStep
BY FailLockStep DEF UseKey, LockStep, disk

LEMMA WriteLockStep == ASSUME NEW s \in Sessions, WriteLock(s) PROVE LockStep
<1>1. LockOf(s).n = written + 1 BY DEF LockOf
<1>2. lock' = lock \/ lock' \in {LockOf(s), Torn} BY DEF WriteLock, AfterWriting
<1> QED BY <1>1, <1>2 DEF WriteLock, LockStep

LEMMA SessionLockStep == ASSUME SessionNext PROVE LockStep
<1> PICK s \in Sessions : Protect(s) \/ Setup(s) \/ Start(s) \/ Command(s) \/ Interrupt(s)
  BY DEF SessionNext
<1>1. CASE Protect(s) \/ Setup(s) \/ Start(s) \/ Interrupt(s)
  BY <1>1 DEF Protect, Setup, Start, Begin, Interrupt, LockStep, disk
<1>2. CASE AssertLockAbsent(s) \/ AssertConfigCompatible(s)
  BY <1>2 DEF AssertLockAbsent, AssertConfigCompatible, LockStep, disk
<1>3. CASE EnsureProject(s) \/ WriteDefaultConfig(s) \/ WriteProtections(s) \/ ProtectionsWritten(s)
  BY <1>3 DEF EnsureProject, WriteDefaultConfig, WriteProtections, ProtectionsWritten, LockStep
<1>4. CASE LoadConfig(s) \/ RunProtections(s)
  BY <1>4, FailLockStep DEF LoadConfig, RunProtections, LockStep, disk
<1>5. CASE LookForKey(s) \/ CreateKey(s) \/ WriteKey(s)
  BY <1>5, UseKeyLockStep DEF LookForKey, CreateKey, WriteKey, LockStep, disk
<1>6. CASE CreateLock(s)
  BY <1>6, FailLockStep DEF CreateLock, LockStep
<1>7. CASE WriteLock(s) BY <1>7, WriteLockStep
<1>8. CASE WriteEvidence(s)
  BY <1>8, FailLockStep DEF WriteEvidence, UnlinkLock, LockStep, disk
<1> QED BY <1>1, <1>2, <1>3, <1>4, <1>5, <1>6, <1>7, <1>8 DEF Command

LEMMA AuthenticComplete == Authentic => Complete
BY ProtectionAssumption DEF Authentic, Complete

(* The commands of the other terminals.                                    *)
LEMMA SessionsKeep ==
  ASSUME IInv, SessionNext, UNCHANGED <<project, watch>>
  PROVE  IInv'
<1>1. LockStep BY SessionLockStep
<1>2. files' = files /\ edits' = edits /\ watch' = watch BY DEF project
<1>3. written \in Nat /\ watch \in Watch BY DEF IInv, Types
<1>4. watch.frozen \in Nat \cup {None} /\ watch.verified \in Nat \cup {None}
  BY <1>3 DEF Watch
<1>5. Types' BY <1>1, <1>2, <1>3 DEF IInv, Types, LockStep
<1>6. HeldInv' BY <1>2 DEF IInv, HeldInv, Running
<1>7. NumberInv'
  BY <1>1, <1>2, <1>3, <1>4 DEF IInv, NumberInv, LockStep, Complete
<1>8. TreeInv' BY <1>2 DEF IInv, TreeInv
<1>9. ShownIsTrue' BY <1>2 DEF IInv, ShownIsTrue
<1> QED BY <1>5, <1>6, <1>7, <1>8, <1>9 DEF IInv

-----------------------------------------------------------------------------
(* The project.                                                            *)

LEMMA EditKeeps ==
  ASSUME IInv, NEW f \in Files, Edit(f)
  PROVE  IInv'
<1>1. written' = written /\ lock' = lock /\ watch' = watch BY DEF Edit, vars, disk
<1>2. edits' = edits + 1 /\ edits \in Nat /\ edits + 1 \in 0..MaxEdits
  BY WatchAssumption DEF Edit, IInv, Types
<1>3. PICK v \in {edits + 1, Absent} : files' = [files EXCEPT ![f] = v] BY DEF Edit
<1>4. \A g \in Files : files'[g] = IF g = f THEN v ELSE files[g]
  BY <1>3 DEF IInv, Types, Tree
<1>5. files' \in Tree BY <1>2, <1>3 DEF IInv, Types, Tree
<1>6. \A g \in Files : files'[g] # Absent => files'[g] <= edits + 1
  <2> SUFFICES ASSUME NEW g \in Files, files'[g] # Absent PROVE files'[g] <= edits + 1
    OBVIOUS
  <2>1. CASE g = f BY <1>2, <1>4, <2>1
  <2>2. CASE g # f
    <3>1. files[g] \in 0..MaxEdits BY <1>4, <2>2 DEF IInv, Types, Tree
    <3>2. files[g] <= edits BY <1>4, <2>2 DEF IInv, Types
    <3> QED BY <1>2, <1>4, <2>2, <3>1, <3>2
  <2> QED BY <2>1, <2>2
<1>7. Types' BY <1>1, <1>2, <1>5, <1>6 DEF IInv, Types
<1>8. HeldInv' BY <1>1 DEF IInv, HeldInv, Running
<1>9. NumberInv' BY <1>1 DEF IInv, NumberInv, Complete
<1>10. TreeInv'
  <2>1. ASSUME watch.before # None, NEW g \in Files, Stamped(watch.before[g])
        PROVE  /\ watch.before[g] <= edits + 1
               /\ files'[g] = watch.before[g] => files[g] = watch.before[g]
    <3>1. watch.before \in Snapshot BY <2>1 DEF IInv, Types, Watch
    <3>2. watch.before[g] \in 0..MaxEdits BY <2>1, <3>1 DEF Snapshot, Stamps, Stamped
    <3>3. watch.before[g] <= edits BY <2>1 DEF IInv, TreeInv
    <3>4. v # watch.before[g] BY <1>2, <2>1, <3>2, <3>3 DEF Stamped
    <3> QED BY <1>2, <1>4, <3>2, <3>3, <3>4
  <2>2. ASSUME watch.stamps # None, NEW g \in Files, watch.stamps[g] # None, Stamped(watch.stamps[g])
        PROVE  watch.stamps[g] <= edits + 1
    <3>1. watch.stamps \in Stamps BY <2>2 DEF IInv, Types, Watch
    <3>2. watch.stamps[g] \in 0..MaxEdits BY <2>2, <3>1 DEF Stamps, Stamped
    <3>3. watch.stamps[g] <= edits BY <2>2 DEF IInv, TreeInv
    <3> QED BY <1>2, <3>2, <3>3
  <2> QED BY <1>1, <1>2, <2>1, <2>2 DEF IInv, TreeInv, Stamped
<1>11. ShownIsTrue' BY <1>1 DEF IInv, ShownIsTrue
<1> QED BY <1>7, <1>8, <1>9, <1>10, <1>11 DEF IInv

-----------------------------------------------------------------------------
(* The session.                                                            *)

(* What every step of the session leaves alone.                            *)
Alone == written' = written /\ lock' = lock /\ files' = files /\ edits' = edits

LEMMA ContinueAlone == ASSUME NEW w, Continue(w) PROVE watch' = w /\ Alone
BY DEF Continue, Alone, vars, disk, project

LEMMA ExitAlone ==
  ASSUME Exit
  PROVE  /\ Alone /\ watch' \in Watch
         /\ watch'.at = "ended" /\ watch'.frozen = None /\ watch'.before = None
         /\ watch'.stamps = None /\ watch'.verified = None /\ watch'.seen = {}
         /\ watch'.result = None
<1>1. watch' = [NotStarted EXCEPT !.at = "ended"] /\ Alone
  BY DEF Exit, Alone, vars, disk, project
<1>2. NotStarted \in Watch
  BY DEF NotStarted, Watch
<1>3. /\ NotStarted.frozen = None /\ NotStarted.before = None /\ NotStarted.stamps = None
      /\ NotStarted.verified = None /\ NotStarted.seen = {} /\ NotStarted.result = None
  BY DEF NotStarted
<1>4. ASSUME NEW w \in Watch, watch' = [w EXCEPT !.at = "ended"]
      PROVE  /\ watch' \in Watch /\ watch'.at = "ended"
             /\ watch'.frozen = w.frozen /\ watch'.before = w.before
             /\ watch'.stamps = w.stamps /\ watch'.verified = w.verified
             /\ watch'.seen = w.seen /\ watch'.result = w.result
  BY <1>4 DEF Watch
<1> QED BY <1>1, <1>2, <1>3, <1>4

LEMMA ExitKeeps ==
  ASSUME IInv, Exit
  PROVE  IInv'
<1>1. Types' BY ExitAlone DEF IInv, Types, Alone
<1>2. HeldInv' BY ExitAlone DEF HeldInv, Running, Capturing, Checking
<1>3. NumberInv' BY ExitAlone DEF IInv, NumberInv, Complete, Alone
<1>4. TreeInv' BY ExitAlone DEF TreeInv
<1>5. ShownIsTrue' BY ExitAlone DEF ShownIsTrue
<1> QED BY <1>1, <1>2, <1>3, <1>4, <1>5 DEF IInv

(* Nothing is stamped yet in what was discovered.                          *)
LEMMA DiscoveredStamps ==
  /\ Discovered \in Stamps
  /\ \A f \in Files : Discovered[f] # None => ~Stamped(Discovered[f])
BY DEF Discovered, Stamps, Stamped

LEMMA StartWatchKeeps ==
  ASSUME IInv, StartWatch
  PROVE  IInv'
<1>1. CASE ~Authentic BY <1>1, ExitKeeps DEF StartWatch
<1>2. CASE Authentic
  <2>1. watch' = [watch EXCEPT !.at = "control", !.frozen = lock.n] /\ Alone
    BY <1>2, ContinueAlone DEF StartWatch
  <2>2. lock.n \in Nat /\ lock.n <= written /\ written \in Nat
    BY <1>2, AuthenticComplete DEF IInv, NumberInv, Types
  <2>3. /\ watch' \in Watch /\ watch'.at = "control" /\ watch'.frozen = lock.n
        /\ watch'.before = watch.before /\ watch'.stamps = watch.stamps
        /\ watch'.verified = watch.verified /\ watch'.seen = watch.seen
        /\ watch'.result = watch.result
    BY <2>1, <2>2 DEF IInv, Types, Watch
  <2>4. /\ watch.before = None /\ watch.stamps = None /\ watch.verified = None
        /\ watch.seen = {} /\ watch.result = None
    BY DEF StartWatch, Watching, IInv, HeldInv, Capturing, Checking, Running
  <2>5. lock.n # None BY <2>2, WatchAssumption
  <2>6. Types' BY <2>1, <2>3 DEF IInv, Types, Alone
  <2>7. HeldInv' BY <2>3, <2>4, <2>5 DEF HeldInv, Running, Capturing, Checking
  <2>8. NumberInv' BY <2>1, <2>2, <2>3, <2>4 DEF IInv, NumberInv, Complete, Alone
  <2>9. TreeInv' BY <2>3, <2>4 DEF TreeInv
  <2>10. ShownIsTrue' BY <2>3, <2>4 DEF ShownIsTrue
  <2> QED BY <2>6, <2>7, <2>8, <2>9, <2>10 DEF IInv
<1> QED BY <1>1, <1>2

(* A step within or between cycles that shows nothing new and reads no     *)
(* lock keeps the numbers and the result.                                  *)
LEMMA MovesKeep ==
  ASSUME IInv, Alone, watch' \in Watch,
         watch'.frozen = watch.frozen, watch'.result = watch.result,
         watch'.verified = watch.verified \/ watch'.verified = None
  PROVE  Types' /\ NumberInv' /\ ShownIsTrue'
<1>1. Types' BY DEF IInv, Types, Alone
<1>2. NumberInv' BY DEF IInv, NumberInv, Complete, Alone
<1>3. ShownIsTrue' BY DEF IInv, ShownIsTrue
<1> QED BY <1>1, <1>2, <1>3

(* None is no snapshot.                                                    *)
LEMMA NoneIsNoSnapshot == ASSUME NEW stamps \in Stamps PROVE stamps # None
BY WatchAssumption

(* assert_watch_control before a snapshot.                                 *)
LEMMA DiscoverKeeps ==
  ASSUME IInv, NEW point \in {"before", "current"},
         watch.at = "control" \/ watch.at = "sleep",
         AssertControl([watch EXCEPT !.at = point, !.stamps = Discovered])
  PROVE  IInv'
<1>1. CASE Exit BY <1>1, ExitKeeps
<1>2. CASE Continue([watch EXCEPT !.at = point, !.stamps = Discovered])
  <2>1. watch' = [watch EXCEPT !.at = point, !.stamps = Discovered] /\ Alone
    BY <1>2, ContinueAlone
  <2>2. /\ watch' \in Watch /\ watch'.at = point /\ watch'.frozen = watch.frozen
        /\ watch'.before = watch.before /\ watch'.stamps = Discovered
        /\ watch'.verified = watch.verified /\ watch'.seen = watch.seen
        /\ watch'.result = watch.result
    BY <2>1, DiscoveredStamps DEF IInv, Types, Watch
  <2>3. watch.before = None /\ watch.verified = None /\ watch.seen = {} /\ watch.frozen # None
    BY DEF IInv, HeldInv, Capturing, Checking, Running
  <2>4. Types' /\ NumberInv' /\ ShownIsTrue' BY <2>1, <2>2, MovesKeep
  <2>5. Discovered # None BY NoneIsNoSnapshot, DiscoveredStamps
  <2>6. HeldInv' BY <2>2, <2>3, <2>5 DEF HeldInv, Running, Capturing, Checking
  <2>7. TreeInv' BY <2>2, <2>3, DiscoveredStamps DEF TreeInv
  <2> QED BY <2>4, <2>6, <2>7 DEF IInv
<1> QED BY <1>1, <1>2 DEF AssertControl

(* The lock that was verified against is, by its number, the frozen one.   *)
LEMMA AssertAfterKeeps ==
  ASSUME IInv, AssertAfter
  PROVE  IInv'
<1>1. CASE Exit BY <1>1, ExitKeeps
<1>2. CASE /\ Authentic /\ lock.n = watch.frozen
           /\ Continue([watch EXCEPT !.at = "after", !.stamps = Discovered])
  <2>1. watch' = [watch EXCEPT !.at = "after", !.stamps = Discovered] /\ Alone
    BY <1>2, ContinueAlone
  <2>2. /\ watch' \in Watch /\ watch'.at = "after" /\ watch'.frozen = watch.frozen
        /\ watch'.before = watch.before /\ watch'.stamps = Discovered
        /\ watch'.verified = watch.verified /\ watch'.seen = watch.seen
        /\ watch'.result = watch.result
    BY <2>1, DiscoveredStamps DEF IInv, Types, Watch
  <2>3. /\ watch.before # None /\ watch.verified # None /\ watch.frozen # None
    BY DEF AssertAfter, Watching, IInv, HeldInv, Checking, Running
  <2>4. watch.frozen \in Nat /\ watch.verified \in Nat
    BY <2>3 DEF IInv, Types, Watch
  <2>5. watch.verified = watch.frozen
    BY <1>2, <2>3, <2>4, AuthenticComplete DEF IInv, NumberInv
  <2>6. Types' /\ NumberInv' /\ ShownIsTrue' BY <2>1, <2>2, MovesKeep
  <2>7. Discovered # None BY NoneIsNoSnapshot, DiscoveredStamps
  <2>8. HeldInv' BY <2>2, <2>3, <2>5, <2>7 DEF HeldInv, Running, Capturing, Checking
  <2>9. TreeInv'
    <3>1. ASSUME NEW f \in Files, Stamped(watch.before[f])
          PROVE  Discovered[f] # watch.before[f]
      <4>1. watch.before[f] # None BY <2>3 DEF IInv, Types, Watch, Snapshot
      <4> QED BY <3>1, <4>1, DiscoveredStamps
    <3>2. files' = files /\ edits' = edits BY <2>1 DEF Alone
    <3> QED BY <2>2, <2>3, <3>1, <3>2, DiscoveredStamps DEF IInv, TreeInv
  <2> QED BY <2>6, <2>8, <2>9 DEF IInv
<1> QED BY <1>1, <1>2 DEF AssertAfter, AssertControl

(* A path is stamped as it is.                                             *)
LEMMA StampFileKeeps ==
  ASSUME IInv, StampFile
  PROVE  IInv'
<1>1. PICK f \in Files : /\ watch.stamps[f] = None
                         /\ Continue([watch EXCEPT !.stamps[f] = files[f]])
  BY DEF StampFile
<1> DEFINE stamps == [watch.stamps EXCEPT ![f] = files[f]]
<1>2. watch' = [watch EXCEPT !.stamps = stamps] /\ Alone
  <2>1. Alone /\ watch' = [watch EXCEPT !.stamps[f] = files[f]] BY <1>1, ContinueAlone
  <2> QED BY <2>1
<1>3. watch.stamps # None BY DEF StampFile, IInv, HeldInv
<1>4. watch.stamps \in Stamps BY <1>3 DEF IInv, Types, Watch
<1>5. stamps \in Stamps BY <1>4 DEF IInv, Types, Tree, Stamps
<1>6. \A g \in Files : stamps[g] = IF g = f THEN files[f] ELSE watch.stamps[g]
  BY <1>4 DEF Stamps
<1> HIDE DEF stamps
<1>7. /\ watch' \in Watch /\ watch'.at = watch.at /\ watch'.frozen = watch.frozen
      /\ watch'.before = watch.before /\ watch'.stamps = stamps
      /\ watch'.verified = watch.verified /\ watch'.seen = watch.seen
      /\ watch'.result = watch.result
  BY <1>2, <1>5 DEF IInv, Types, Watch
<1>8. Types' /\ NumberInv' /\ ShownIsTrue' BY <1>2, <1>7, MovesKeep
<1>9. stamps # None BY <1>5, NoneIsNoSnapshot
<1>10. HeldInv' BY <1>3, <1>7, <1>9 DEF IInv, HeldInv, Running
<1>11. TreeInv'
  <2>1. files' = files /\ edits' = edits BY <1>2 DEF Alone
  <2>2. ASSUME NEW g \in Files, watch.before # None, Stamped(watch.before[g]),
               watch.at = "after", stamps[g] = watch.before[g]
        PROVE  \A tree \in watch.seen : tree[g] = watch.before[g]
    BY <1>6, <2>2 DEF IInv, TreeInv
  <2>3. ASSUME NEW g \in Files, stamps[g] # None, Stamped(stamps[g])
        PROVE  stamps[g] <= edits
    <3>1. CASE g = f BY <1>6, <2>3, <3>1 DEF IInv, Types, Stamped
    <3>2. CASE g # f BY <1>3, <1>6, <2>3, <3>2 DEF IInv, TreeInv
    <3> QED BY <3>1, <3>2
  <2> QED BY <1>7, <2>1, <2>2, <2>3 DEF IInv, TreeInv
<1> QED BY <1>8, <1>10, <1>11 DEF IInv

LEMMA SnapshotBeforeKeeps ==
  ASSUME IInv, SnapshotBefore
  PROVE  IInv'
<1>1. watch' = [watch EXCEPT !.at = "verify", !.before = watch.stamps, !.stamps = None] /\ Alone
  BY ContinueAlone DEF SnapshotBefore
<1>2. /\ watch.at = "before" /\ watch.stamps # None /\ watch.verified = None
      /\ watch.seen = {} /\ watch.frozen # None
  BY DEF SnapshotBefore, Watching, IInv, HeldInv, Capturing, Checking, Running
<1>3. watch.stamps \in Snapshot
  BY <1>2 DEF SnapshotBefore, Captured, IInv, Types, Watch, Snapshot
<1>4. /\ watch' \in Watch /\ watch'.at = "verify" /\ watch'.frozen = watch.frozen
      /\ watch'.before = watch.stamps /\ watch'.stamps = None
      /\ watch'.verified = watch.verified /\ watch'.seen = watch.seen
      /\ watch'.result = watch.result
  BY <1>1, <1>3 DEF IInv, Types, Watch
<1>5. Types' /\ NumberInv' /\ ShownIsTrue' BY <1>1, <1>4, MovesKeep
<1>6. HeldInv' BY <1>2, <1>4 DEF HeldInv, Running, Capturing, Checking
<1>7. \A f \in Files : watch.stamps[f] # None BY <1>3 DEF Snapshot
<1>8. TreeInv' BY <1>1, <1>2, <1>4, <1>7 DEF IInv, TreeInv, Alone
<1> QED BY <1>5, <1>6, <1>8 DEF IInv

LEMMA ReadLockKeeps ==
  ASSUME IInv, ReadLock
  PROVE  IInv'
<1>1. CASE ~Authentic BY <1>1, ExitKeeps DEF ReadLock
<1>2. CASE Authentic
  <2>1. watch' = [watch EXCEPT !.at = "check", !.verified = lock.n] /\ Alone
    BY <1>2, ContinueAlone DEF ReadLock
  <2>2. lock.n \in Nat /\ lock.n <= written /\ Complete
    BY <1>2, AuthenticComplete DEF IInv, NumberInv
  <2>3. /\ watch' \in Watch /\ watch'.at = "check" /\ watch'.frozen = watch.frozen
        /\ watch'.before = watch.before /\ watch'.stamps = watch.stamps
        /\ watch'.verified = lock.n /\ watch'.seen = watch.seen
        /\ watch'.result = watch.result
    BY <2>1, <2>2 DEF IInv, Types, Watch
  <2>4. /\ watch.at = "verify" /\ watch.before # None /\ watch.stamps = None
        /\ watch.seen = {} /\ watch.frozen # None
    BY DEF ReadLock, Watching, IInv, HeldInv, Capturing, Checking, Running
  <2>5. lock.n # None BY <2>2, WatchAssumption
  <2>6. Types' BY <2>1, <2>3 DEF IInv, Types, Alone
  <2>7. HeldInv' BY <2>3, <2>4, <2>5 DEF HeldInv, Running, Capturing, Checking
  <2>8. NumberInv' BY <2>1, <2>2, <2>3, <2>4 DEF IInv, NumberInv, Complete, Alone
  <2>9. TreeInv' BY <2>1, <2>3, <2>4 DEF IInv, TreeInv, Alone
  <2>10. ShownIsTrue' BY <2>3 DEF IInv, ShownIsTrue
  <2> QED BY <2>6, <2>7, <2>8, <2>9, <2>10 DEF IInv
<1> QED BY <1>1, <1>2

(* A check sees every path as it is.                                       *)
LEMMA RunCheckKeeps ==
  ASSUME IInv, RunCheck
  PROVE  IInv'
<1>0. /\ watch.at = "check" /\ watch.before # None /\ watch.stamps = None
      /\ watch.verified # None /\ watch.frozen # None
  BY DEF RunCheck, Watching, IInv, HeldInv, Capturing, Checking, Running
<1>1. CASE Exit BY <1>1, ExitKeeps
<1>2. CASE Continue([watch EXCEPT !.seen = @ \cup {files}, !.checked = @ + 1])
  <2>1. /\ watch' = [watch EXCEPT !.seen = watch.seen \cup {files}, !.checked = watch.checked + 1]
        /\ Alone
    BY <1>2, ContinueAlone
  <2>2. /\ watch' \in Watch /\ watch'.at = watch.at /\ watch'.frozen = watch.frozen
        /\ watch'.before = watch.before /\ watch'.stamps = watch.stamps
        /\ watch'.verified = watch.verified /\ watch'.seen = watch.seen \cup {files}
        /\ watch'.result = watch.result
    <3>1. watch.seen \cup {files} \in SUBSET Tree /\ watch.checked + 1 \in Nat
      <4>1. watch.seen \in SUBSET Tree /\ watch.checked \in Nat BY DEF IInv, Types, Watch
      <4>2. files \in Tree BY DEF IInv, Types
      <4> QED BY <4>1, <4>2
    <3>2. ASSUME NEW seen \in SUBSET Tree, NEW checked \in Nat,
                 watch' = [watch EXCEPT !.seen = seen, !.checked = checked]
          PROVE  /\ watch' \in Watch /\ watch'.at = watch.at /\ watch'.frozen = watch.frozen
                 /\ watch'.before = watch.before /\ watch'.stamps = watch.stamps
                 /\ watch'.verified = watch.verified /\ watch'.seen = seen
                 /\ watch'.result = watch.result
      BY <3>2 DEF IInv, Types, Watch
    <3> QED BY <2>1, <3>1, <3>2
  <2>3. Types' /\ NumberInv' /\ ShownIsTrue' BY <2>1, <2>2, MovesKeep
  <2>4. HeldInv' BY <1>0, <2>2 DEF HeldInv, Running, Capturing, Checking
  <2>5. TreeInv' BY <1>0, <2>1, <2>2 DEF IInv, TreeInv, Alone
  <2> QED BY <2>3, <2>4, <2>5 DEF IInv
<1>3. CASE Continue([watch EXCEPT !.at = "verified"])
  <2>1. watch' = [watch EXCEPT !.at = "verified"] /\ Alone BY <1>3, ContinueAlone
  <2>2. /\ watch' \in Watch /\ watch'.at = "verified" /\ watch'.frozen = watch.frozen
        /\ watch'.before = watch.before /\ watch'.stamps = watch.stamps
        /\ watch'.verified = watch.verified /\ watch'.seen = watch.seen
        /\ watch'.result = watch.result
    BY <2>1 DEF IInv, Types, Watch
  <2>3. Types' /\ NumberInv' /\ ShownIsTrue' BY <2>1, <2>2, MovesKeep
  <2>4. HeldInv' BY <1>0, <2>2 DEF HeldInv, Running, Capturing, Checking
  <2>5. TreeInv' BY <1>0, <2>1, <2>2 DEF IInv, TreeInv, Alone
  <2> QED BY <2>3, <2>4, <2>5 DEF IInv
<1> QED BY <1>1, <1>2, <1>3 DEF RunCheck

(* The end of a cycle: what is shown, if anything is, is stable.           *)
LEMMA Concludes ==
  ASSUME IInv, Watching("after"), Captured, Alone, watch' \in Watch,
         \/ Stable /\ watch'.result = Show
         \/ watch'.result \in {Incomplete, watch.result},
         watch'.at = "sleep", watch'.frozen = watch.frozen, watch'.before = None,
         watch'.stamps = None, watch'.verified = None, watch'.seen = {}
  PROVE  IInv'
<1>1. /\ watch.stamps # None /\ watch.before # None
      /\ watch.verified = watch.frozen /\ watch.frozen # None
  BY DEF Watching, IInv, HeldInv, Capturing, Checking, Running
<1>2. Types' BY DEF IInv, Types, Alone
<1>3. HeldInv' BY <1>1 DEF HeldInv, Running, Capturing, Checking
<1>4. NumberInv' BY DEF IInv, NumberInv, Complete, Alone
<1>5. TreeInv' BY DEF TreeInv
<1>6. ShownIsTrue'
  <2>1. CASE Stable /\ watch'.result = Show
    <3>1. Show.snapshot = watch.stamps /\ Show.lock = watch.verified /\ Show.seen = watch.seen
      BY DEF Show
    <3>2. ASSUME NEW tree \in watch.seen, NEW f \in Files, Stamped(watch.stamps[f])
          PROVE  tree[f] = watch.stamps[f]
      BY <1>1, <2>1, <3>2 DEF Stable, IInv, TreeInv, Watching
    <3> QED BY <1>1, <2>1, <3>1, <3>2 DEF ShownIsTrue, Stamped
  <2>2. CASE watch'.result = Incomplete BY <2>2 DEF ShownIsTrue
  <2>3. CASE watch'.result = watch.result BY <2>3 DEF IInv, ShownIsTrue
  <2> QED BY <2>1, <2>2, <2>3
<1> QED BY <1>2, <1>3, <1>4, <1>5, <1>6 DEF IInv

LEMMA ConcludeCycleKeeps ==
  ASSUME IInv, ConcludeCycle
  PROVE  IInv'
<1>1. /\ Watching("after") /\ Captured /\ watch.stamps # None /\ watch.verified # None
  BY DEF ConcludeCycle, Watching, IInv, HeldInv, Capturing, Checking
<1>2. watch.stamps \in Snapshot /\ watch.verified \in Nat /\ watch.seen \in SUBSET Tree
  BY <1>1 DEF Captured, IInv, Types, Watch, Snapshot
<1>3. Show \in Result BY <1>2 DEF Show, Result
<1>4. /\ AfterCycle \in Watch /\ AfterCycle.at = "sleep" /\ AfterCycle.frozen = watch.frozen
      /\ AfterCycle.before = None /\ AfterCycle.stamps = None
      /\ AfterCycle.verified = None /\ AfterCycle.seen = {} /\ AfterCycle.result = watch.result
  BY <1>2 DEF AfterCycle, IInv, Types, Watch
<1>5. ASSUME NEW w \in Watch, NEW result \in Result \cup {None, Incomplete},
             watch' = [w EXCEPT !.result = result,
                         !.pending = FALSE, !.age = 0, !.unstable_cycles = 0]
      PROVE  /\ watch' \in Watch /\ watch'.at = w.at /\ watch'.frozen = w.frozen
             /\ watch'.before = w.before /\ watch'.stamps = w.stamps
             /\ watch'.verified = w.verified /\ watch'.seen = w.seen
             /\ watch'.result = result
  BY <1>5 DEF Watch
<1>6. ASSUME NEW w \in Watch,
             watch' = [w EXCEPT !.pending = TRUE, !.age = 0, !.unstable_cycles = @ + 1]
      PROVE  /\ watch' \in Watch /\ watch'.at = w.at /\ watch'.frozen = w.frozen
             /\ watch'.before = w.before /\ watch'.stamps = w.stamps
             /\ watch'.verified = w.verified /\ watch'.seen = w.seen
             /\ watch'.result = w.result
  <2>0. w.unstable_cycles \in Nat BY DEF Watch
  <2>1. w.unstable_cycles + 1 \in Nat BY <2>0
  <2>2. ASSUME NEW count \in Nat,
               watch' = [w EXCEPT !.pending = TRUE, !.age = 0, !.unstable_cycles = count]
        PROVE  /\ watch' \in Watch /\ watch'.at = w.at /\ watch'.frozen = w.frozen
               /\ watch'.before = w.before /\ watch'.stamps = w.stamps
               /\ watch'.verified = w.verified /\ watch'.seen = w.seen
               /\ watch'.result = w.result
    BY <2>2 DEF Watch
  <2> QED BY <1>6, <2>1, <2>2
<1>7. CASE /\ Stable
           /\ Continue([AfterCycle EXCEPT !.result = Show,
                          !.pending = FALSE, !.age = 0, !.unstable_cycles = 0])
  <2>1. /\ Alone
        /\ watch' = [AfterCycle EXCEPT !.result = Show,
                       !.pending = FALSE, !.age = 0, !.unstable_cycles = 0]
    BY <1>7, ContinueAlone
  <2> QED BY <1>1, <1>3, <1>4, <1>5, <1>7, <2>1, Concludes
<1>8. CASE Continue([AfterCycle EXCEPT !.result = Incomplete,
                       !.pending = FALSE, !.age = 0, !.unstable_cycles = 0])
  <2>1. /\ Alone
        /\ watch' = [AfterCycle EXCEPT !.result = Incomplete,
                       !.pending = FALSE, !.age = 0, !.unstable_cycles = 0]
    BY <1>8, ContinueAlone
  <2> QED BY <1>1, <1>4, <1>5, <2>1, Concludes
<1>9. CASE Continue([AfterCycle EXCEPT !.pending = TRUE, !.age = 0, !.unstable_cycles = @ + 1])
  <2>1. /\ Alone
        /\ watch' = [AfterCycle EXCEPT !.pending = TRUE, !.age = 0, !.unstable_cycles = @ + 1]
    BY <1>9, ContinueAlone
  <2> QED BY <1>1, <1>4, <1>6, <2>1, Concludes
<1> QED BY <1>7, <1>8, <1>9 DEF ConcludeCycle

(* A poll that settles, or does not.                                       *)
LEMMA CompareKeeps ==
  ASSUME IInv, Compare
  PROVE  IInv'
<1>1. /\ watch.at = "current" /\ watch.stamps # None /\ watch.before = None
      /\ watch.verified = None /\ watch.seen = {} /\ watch.frozen # None
  BY DEF Compare, Watching, IInv, HeldInv, Capturing, Checking, Running
<1>2. watch.stamps \in Snapshot
  BY <1>1 DEF Compare, Captured, IInv, Types, Watch, Snapshot
<1>3. /\ watch' \in Watch /\ watch'.at \in {"sleep", "control"} /\ watch'.frozen = watch.frozen
      /\ watch'.before = watch.before /\ watch'.stamps = None
      /\ watch'.verified = watch.verified /\ watch'.seen = watch.seen
      /\ watch'.result = watch.result
      /\ Alone
  <2>1. CASE Continue([watch EXCEPT !.at = "sleep", !.stamps = None,
                         !.observed = watch.stamps, !.pending = TRUE, !.age = 0])
    <3>1. /\ Alone
          /\ watch' = [watch EXCEPT !.at = "sleep", !.stamps = None,
                         !.observed = watch.stamps, !.pending = TRUE, !.age = 0]
      BY <2>1, ContinueAlone
    <3> QED BY <1>2, <3>1 DEF IInv, Types, Watch
  <2>2. CASE Continue([watch EXCEPT !.at = "sleep", !.stamps = None])
    <3>1. Alone /\ watch' = [watch EXCEPT !.at = "sleep", !.stamps = None]
      BY <2>2, ContinueAlone
    <3> QED BY <3>1 DEF IInv, Types, Watch
  <2>3. CASE \E age \in Later :
               Continue([watch EXCEPT !.stamps = None, !.age = age,
                           !.at = IF age < SettlePolls THEN "sleep" ELSE "control"])
    <3>1. PICK age \in Later :
            Continue([watch EXCEPT !.stamps = None, !.age = age,
                        !.at = IF age < SettlePolls THEN "sleep" ELSE "control"])
      BY <2>3
    <3>2. /\ Alone
          /\ watch' = [watch EXCEPT !.stamps = None, !.age = age,
                         !.at = IF age < SettlePolls THEN "sleep" ELSE "control"]
      BY <3>1, ContinueAlone
    <3>3. watch.age \in Nat BY DEF IInv, Types, Watch
    <3>4. age \in Nat BY <3>3, WatchAssumption DEF Later
    <3>5. ASSUME NEW point \in {"sleep", "control"},
                 watch' = [watch EXCEPT !.stamps = None, !.age = age, !.at = point]
          PROVE  /\ watch' \in Watch /\ watch'.at = point /\ watch'.frozen = watch.frozen
                 /\ watch'.before = watch.before /\ watch'.stamps = None
                 /\ watch'.verified = watch.verified /\ watch'.seen = watch.seen
                 /\ watch'.result = watch.result
      BY <3>4, <3>5 DEF IInv, Types, Watch
    <3> QED BY <3>2, <3>5
  <2> QED BY <2>1, <2>2, <2>3 DEF Compare
<1>4. Types' /\ NumberInv' /\ ShownIsTrue' BY <1>3, MovesKeep
<1>5. HeldInv' BY <1>1, <1>3 DEF HeldInv, Running, Capturing, Checking
<1>6. TreeInv' BY <1>1, <1>3 DEF TreeInv
<1> QED BY <1>4, <1>5, <1>6 DEF IInv

-----------------------------------------------------------------------------
(* The theorem.                                                            *)

LEMMA NextKeeps ==
  ASSUME IInv, [WatchNext]_watchVars
  PROVE  IInv'
<1>1. CASE UNCHANGED watchVars
  BY ZenonT(40), <1>1 DEF watchVars, vars, disk, IInv, Types, HeldInv, NumberInv, TreeInv, ShownIsTrue,
              Running, Complete
<1>2. CASE SessionNext /\ UNCHANGED <<project, watch>> BY <1>2, SessionsKeep
<1>3. CASE SnapshotFails \/ InterruptWatch
  BY <1>3, ExitKeeps DEF SnapshotFails, InterruptWatch
<1>4. CASE AssertBefore
  BY <1>4, DiscoverKeeps DEF AssertBefore, Watching
<1>5. CASE Poll
  BY <1>5, DiscoverKeeps DEF Poll, Watching
<1>6. CASE WatchStep
  BY <1>4, <1>5, <1>6, AssertAfterKeeps, StampFileKeeps, SnapshotBeforeKeeps, ReadLockKeeps,
     RunCheckKeeps, ConcludeCycleKeeps, CompareKeeps
  DEF WatchStep
<1> QED BY <1>1, <1>2, <1>3, <1>6, StartWatchKeeps, EditKeeps DEF WatchNext

LEMMA InitHolds == WatchInit => IInv
<1> SUFFICES ASSUME WatchInit PROVE IInv OBVIOUS
<1>1. watch \in Watch BY DEF WatchInit, NotStarted, Watch
<1>2. /\ watch.at = "not started" /\ watch.frozen = None /\ watch.before = None
      /\ watch.stamps = None /\ watch.verified = None /\ watch.seen = {} /\ watch.result = None
  BY DEF WatchInit, NotStarted
<1>3. written \in Nat /\ lock = None BY DEF WatchInit, Init
<1>4. files \in Tree /\ edits \in 0..MaxEdits /\ \A f \in Files : files[f] <= edits
  BY WatchAssumption DEF WatchInit, Tree
<1>5. Types BY <1>1, <1>3, <1>4 DEF Types
<1>6. HeldInv BY <1>2 DEF HeldInv, Running, Capturing, Checking
<1>7. NumberInv BY <1>2, <1>3 DEF NumberInv, Complete
<1>8. TreeInv BY <1>2 DEF TreeInv
<1>9. ShownIsTrue BY <1>2 DEF ShownIsTrue
<1> QED BY <1>5, <1>6, <1>7, <1>8, <1>9 DEF IInv

(* For every number of terminals, commands, files, edits and checks, what  *)
(* is shown as the project's result is of the lock the session started     *)
(* under, and every check it rests on saw the tree it is shown for.        *)
THEOREM WhatIsShownIsTrue == WatchSpec => []ShownIsTrue
<1>1. IInv => ShownIsTrue BY DEF IInv
<1> QED BY <1>1, InitHolds, NextKeeps, PTL DEF WatchSpec
=============================================================================
