------------------------- MODULE ReleaseMonitorProofs -------------------------
(***************************************************************************)
(* Proofs that the monitor's state file can be trusted although nothing    *)
(* serialises monitors with each other or with `qualock baseline': locks   *)
(* are seen in the order in which they were written, so that a             *)
(* qualification recorded under the present lock was measured against it.  *)
(***************************************************************************)
EXTENDS ReleaseMonitor, TLAPS

Points == {"idle", "discover", "load", "check", "checking", "save"}

Frame == [at : Points, force : BOOLEAN, context : Lock \cup {None},
          candidate : Version \cup {None}, recorded : Version \cup {None},
          measured : Lock \cup {None}, verdict : Verdicts \cup {None}]

Loaded == state_file \notin {None, Corrupt}

Types ==
  /\ lock \in Lock \cup {Torn}
  /\ written \in 1..MaxLocks /\ (lock = Torn => written < MaxLocks)
  /\ latest \in Version
  /\ Loaded => state_file \in MonitorState
  /\ frame \in [Monitors -> Frame]

(* A lock that was read is not newer than the newest, and if it is that    *)
(* one, it is the one on disk.                                             *)
Known(l) ==
  /\ l \in Lock /\ l.id <= written
  /\ l.id = written /\ lock # Torn => l = lock

(* What a monitor holds at each point: it read the lock for its context    *)
(* before the one it measured against, and does not go back behind the     *)
(* release that it found recorded.                                         *)
Holding(f) ==
  /\ f.at # "idle" => Known(f.context)
  /\ f.at \in {"load", "check", "checking", "save"} => f.candidate \in Version
  /\ f.at \in {"check", "checking", "save"} /\ f.recorded # None =>
       f.recorded <= f.candidate
  /\ f.at \in {"checking", "save"} =>
       Known(f.measured) /\ f.context.id <= f.measured.id
  /\ f.at = "save" => f.verdict \in TerminalVerdict

Records ==
  Loaded =>
    /\ Known(state_file.baseline) /\ Known(state_file.qualification.baseline)
    /\ state_file.baseline.id <= state_file.qualification.baseline.id
    /\ state_file.qualification.candidate = state_file.candidate
    /\ state_file.qualification.verdict = state_file.verdict

IInv ==
  /\ Types
  /\ lock # Torn => lock.id = written
  /\ \A m \in Monitors : Holding(frame[m])
  /\ Records

-----------------------------------------------------------------------------
USE MonitorAssumption, MarkersAssumption

LEMMA InitInv == ASSUME Init PROVE IInv
<1>1. Idle \in Frame /\ Idle.at = "idle"
  BY DEF Idle, Frame, Points
<1>2. Types /\ (lock # Torn => lock.id = written)
  BY <1>1 DEF Init, Types, Lock, Loaded
<1>3. \A m \in Monitors : Holding(frame[m])
  BY <1>1 DEF Init, Holding
<1>4. Records
  BY DEF Init, Records, Loaded
<1> QED BY <1>2, <1>3, <1>4 DEF IInv

(* A monitor goes on, and touches nothing else.                            *)
LEMMA FrameStep ==
  ASSUME IInv, NEW m \in Monitors, NEW f \in Frame, Holding(f),
         frame' = [frame EXCEPT ![m] = f], UNCHANGED <<project, state_file>>
  PROVE  IInv'
<1>1. Types' /\ (lock # Torn => lock.id = written)'
  BY DEF IInv, Types, Loaded, project
<1>2. ASSUME NEW k \in Monitors PROVE Holding(frame'[k])
  BY DEF IInv, Types
<1>3. \A l : Known(l)' <=> Known(l)
  BY DEF Known, project
<1>4. \A k \in Monitors : Holding(frame[k])'
  BY <1>2, <1>3 DEF Holding
<1>5. Records'
  BY <1>3 DEF IInv, Records, Loaded
<1> QED BY <1>1, <1>4, <1>5 DEF IInv

LEMMA IdleHolds == Idle \in Frame /\ Holding(Idle)
BY DEF Idle, Frame, Points, Holding

LEMMA DoneInv ==
  ASSUME IInv, NEW m \in Monitors, Done(m), UNCHANGED <<project, state_file>>
  PROVE  IInv'
BY IdleHolds, FrameStep DEF Done

(* The lock on disk is known.                                              *)
LEMMA LockKnown == ASSUME IInv, lock # Torn PROVE Known(lock)
BY DEF IInv, Types, Known, Lock

LEMMA PreflightInv == ASSUME IInv, NEW m \in Monitors, Preflight(m) PROVE IInv'
<1>1. CASE Done(m)
  BY <1>1, DoneInv DEF Preflight
<1>2. CASE lock # Torn /\ \E force \in BOOLEAN : frame' = [frame EXCEPT ![m] =
               [Idle EXCEPT !.at = "discover", !.force = force, !.context = lock]]
  <2>1. PICK force \in BOOLEAN : frame' = [frame EXCEPT ![m] =
          [at |-> "discover", force |-> force, context |-> lock, candidate |-> None,
           recorded |-> None, measured |-> None, verdict |-> None]]
    BY <1>2 DEF Idle
  <2> DEFINE f == [at |-> "discover", force |-> force, context |-> lock, candidate |-> None,
                   recorded |-> None, measured |-> None, verdict |-> None]
  <2>2. f \in Frame /\ Holding(f)
    BY <1>2, LockKnown DEF Frame, Points, Holding, Known
  <2> QED BY <2>1, <2>2, FrameStep DEF Preflight
<1> QED BY <1>1, <1>2 DEF Preflight

LEMMA DiscoverInv == ASSUME IInv, NEW m \in Monitors, Discover(m) PROVE IInv'
<1>1. CASE Done(m)
  BY <1>1, DoneInv DEF Discover
<1>2. CASE frame' = [frame EXCEPT ![m].at = "load", ![m].candidate = latest]
  <2> DEFINE f == [frame[m] EXCEPT !.at = "load", !.candidate = latest]
  <2>1. frame[m] \in Frame /\ frame[m].at = "discover" /\ latest \in Version
        /\ Known(frame[m].context)
    BY DEF Discover, At, IInv, Types, Holding
  <2>2. f \in Frame /\ f.at = "load" /\ f.context = frame[m].context /\ f.candidate = latest
    BY <2>1 DEF Frame, Points
  <2>3. Holding(f)
    BY <2>1, <2>2 DEF Holding
  <2>4. frame' = [frame EXCEPT ![m] = f]
    BY <1>2, <2>1 DEF IInv, Types, Frame
  <2> HIDE DEF f
  <2> QED BY <2>2, <2>3, <2>4, FrameStep DEF Discover
<1> QED BY <1>1, <1>2 DEF Discover

(* What a monitor finds recorded, and goes on from, is no newer than what  *)
(* it qualifies.                                                           *)
LEMMA LoadInv == ASSUME IInv, NEW m \in Monitors, LoadState(m) PROVE IInv'
<1>1. CASE Done(m)
  BY <1>1, DoneInv DEF LoadState
<1>2. CASE ~Done(m)
  <2> DEFINE recorded == IF Matching(m, state_file) THEN state_file.candidate ELSE None
             f == [frame[m] EXCEPT !.at = "check", !.force = FALSE, !.recorded = recorded]
  <2>1. /\ frame[m] \in Frame /\ frame[m].at = "load"
        /\ Known(frame[m].context) /\ frame[m].candidate \in Version
    BY DEF LoadState, At, IInv, Types, Holding
  <2>2. /\ ~IsDowngrade(m, state_file)
        /\ frame' = [frame EXCEPT ![m] = f]
    BY <1>2 DEF LoadState
  <2>3. recorded \in Version \cup {None} /\ (recorded # None => recorded <= frame[m].candidate)
    BY <2>1, <2>2 DEF Matching, IsDowngrade, IInv, Types, Loaded, MonitorState, Version
  <2>4. f \in Frame /\ f.at = "check" /\ f.context = frame[m].context
        /\ f.candidate = frame[m].candidate /\ f.recorded = recorded
    BY <2>1, <2>3 DEF Frame, Points
  <2>5. Holding(f)
    BY <2>1, <2>3, <2>4 DEF Holding
  <2> HIDE DEF f
  <2> QED BY <2>2, <2>4, <2>5, FrameStep DEF LoadState
<1> QED BY <1>1, <1>2

(* The lock that a check reads is at least as new as the one that the      *)
(* preflight read.                                                         *)
LEMMA StartInv == ASSUME IInv, NEW m \in Monitors, StartCheck(m) PROVE IInv'
<1>1. CASE Done(m)
  BY <1>1, DoneInv DEF StartCheck
<1>2. CASE lock # Torn /\ frame' = [frame EXCEPT ![m].at = "checking", ![m].measured = lock]
  <2> DEFINE f == [frame[m] EXCEPT !.at = "checking", !.measured = lock]
  <2>1. /\ frame[m] \in Frame /\ frame[m].at = "check" /\ Holding(frame[m])
        /\ Known(lock) /\ lock.id = written
    BY <1>2, LockKnown DEF StartCheck, At, IInv, Types
  <2>2. frame' = [frame EXCEPT ![m] = f]
    BY <1>2, <2>1 DEF IInv, Types, Frame
  <2>3. /\ f \in Frame /\ f.at = "checking" /\ f.context = frame[m].context
        /\ f.candidate = frame[m].candidate /\ f.recorded = frame[m].recorded
        /\ f.measured = lock
    BY <2>1 DEF Frame, Points, Known
  <2>4. Holding(f)
    BY <2>1, <2>3 DEF Holding, Known
  <2> HIDE DEF f
  <2> QED BY <2>2, <2>3, <2>4, FrameStep DEF StartCheck
<1> QED BY <1>1, <1>2 DEF StartCheck

LEMMA FinishInv ==
  ASSUME IInv, NEW m \in Monitors, NEW verdict \in CheckVerdicts, FinishCheck(m, verdict)
  PROVE  IInv'
<1>1. CASE Done(m)
  BY <1>1, DoneInv DEF FinishCheck
<1>2. CASE Terminal(verdict) /\ frame' = [frame EXCEPT ![m].at = "save", ![m].verdict = verdict]
  <2> DEFINE f == [frame[m] EXCEPT !.at = "save", !.verdict = verdict]
  <2>1. /\ frame[m] \in Frame /\ frame[m].at = "checking" /\ Holding(frame[m])
        /\ verdict \in TerminalVerdict
    BY <1>2 DEF FinishCheck, Terminal, At, IInv, Types
  <2>2. frame' = [frame EXCEPT ![m] = f]
    BY <1>2, <2>1 DEF IInv, Types, Frame
  <2>3. /\ f \in Frame /\ f.at = "save" /\ f.context = frame[m].context
        /\ f.candidate = frame[m].candidate /\ f.recorded = frame[m].recorded
        /\ f.measured = frame[m].measured /\ f.verdict = verdict
    BY <2>1 DEF Frame, Points, TerminalVerdict
  <2>4. Holding(f)
    BY <2>1, <2>3 DEF Holding
  <2> HIDE DEF f
  <2> QED BY <2>2, <2>3, <2>4, FrameStep DEF FinishCheck
<1> QED BY <1>1, <1>2 DEF FinishCheck

LEMMA SaveInv == ASSUME IInv, NEW m \in Monitors, SaveState(m) PROVE IInv'
<1>1. /\ frame[m] \in Frame /\ frame[m].at = "save" /\ Holding(frame[m])
      /\ state_file' = NewState(m) /\ frame' = [frame EXCEPT ![m] = Idle]
      /\ UNCHANGED project
  BY DEF SaveState, At, Done, IInv, Types
<1>2. /\ Known(frame[m].context) /\ Known(frame[m].measured)
      /\ frame[m].candidate \in Version /\ frame[m].verdict \in TerminalVerdict
      /\ frame[m].context.id <= frame[m].measured.id
  BY <1>1 DEF Holding
<1>3. NewState(m) \in MonitorState
  BY <1>2 DEF NewState, MonitorState, Qualification, Known, TerminalVerdict
<1>4. \A l : Known(l)' <=> Known(l)
  BY <1>1 DEF Known, project
<1>5. Types' /\ (lock # Torn => lock.id = written)'
  BY <1>1, <1>3, IdleHolds DEF IInv, Types, Loaded, project
<1>6. ASSUME NEW k \in Monitors PROVE Holding(frame'[k])
  BY <1>1, IdleHolds DEF IInv, Types
<1>7. \A k \in Monitors : Holding(frame[k])'
  BY <1>4, <1>6 DEF Holding
<1>8. Records'
  BY <1>1, <1>2, <1>4 DEF Records, NewState
<1> QED BY <1>5, <1>7, <1>8 DEF IInv

-----------------------------------------------------------------------------
(* Other processes.                                                        *)

(* A change to the lock after which what was known still is.               *)
LEMMA LockStep ==
  ASSUME IInv, Types', (lock # Torn => lock.id = written)',
         \A l : Known(l) => Known(l)', UNCHANGED <<state_file, frame>>
  PROVE  IInv'
<1>1. \A k \in Monitors : Holding(frame[k])'
  BY DEF IInv, Holding
<1>2. Records'
  BY DEF IInv, Records, Loaded
<1> QED BY <1>1, <1>2 DEF IInv

LEMMA TruncateInv == ASSUME IInv, TruncateLock PROVE IInv'
<1>1. Types' /\ (lock # Torn => lock.id = written)'
  BY DEF IInv, Types, Loaded, TruncateLock
<1>2. \A l : Known(l) => Known(l)'
  BY DEF Known, TruncateLock
<1> QED BY <1>1, <1>2, LockStep DEF TruncateLock

LEMMA WriteInv == ASSUME IInv, WriteLock PROVE IInv'
<1>1. PICK v \in Version : lock' = [version |-> v, id |-> written + 1]
  BY DEF WriteLock
<1>2. written < MaxLocks /\ written \in Nat /\ written' = written + 1
  BY DEF WriteLock, IInv, Types
<1>3. lock' \in Lock /\ lock'.id = written'
  BY <1>1, <1>2 DEF Lock
<1>4. Types' /\ (lock # Torn => lock.id = written)'
  BY <1>2, <1>3 DEF IInv, Types, Loaded, WriteLock
<1>5. \A l : Known(l) => Known(l)'
  BY <1>2 DEF Known, Lock
<1> QED BY <1>4, <1>5, LockStep DEF WriteLock

LEMMA OthersInv == ASSUME IInv, EditSuite \/ Publish PROVE IInv'
<1>1. Types' /\ (lock # Torn => lock.id = written)'
  BY DEF IInv, Types, Loaded, EditSuite, Publish
<1>2. \A l : Known(l) => Known(l)'
  BY DEF Known, EditSuite, Publish
<1> QED BY <1>1, <1>2, LockStep DEF EditSuite, Publish

LEMMA LoseInv == ASSUME IInv, LoseState PROVE IInv'
<1>1. UNCHANGED <<project, frame>> /\ ~Loaded'
  BY DEF LoseState, Loaded
<1>2. \A l : Known(l)' <=> Known(l)
  BY <1>1 DEF Known, project
<1>3. Types' /\ (lock # Torn => lock.id = written)' /\ Records'
  BY <1>1 DEF IInv, Types, Records, project
<1>4. \A k \in Monitors : Holding(frame[k])'
  BY <1>1, <1>2 DEF IInv, Holding
<1> QED BY <1>3, <1>4 DEF IInv

LEMMA NextInv == ASSUME IInv, [Next]_vars PROVE IInv'
<1>1. ASSUME NEW m \in Monitors, Preflight(m) PROVE IInv' BY <1>1, PreflightInv
<1>2. ASSUME NEW m \in Monitors, Returns(m) PROVE IInv'
  <2>1. CASE Discover(m) BY <2>1, DiscoverInv
  <2>2. CASE LoadState(m) BY <2>2, LoadInv
  <2>3. CASE StartCheck(m) BY <2>3, StartInv
  <2>4. CASE \E verdict \in CheckVerdicts : FinishCheck(m, verdict) BY <2>4, FinishInv
  <2>5. CASE CheckRaises(m) BY <2>5, DoneInv DEF CheckRaises
  <2>6. CASE SaveState(m) BY <2>6, SaveInv
  <2>7. CASE SaveFails(m) BY <2>7, DoneInv DEF SaveFails
  <2> QED BY <1>2, <2>1, <2>2, <2>3, <2>4, <2>5, <2>6, <2>7 DEF Returns
<1>3. CASE TruncateLock BY <1>3, TruncateInv
<1>4. CASE WriteLock BY <1>4, WriteInv
<1>5. CASE EditSuite \/ Publish BY <1>5, OthersInv
<1>6. CASE LoseState BY <1>6, LoseInv
<1>7. CASE UNCHANGED vars
  <2>1. \A l : Known(l) => Known(l)'
    BY <1>7 DEF Known, vars, project
  <2>2. Types' /\ (lock # Torn => lock.id = written)'
    BY <1>7 DEF IInv, Types, Loaded, vars, project
  <2> QED BY <1>7, <2>1, <2>2, LockStep DEF vars
<1> QED BY <1>1, <1>2, <1>3, <1>4, <1>5, <1>6, <1>7 DEF Next

(* The inductive invariant: locks are seen in the order in which they were *)
(* written, by each monitor and by what the state file records             *)
(* (commands.py:76-163).                                                   *)
THEOREM SeenInOrder == Spec => []IInv
<1>1. Init => IInv BY InitInv
<1>2. IInv /\ [Next]_vars => IInv' BY NextInv
<1> QED BY <1>1, <1>2, PTL DEF Spec

-----------------------------------------------------------------------------
LEMMA RecordedIsMeasured ==
  ASSUME IInv, NEW m \in Monitors, At(m, "load"), AlreadyQualified(m, state_file),
         frame[m].context = lock
  PROVE  state_file.qualification =
           [baseline |-> lock, candidate |-> frame[m].candidate,
            verdict |-> state_file.verdict]
<1>1. /\ Loaded /\ state_file \in MonitorState
      /\ state_file.baseline = lock /\ state_file.candidate = frame[m].candidate
  BY DEF AlreadyQualified, Matching, Loaded, IInv, Types
<1>2. lock \in Lock /\ lock # Torn /\ lock.id = written
  BY DEF IInv, Types, Holding, Known, At
<1>3. state_file.qualification.baseline = lock
  BY <1>1, <1>2 DEF IInv, Records, Known, Lock
<1>4. state_file.qualification \in Qualification
  BY <1>1 DEF MonitorState
<1> QED BY <1>1, <1>3, <1>4 DEF IInv, Records, Qualification

(* A release that a monitor reports as already qualified was qualified     *)
(* against the baseline there is, for every number of monitors, releases   *)
(* and baselines (commands.py:82-102, 116-124).                            *)
THEOREM ReusedIsEarned == Spec => ReuseIsEarned
<1>1. IInv /\ [Next]_vars =>
        [\A m \in Monitors :
           At(m, "load") /\ AlreadyQualified(m, state_file) /\ frame[m].context = lock
           /\ frame'[m].at = "idle" =>
             state_file.qualification =
               [baseline |-> lock, candidate |-> frame[m].candidate,
                verdict |-> state_file.verdict]]_vars
  BY RecordedIsMeasured
<1> QED BY <1>1, SeenInOrder, PTL DEF Spec, ReuseIsEarned

LEMMA NoRegressByOne ==
  ASSUME IInv, [Next]_vars, NEW m \in Monitors,
         At(m, "save"), ~At(m, "save")', state_file' # state_file,
         state_file \notin {None, Corrupt}, state_file' \notin {None, Corrupt},
         state_file'.baseline = state_file.baseline,
         state_file'.candidate < state_file.candidate
  PROVE  frame[m].recorded # state_file.candidate
<1>1. SaveState(m)
  <2>1. ASSUME NEW k \in Monitors, SaveState(k) PROVE k = m
    BY <2>1 DEF SaveState, Done, At, IInv, Types
  <2> QED BY <2>1 DEF Next, Returns, Preflight, Discover, LoadState, StartCheck, FinishCheck,
            CheckRaises, SaveFails, TruncateLock, WriteLock, EditSuite, Publish, LoseState,
            vars, project
<1>2. state_file'.candidate = frame[m].candidate
  BY <1>1 DEF SaveState, NewState
<1>3. /\ state_file.candidate \in Version /\ frame[m].candidate \in Version
      /\ frame[m].recorded # None => frame[m].recorded <= frame[m].candidate
      /\ frame[m].recorded \in Version \cup {None}
  BY DEF IInv, Types, Loaded, MonitorState, Holding, At, Frame
<1> QED BY <1>2, <1>3 DEF Version

(* The record goes back to an older release only if another monitor had    *)
(* recorded the newer one meanwhile, for every number of monitors          *)
(* (commands.py:103-111).                                                  *)
THEOREM RegressesOnlyByOverlap == Spec => RecordRegressesOnlyByOverlap
<1>1. IInv /\ [Next]_vars =>
        [\A m \in Monitors :
           /\ At(m, "save") /\ ~At(m, "save")' /\ state_file' # state_file
           /\ state_file \notin {None, Corrupt} /\ state_file' \notin {None, Corrupt}
           /\ state_file'.baseline = state_file.baseline
           /\ state_file'.candidate < state_file.candidate
           => frame[m].recorded # state_file.candidate]_vars
  BY NoRegressByOne
<1> QED BY <1>1, SeenInOrder, PTL DEF Spec, RecordRegressesOnlyByOverlap
=============================================================================
