---------------------------- MODULE VersionBisect ----------------------------
(***************************************************************************)
(* `qualock bisect': execute_bisect (version_bisect/commands.py) and the   *)
(* summary file it keeps (version_bisect/storage.py).  The releases after  *)
(* the baseline are checked oldest first; the summary is replaced after    *)
(* each check, so that a scan that is interrupted, or whose check or save  *)
(* raises, leaves its progress behind.                                     *)
(*                                                                         *)
(* Releases are numbered in version order.  Checking one is the module     *)
(* Qualification; here it returns a verdict or raises.                     *)
(***************************************************************************)
EXTENDS Naturals, Sequences, SequencesExt, FiniteSets, QualificationPolicy

CONSTANTS MaxVersion,  \* releases are 1..MaxVersion
          None

ASSUME BisectAssumption == MaxVersion \in Nat \ {0}

Version == 1..MaxVersion
BisectStop == {"NO_BAD_FOUND", "FIRST_BAD_FOUND", "WARN_UNRESOLVED", "INCOMPLETE"}
BisectStep == [version : Version, verdict : Verdicts]
BisectSummary ==
  [candidates : Seq(Version), steps : Seq(BisectStep), last_known_good : Version,
   first_bad : Version \cup {None}, stop_reason : BisectStop \cup {None}]

(* None is none of these.                                                  *)
ASSUME NoneAssumption ==
  None \notin Version /\ None \notin BisectStop /\ None \notin BisectSummary

VARIABLES
  baseline,    \* the version preflight read from the lock
  upper,       \* the upper bound the user gave
  catalog,     \* the stable releases npm knows, frozen when the scan starts
  at,          \* "start", then "check" and "save" for each release, "last_save",
               \* "returned"; "raised" when it did not return
  steps, last_known_good, first_bad, stop_reason,  \* the scan's variables
  summary      \* summary.json, or None before it is created

request == <<baseline, upper, catalog>>
scan == <<steps, last_known_good, first_bad, stop_reason>>
vars == <<request, at, scan, summary>>

(* The stable releases in (baseline, upper].                               *)
Interval == {v \in catalog : baseline < v /\ v <= upper}

(* A set sorted by version: i of its elements are not newer than the i-th. *)
OldestFirst(versions) ==
  [i \in 1..Cardinality(versions) |->
     CHOOSE v \in versions : Cardinality({w \in versions : w <= v}) = i]

(* Defect: the interval in the order of the catalog (here: newest first).  *)
CandidatesUnsorted == Reverse(OldestFirst(Interval))

Candidates == OldestFirst(Interval)

Payload(s, good, bad, stop) ==
  [candidates |-> Candidates, steps |-> s, last_known_good |-> good,
   first_bad |-> bad, stop_reason |-> stop]

Init ==
  /\ baseline \in Version /\ upper \in Version /\ catalog \in SUBSET Version
  /\ at = "start"
  /\ steps = <<>> /\ last_known_good = None /\ first_bad = None /\ stop_reason = None
  /\ summary = None

(* Unpublished upper bounds, and upper bounds that are not newer than the  *)
(* baseline, are refused before a summary exists.                          *)
Refuse ==
  /\ at = "start" /\ (upper \notin catalog \/ upper <= baseline)
  /\ at' = "raised"
  /\ UNCHANGED <<request, scan, summary>>

(* The baseline is the first version known to be good.                     *)
Create ==
  /\ at = "start" /\ upper \in catalog /\ upper > baseline
  /\ summary' = Payload(<<>>, baseline, None, None)
  /\ last_known_good' = baseline
  /\ at' = "check"
  /\ UNCHANGED <<request, steps, first_bad, stop_reason>>

(* Defect: a WARN does not stop the scan.                                  *)
StopAfterIgnoringWarn(verdict) ==
  [PASS |-> None, WARN |-> None, BLOCK |-> "FIRST_BAD_FOUND",
   INCOMPLETE |-> "INCOMPLETE"][verdict]

StopAfter(verdict) ==
  [PASS |-> None, WARN |-> "WARN_UNRESOLVED", BLOCK |-> "FIRST_BAD_FOUND",
   INCOMPLETE |-> "INCOMPLETE"][verdict]

LastGood(version, verdict) == IF verdict = "PASS" THEN version ELSE last_known_good

(* check_executor returns, and the scan's variables are updated.           *)
Check(verdict) ==
  /\ at = "check" /\ Len(steps) < Len(Candidates)
  /\ LET version == Candidates[Len(steps) + 1]
     IN  /\ steps' = Append(steps, [version |-> version, verdict |-> verdict])
         /\ last_known_good' = LastGood(version, verdict)
         /\ first_bad' = IF verdict = "BLOCK" THEN version ELSE None
  /\ stop_reason' = StopAfter(verdict)
  /\ at' = "save"
  /\ UNCHANGED <<request, summary>>

(* Defect: after the save the scan is over, whatever the verdict.          *)
SaveAndReturn ==
  /\ at = "save"
  /\ summary' = Payload(steps, last_known_good, first_bad, stop_reason)
  /\ at' = "returned"
  /\ UNCHANGED <<request, scan>>

(* store.save replaces the summary in one step, and on_step, which prints, *)
(* may raise; a verdict other than PASS ends the scan.                     *)
Save ==
  /\ at = "save"
  /\ summary' = Payload(steps, last_known_good, first_bad, stop_reason)
  /\ at' \in {IF stop_reason = None THEN "check" ELSE "returned", "raised"}
  /\ UNCHANGED <<request, scan>>

(* The loop is over: every candidate passed.                               *)
NoBadFound ==
  /\ at = "check" /\ Len(steps) = Len(Candidates)
  /\ stop_reason' = "NO_BAD_FOUND"
  /\ at' = "last_save"
  /\ UNCHANGED <<request, steps, last_known_good, first_bad, summary>>

(* Defect: the outcome of a scan without a bad release is not saved.       *)
ReturnUnsaved ==
  /\ at = "last_save"
  /\ at' = "returned"
  /\ UNCHANGED <<request, scan, summary>>

LastSave ==
  /\ at = "last_save"
  /\ summary' = Payload(steps, last_known_good, first_bad, stop_reason)
  /\ at' = "returned"
  /\ UNCHANGED <<request, scan>>

(* Preflight, a check or a save raises, or the user interrupts.            *)
Abort ==
  /\ at \in {"start", "check", "save", "last_save"}
  /\ at' = "raised"
  /\ UNCHANGED <<request, scan, summary>>

Next ==
  \/ Refuse \/ Create
  \/ \E verdict \in Verdicts : Check(verdict)
  \/ Save \/ NoBadFound \/ LastSave \/ Abort

Spec == Init /\ [][Next]_vars

(* Every check returns or raises, and the loop waits on nothing else.      *)
FairSpec == Spec /\ WF_vars(Next)

-----------------------------------------------------------------------------
(* Properties.                                                             *)

(* What the summary on disk claims is true of every published release,     *)
(* whenever the scan was cut short: the last known good release and all    *)
(* that lie between the baseline and it passed; a first bad release was    *)
(* blocked and is the next published one after the last known good; "no    *)
(* bad" means that every release up to the upper bound passed              *)
(* (commands.py:133-186).                                                  *)
Passed(v) == \E i \in 1..Len(summary.steps) :
               summary.steps[i] = [version |-> v, verdict |-> "PASS"]

ClaimsAreTrue ==
  summary # None =>
    /\ \A v \in Interval : v <= summary.last_known_good => Passed(v)
    /\ summary.first_bad # None <=> summary.stop_reason = "FIRST_BAD_FOUND"
    /\ summary.first_bad # None =>
         /\ \A v \in Interval : v < summary.first_bad => v <= summary.last_known_good
         /\ Last(summary.steps) = [version |-> summary.first_bad, verdict |-> "BLOCK"]
    /\ summary.stop_reason = "NO_BAD_FOUND" => \A v \in Interval : Passed(v)

(* The scan ends, and unless it was aborted it ends with a claim that is   *)
(* on disk: it never returns what the summary does not show                *)
(* (commands.py:149-173, 176-196).                                         *)
EndsWithClaim ==
  <>(\/ at = "raised"
     \/ /\ at = "returned" /\ stop_reason # None
        /\ summary = Payload(steps, last_known_good, first_bad, stop_reason))

(* The summary, at every moment, keeps the promise of VersionBisectSpec.   *)
Promise == INSTANCE VersionBisectSpec WITH
  Candidates <- {OldestFirst(versions) : versions \in SUBSET Version},
  candidates <- Candidates,
  verdicts <- IF summary = None THEN <<>>
              ELSE [i \in 1..Len(summary.steps) |-> summary.steps[i].verdict],
  claim <- IF summary = None THEN None ELSE summary.stop_reason

KeepsPromise == Promise!Spec
=============================================================================
