------------------------ MODULE QualificationPolicy ------------------------
(***************************************************************************)
(* The verdict policy: qualification/policy.py.  Pure operators, shared by *)
(* the executor, by its abstract specification and by the modules that     *)
(* consume a verdict.                                                      *)
(*                                                                         *)
(* An aggregate is the pair of counters policy.py reads of one side of one *)
(* canary: how many attempts were valid, and how many of those succeeded.  *)
(***************************************************************************)
EXTENDS Naturals

Verdicts == {"PASS", "WARN", "BLOCK", "INCOMPLETE"}

Sides == {"baseline", "candidate"}

OtherSide(side) == IF side = "baseline" THEN "candidate" ELSE "baseline"

(* What a side's attempts can add up to when `expected' of them are run.   *)
Aggregates(expected) ==
  {a \in [valid : 0..expected, successes : 0..expected] : a.successes <= a.valid}

NoRuns == [valid |-> 0, successes |-> 0]

(* Defect: any regression of a critical canary blocks.                     *)
BlockOnAnyRegression(baseline, candidate, expected, critical) ==
  CASE baseline.valid < expected \/ candidate.valid < expected -> "INCOMPLETE"
    [] baseline.valid >= expected /\ candidate.valid >= expected ->
         IF baseline.successes # expected THEN "WARN"
         ELSE IF candidate.successes = expected THEN "PASS"
         ELSE IF critical THEN "BLOCK" ELSE "WARN"

(* The verdict of one canary.  Missing evidence dominates; an unstable     *)
(* baseline can only warn; a critical canary blocks only when a candidate  *)
(* that was run in full never succeeded.                                   *)
QualifyCanary(baseline, candidate, expected, critical) ==
  LET complete  == baseline.valid >= expected /\ candidate.valid >= expected
      stable    == baseline.successes = expected
      matches   == candidate.successes = expected
      collapsed == critical /\ candidate.successes = 0
  IN  CASE ~complete -> "INCOMPLETE"
        [] complete /\ ~stable -> "WARN"
        [] complete /\ stable /\ matches -> "PASS"
        [] complete /\ stable /\ ~matches /\ collapsed -> "BLOCK"
        [] OTHER -> "WARN"

(* The verdict of a suite, from the set of its canaries' verdicts:         *)
(* INCOMPLETE over BLOCK over WARN over PASS.                              *)
QualifySuite(verdicts) ==
  IF "INCOMPLETE" \in verdicts THEN "INCOMPLETE"
  ELSE IF "BLOCK" \in verdicts THEN "BLOCK"
  ELSE IF "WARN" \in verdicts THEN "WARN"
  ELSE "PASS"
=============================================================================
