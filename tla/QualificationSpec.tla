------------------------- MODULE QualificationSpec -------------------------
(***************************************************************************)
(* What a qualification promises its caller, with no attempt, budget       *)
(* counter or run order in sight: canaries are measured or skipped one at  *)
(* a time, critical ones first whenever something may be skipped, nothing  *)
(* is measured after the first skip, and the verdict is the policy applied *)
(* to the evidence of every canary of the suite.                           *)
(***************************************************************************)
EXTENDS QualificationPolicy

CONSTANTS NCanaries,    \* the suite's canaries are 1..NCanaries, in suite order
          Critical,     \* the critical ones
          Repetitions,  \* repetitions per side
          None          \* Python's None

Canary == 1..NCanaries

VARIABLES evidence,   \* canary -> None, or what was observed of it
          verdict     \* the suite's verdict, None until it is returned

vars == <<evidence, verdict>>

Measurement == [skipped : {FALSE},
                baseline : Aggregates(Repetitions),
                candidate : Aggregates(Repetitions)]

Skip == [skipped |-> TRUE, baseline |-> NoRuns, candidate |-> NoRuns]

Decided(c) == evidence[c] # None
Undecided == {c \in Canary : ~Decided(c)}
Skipped == {c \in Canary : Decided(c) /\ evidence[c].skipped}

CanaryVerdict(c) ==
  QualifyCanary(evidence[c].baseline, evidence[c].candidate,
                Repetitions, c \in Critical)

Init == evidence = [c \in Canary |-> None] /\ verdict = None

(* A canary is measured only while nothing has been skipped.               *)
Measure(c) ==
  /\ verdict = None /\ ~Decided(c) /\ Skipped = {}
  /\ \E m \in Measurement : evidence' = [evidence EXCEPT ![c] = m]
  /\ UNCHANGED verdict

(* A canary is skipped only after every critical canary before it in the   *)
(* priority order is decided: the budget is never spent on a canary that   *)
(* is not critical while a critical one is left out.                       *)
SkipCanary(c) ==
  /\ verdict = None /\ ~Decided(c)
  /\ c \in Critical => \A d \in Canary \ Critical : ~Decided(d)
  /\ evidence' = [evidence EXCEPT ![c] = Skip]
  /\ UNCHANGED verdict

Publish ==
  /\ verdict = None /\ Undecided = {}
  /\ verdict' = QualifySuite({CanaryVerdict(c) : c \in Canary})
  /\ UNCHANGED evidence

Next == Publish \/ \E c \in Canary : Measure(c) \/ SkipCanary(c)

Spec == Init /\ [][Next]_vars
=============================================================================
