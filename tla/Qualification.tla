--------------------------- MODULE Qualification ---------------------------
(***************************************************************************)
(* QualificationExecutor.run (run/executor.py) over the paired schedule    *)
(* (run/schedule.py): one qualification of a candidate against a baseline, *)
(* canary by canary, under an optional attempt budget and an optional      *)
(* token budget.                                                           *)
(*                                                                         *)
(* The backend is the environment: preparing a canary or running an        *)
(* attempt may raise, which ends the run with no result; an attempt        *)
(* returns valid or not, successful or not, and with or without an         *)
(* observed token count.  Digests, images, traces and reasons are left     *)
(* out; the two reasons for skipping are told apart by the guards.         *)
(***************************************************************************)
EXTENDS Integers, FiniteSetsExt, Sequences, QualificationPolicy

CONSTANTS NCanaries,       \* the suite is 1..NCanaries, in suite order
          Critical,        \* the critical canaries
          Repetitions,     \* repetitions per side of every canary
          AttemptBudgets,  \* the values max_attempts may have besides None
          TokenBudgets,    \* the values max_tokens may have besides None
          TokenCosts,      \* what an attempt with observed usage may cost
          None             \* Python's None

(* The executor refuses fewer than one repetition and budgets below one.   *)
ASSUME SuiteAssumption ==
  /\ NCanaries \in Nat
  /\ Critical \subseteq 1..NCanaries
  /\ Repetitions \in Nat \ {0}
ASSUME BudgetAssumption ==
  /\ AttemptBudgets \subseteq Nat \ {0}
  /\ TokenBudgets \subseteq Nat \ {0}
  /\ TokenCosts \subseteq Nat

Canary == 1..NCanaries

(* What the attempts of a canary showed; and its execution, which also     *)
(* carries their tokens.  None stands for a canary not visited yet.        *)
Evidence == [skipped : BOOLEAN,
             baseline : Aggregates(Repetitions),
             candidate : Aggregates(Repetitions)]

Execution == [skipped : BOOLEAN,
              baseline : Aggregates(Repetitions),
              candidate : Aggregates(Repetitions),
              tokens : Nat \cup {None}]

ASSUME NoneAssumption ==
  /\ None \notin Nat /\ None \notin Sides /\ None \notin Verdicts
  /\ None \notin Evidence /\ None \notin Execution

VARIABLES
  max_attempts, max_tokens,  \* the caller's budgets
  phase,               \* "visit": head of the loop; "run": inside a canary;
                       \* "done": returned; "failed": the backend raised
  current,             \* the canary being run
  slot,                \* slots of its schedule already run
  orientation,         \* the side its first pair starts with
  tally,               \* its attempts so far, per side
  usage,               \* their tokens, None once one of them was not observed
  executions,          \* canary -> None or its CanaryExecution
  run_order,           \* (canary, side, repetition) of every attempt
  remaining_attempts, attempts_used, observed_tokens, completed_canaries,
  result               \* the suite verdict returned, or None

budgets == <<max_attempts, max_tokens>>
counters == <<remaining_attempts, attempts_used, observed_tokens, completed_canaries>>
attempts == <<current, slot, orientation, tally, usage>>
vars == <<budgets, phase, attempts, executions, run_order, counters, result>>

-----------------------------------------------------------------------------
(* Budgets, order and schedule.                                            *)

AttemptsPerCanary == 2 * Repetitions

AttemptConstrained ==
  max_attempts # None /\ max_attempts < NCanaries * AttemptsPerCanary

(* Defect: the attempt budget no longer reorders the suite.                *)
PrioritizeUnderTokensOnly == max_tokens # None

PrioritizeCritical == AttemptConstrained \/ max_tokens # None

(* execution_order as a relation: suite order, or critical canaries first  *)
(* and suite order within each class.                                      *)
Before(c, d) ==
  IF PrioritizeCritical /\ (c \in Critical) # (d \in Critical)
  THEN c \in Critical
  ELSE c < d

Unvisited == {c \in Canary : executions[c] = None}

IsNext(c) == c \in Unvisited /\ \A d \in Unvisited \ {c} : Before(c, d)

(* Defect: the budget is compared with one attempt, not with a canary's.   *)
OutOfAnyAttempt == AttemptConstrained /\ remaining_attempts < 1

OutOfAttempts == AttemptConstrained /\ remaining_attempts < AttemptsPerCanary

(* Defect: unknown usage is taken for usage within the budget.             *)
OutOfKnownTokens ==
  /\ max_tokens # None /\ completed_canaries > 0
  /\ observed_tokens # None /\ observed_tokens >= max_tokens

OutOfTokens ==
  /\ max_tokens # None
  /\ completed_canaries > 0
  /\ observed_tokens # None => observed_tokens >= max_tokens

(* paired_schedule: repetition r runs both sides back to back, and the     *)
(* side that goes first alternates from one repetition to the next.        *)
SlotRepetition(i) == (i \div 2) + 1

SlotSide(first, i) ==
  LET leader == IF SlotRepetition(i) % 2 = 1 THEN first ELSE OtherSide(first)
  IN  IF i % 2 = 0 THEN leader ELSE OtherSide(leader)

-----------------------------------------------------------------------------
SkippedExecution ==
  [skipped |-> TRUE, baseline |-> NoRuns, candidate |-> NoRuns, tokens |-> 0]

(* The sum of a canary's usage, unknown if part of it is.                  *)
AddUsage(total, tokens) ==
  IF total = None \/ tokens = None THEN None ELSE total + tokens

(* observed_tokens: once lost, the total of the run stays lost.            *)
AddObserved(total, tokens) ==
  IF total = None THEN None
  ELSE IF tokens = None THEN None ELSE total + tokens

NoTally == [s \in Sides |-> NoRuns]

(* Defect: the canary's critical flag is not passed on.                    *)
CanaryVerdictAllCritical(c) ==
  QualifyCanary(executions[c].baseline, executions[c].candidate, Repetitions, TRUE)

CanaryVerdict(c) ==
  QualifyCanary(executions[c].baseline, executions[c].candidate,
                Repetitions, c \in Critical)

Init ==
  /\ max_attempts \in AttemptBudgets \cup {None}
  /\ max_tokens \in TokenBudgets \cup {None}
  /\ phase = "visit"
  /\ current = None /\ slot = 0 /\ orientation = None /\ tally = NoTally /\ usage = 0
  /\ executions = [c \in Canary |-> None]
  /\ run_order = <<>>
  /\ remaining_attempts = IF AttemptConstrained THEN max_attempts ELSE None
  /\ attempts_used = 0 /\ observed_tokens = 0 /\ completed_canaries = 0
  /\ result = None

(* The loop skips a canary whose attempts no longer fit the budget, or     *)
(* that would start after the token budget was spent or lost sight of.     *)
SkipCanary(c) ==
  /\ phase = "visit" /\ IsNext(c)
  /\ OutOfAttempts \/ OutOfTokens
  /\ executions' = [executions EXCEPT ![c] = SkippedExecution]
  /\ UNCHANGED <<budgets, phase, attempts, run_order, counters, result>>

(* backend.prepare succeeds; the schedule's first orientation is the       *)
(* parity of a hash, so either side may lead.                              *)
StartCanary(c) ==
  /\ phase = "visit" /\ IsNext(c)
  /\ ~OutOfAttempts /\ ~OutOfTokens
  /\ phase' = "run" /\ current' = c /\ slot' = 0
  /\ orientation' \in Sides
  /\ UNCHANGED <<tally, usage>>
  /\ UNCHANGED <<budgets, executions, run_order, counters, result>>

(* One attempt returns.  Its tokens are added to the observed total, which *)
(* is lost for good as soon as one attempt's usage was not observed.       *)
RunAttempt(valid, success, tokens) ==
  /\ phase = "run" /\ slot < AttemptsPerCanary
  /\ LET side == SlotSide(orientation, slot)
     IN  /\ run_order' = Append(run_order, <<current, side, SlotRepetition(slot)>>)
         /\ tally' = [tally EXCEPT ![side] =
              [valid |-> @.valid + (IF valid THEN 1 ELSE 0),
               successes |-> @.successes + (IF valid /\ success THEN 1 ELSE 0)]]
  /\ slot' = slot + 1
  /\ attempts_used' = attempts_used + 1
  /\ usage' = AddUsage(usage, tokens)
  /\ observed_tokens' = AddObserved(observed_tokens, tokens)
  /\ UNCHANGED <<budgets, phase, current, orientation, executions,
                 remaining_attempts, completed_canaries, result>>

(* The canary's schedule is exhausted: its attempts are aggregated.        *)
FinishCanary ==
  /\ phase = "run" /\ slot = AttemptsPerCanary
  /\ executions' = [executions EXCEPT ![current] =
       [skipped |-> FALSE, baseline |-> tally["baseline"],
        candidate |-> tally["candidate"], tokens |-> usage]]
  /\ completed_canaries' = completed_canaries + 1
  /\ remaining_attempts' = IF remaining_attempts = None THEN None
                           ELSE remaining_attempts - AttemptsPerCanary
  /\ phase' = "visit"
  /\ current' = None /\ slot' = 0 /\ orientation' = None /\ tally' = NoTally /\ usage' = 0
  /\ UNCHANGED <<budgets, run_order, attempts_used, observed_tokens, result>>

(* The loop is over: comparisons are put back in suite order and judged.   *)
Return ==
  /\ phase = "visit" /\ Unvisited = {}
  /\ phase' = "done"
  /\ result' = QualifySuite({CanaryVerdict(c) : c \in Canary})
  /\ UNCHANGED <<budgets, attempts, executions, run_order, counters>>

(* prepare or run_attempt raises; run() has no handler.                    *)
BackendRaises ==
  /\ \/ phase = "visit" /\ \E c \in Canary : IsNext(c) /\ ~OutOfAttempts /\ ~OutOfTokens
     \/ phase = "run" /\ slot < AttemptsPerCanary
  /\ phase' = "failed"
  /\ UNCHANGED <<budgets, attempts, executions, run_order, counters, result>>

AttemptReturns ==
  \E valid, success \in BOOLEAN, tokens \in TokenCosts \cup {None} :
    RunAttempt(valid, success, tokens)

Next ==
  \/ \E c \in Canary : SkipCanary(c) \/ StartCanary(c)
  \/ AttemptReturns
  \/ FinishCanary
  \/ Return
  \/ BackendRaises

Spec == Init /\ [][Next]_vars

-----------------------------------------------------------------------------
(* Properties.                                                             *)

Measured == {c \in Canary : executions[c] # None /\ ~executions[c].skipped}
Skipped == {c \in Canary : executions[c] # None /\ executions[c].skipped}
Started == Measured \cup (IF current = None THEN {} ELSE {current})

TypeOK ==
  /\ max_attempts \in AttemptBudgets \cup {None}
  /\ max_tokens \in TokenBudgets \cup {None}
  /\ phase \in {"visit", "run", "done", "failed"}
  /\ current \in Canary \cup {None}
  /\ slot \in 0..AttemptsPerCanary
  /\ orientation \in Sides \cup {None}
  /\ tally \in [Sides -> [valid : Nat, successes : Nat]]
  /\ usage \in Nat \cup {None}
  /\ executions \in [Canary -> Execution \cup {None}]
  /\ run_order \in Seq(Canary \X Sides \X (1..Repetitions))
  /\ remaining_attempts \in Nat \cup {None}
  /\ attempts_used \in Nat
  /\ observed_tokens \in Nat \cup {None}
  /\ completed_canaries \in Nat
  /\ result \in Verdicts \cup {None}

(* The attempt budget is a hard cap: whatever the suite, the repetitions   *)
(* and the order, no more attempts are started than the caller allowed.    *)
(* The executor never compares attempts_used with it: it holds only        *)
(* because canaries are refused whole (executor.py:108-122, 236).          *)
AttemptBudgetRespected == max_attempts # None => attempts_used <= max_attempts

(* A scarce budget is never spent on a canary that is not critical while a *)
(* critical one goes without evidence (executor.py:88-95).                 *)
CriticalFirst ==
  Skipped \cap Critical # {} => Started \subseteq Critical

(* Under a token budget a canary other than the first starts only if the   *)
(* usage of every attempt of every canary before it was observed and left  *)
(* something of the budget: unknown usage closes the budget for good.      *)
TokenBudgetCloses ==
  max_tokens # None =>
    \A c \in Started :
      LET earlier == {d \in Measured : d # c /\ Before(d, c)}
      IN  earlier # {} =>
            /\ \A d \in earlier : executions[d].tokens # None
            /\ MapThenSumSet(LAMBDA d : executions[d].tokens, earlier) < max_tokens

(* A returned verdict is earned: PASS and BLOCK need every attempt of      *)
(* every canary; BLOCK needs a critical canary that fell from full success *)
(* to none; a suite with a skipped canary is INCOMPLETE.                   *)
VerdictEarned ==
  LET full(a) == a = [valid |-> Repetitions, successes |-> Repetitions]
      complete == \A c \in Canary : /\ executions[c].baseline.valid = Repetitions
                                    /\ executions[c].candidate.valid = Repetitions
  IN  result # None =>
        /\ Measured \cup Skipped = Canary
        /\ result = "INCOMPLETE" <=> ~complete
        /\ Skipped # {} => result = "INCOMPLETE"
        /\ result = "PASS" <=>
             \A c \in Canary : full(executions[c].baseline) /\ full(executions[c].candidate)
        /\ result = "BLOCK" <=>
             /\ complete
             /\ \E c \in Critical : /\ full(executions[c].baseline)
                                    /\ executions[c].candidate.successes = 0

(* The executor implements the promise of QualificationSpec.               *)
EvidenceOf(e) ==
  IF e = None THEN None
  ELSE [skipped |-> e.skipped, baseline |-> e.baseline, candidate |-> e.candidate]

Promise == INSTANCE QualificationSpec WITH
  evidence <- [c \in Canary |-> EvidenceOf(executions[c])],
  verdict <- result

KeepsPromise == Promise!Spec
=============================================================================
