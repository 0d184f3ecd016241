--------------------------- MODULE EvidenceBundle ---------------------------
(***************************************************************************)
(* The evidence bundle of a qualification: what the executor records of    *)
(* every attempt and every skipped canary, what evidence/export.py derives *)
(* from the records alone, and the verdict of the offline verifier         *)
(* (evidence/verify.py) on the result.                                     *)
(*                                                                         *)
(* Both derive everything from the public attempts again, each in its own  *)
(* way; the executor derived it from running totals.  Files, digests and   *)
(* the identities shared by the payloads are left out here (the modules    *)
(* EvidenceExport and FirstBad follow them); so are the texts of reasons:  *)
(* a reason is its kind and the token count it quotes.                     *)
(***************************************************************************)
EXTENDS Qualification, SequencesExt

CONSTANTS
  Results,   \* what an attempt can return: [valid, success, tokens]
  Id,        \* canary -> the place of its id among the sorted ids
  MayBeLate  \* bound: <<canary, repetition>> whose second attempt may start late

ASSUME ResultsAssumption ==
  Results \subseteq [valid : BOOLEAN, success : BOOLEAN, tokens : TokenCosts \cup {None}]
ASSUME IdAssumption ==
  Id \in [Canary -> Nat] /\ \A c, d \in Canary : Id[c] = Id[d] => c = d
ASSUME LateAssumption == MayBeLate \subseteq Canary \X (1..Repetitions)

VARIABLES
  trace,        \* the attempts in the order they ran (trace_sink, attempts)
  skip_reason   \* canary -> why the run skipped it

recorded == <<trace, skip_reason>>
evidenceVars == <<vars, recorded>>

-----------------------------------------------------------------------------
(* Recording.                                                              *)

Reason(kind, tokens) == [kind |-> kind, tokens |-> tokens]

PolicyReason == Reason("policy", 0)
AttemptReason == Reason("attempt budget", 0)
UsageReason == Reason("usage unavailable", 0)
TokenReason(tokens) == Reason("token budget", tokens)

EvidenceInit ==
  /\ Init
  /\ trace = <<>>
  /\ skip_reason = [c \in Canary |-> PolicyReason]

(* An attempt with what it returned.  late: more than the declared gap     *)
(* passed since the other attempt of its pair finished.                    *)
RecordAttempt(r, late) ==
  /\ RunAttempt(r.valid, r.success, r.tokens)
  /\ late => slot % 2 = 1 /\ <<current, SlotRepetition(slot)>> \in MayBeLate
  /\ trace' = Append(trace,
       [canary |-> current, side |-> SlotSide(orientation, slot),
        repetition |-> SlotRepetition(slot), valid |-> r.valid,
        success |-> r.success, tokens |-> r.tokens, late |-> late])
  /\ UNCHANGED skip_reason

RecordSkip(c) ==
  /\ SkipCanary(c)
  /\ skip_reason' = [skip_reason EXCEPT ![c] =
       IF OutOfAttempts THEN AttemptReason
       ELSE IF observed_tokens = None THEN UsageReason
       ELSE TokenReason(observed_tokens)]
  /\ UNCHANGED trace

EvidenceNext ==
  \/ \E c \in Canary : RecordSkip(c)
  \/ \E r \in Results, late \in BOOLEAN : RecordAttempt(r, late)
  \/ /\ (\E c \in Canary : StartCanary(c)) \/ FinishCanary \/ Return \/ BackendRaises
     /\ UNCHANGED recorded

EvidenceSpec == EvidenceInit /\ [][EvidenceNext]_evidenceVars

-----------------------------------------------------------------------------
(* What both sides derive from public attempts.  A list of attempts is a   *)
(* function from their places in the run, so that a part of a list is a    *)
(* restriction of it, in the same order.                                   *)

AttemptsIn(cs) == Restrict(trace, {i \in DOMAIN trace : trace[i].canary \in cs})

Attempts(c) == AttemptsIn({c})

Count(items) == Cardinality(DOMAIN items)

SlotsOf(items) == {<<t.side, t.repetition>> : t \in Range(items)}

AttemptsExpected == NCanaries * AttemptsPerCanary

Aggregate(items, side) ==
  LET valid == {i \in DOMAIN items : items[i].side = side /\ items[i].valid}
  IN  [valid |-> Cardinality(valid), successes |-> Cardinality({i \in valid : items[i].success})]

(* The tokens of some attempts: unknown if one of them was not observed.   *)
TokensOf(items) ==
  IF \E t \in Range(items) : t.tokens = None THEN None
  ELSE MapThenSumSet(LAMBDA i : items[i].tokens, DOMAIN items)

(* _budget_skip_reasons, the same in the exporter and in the verifier.     *)
BudgetSkipReasons(limits, observed) ==
  (IF limits.max_attempts # None /\ limits.max_attempts < AttemptsExpected
   THEN {AttemptReason} ELSE {})
  \cup
  (IF limits.max_tokens = None THEN {}
   ELSE IF observed = None THEN {UsageReason}
   ELSE IF observed >= limits.max_tokens THEN {TokenReason(observed)} ELSE {})

-----------------------------------------------------------------------------
(* export_evidence_bundle: report.json projected field by field.           *)

Limits == [max_attempts |-> max_attempts, max_tokens |-> max_tokens]

(* The tokens counted so far when the exporter, which goes by id, comes to *)
(* a canary.                                                               *)
PreliminaryTokens(c) == TokensOf(AttemptsIn({d \in Canary : Id[d] < Id[c]}))

(* The run's reason for a skipped canary is kept if it can be derived      *)
(* again from the attempts counted so far; else the policy's is given.     *)
ChosenReason(c) ==
  IF Count(Attempts(c)) = 0 /\ skip_reason[c] \in BudgetSkipReasons(Limits, PreliminaryTokens(c))
  THEN skip_reason[c] ELSE PolicyReason

PublicExecution(c) ==
  LET baseline == Aggregate(Attempts(c), "baseline")
      candidate == Aggregate(Attempts(c), "candidate")
  IN  [attempts |-> Attempts(c), baseline |-> baseline, candidate |-> candidate,
       verdict |-> QualifyCanary(baseline, candidate, Repetitions, c \in Critical),
       reason |-> ChosenReason(c)]

Completeness ==
  [attempts_expected |-> AttemptsExpected,
   attempts_used |-> Count(trace),
   limits |-> Limits,
   observed_tokens |-> TokensOf(trace),
   all_canaries_complete |-> \A c \in Canary : Count(Attempts(c)) = AttemptsPerCanary]

(* The bundle: report.json, with the verdict repeated by qualification.json *)
(* and by the manifest, and the run order of the run.                      *)
ExportedBundle ==
  LET public == [c \in Canary |-> PublicExecution(c)]
  IN  [executions |-> public,
       verdict |-> QualifySuite({public[c].verdict : c \in Canary}),
       run_order |-> run_order,
       completeness |-> Completeness]

-----------------------------------------------------------------------------
(* verify_evidence_bundle.                                                 *)

(* _derive_execution_aggregates, _verify_report_executions: the attempts   *)
(* fill distinct slots of the layout, and the stored aggregates are theirs. *)
VerifyExecution(execution) ==
  /\ SlotsOf(execution.attempts) \subseteq Sides \X (1..Repetitions)
  /\ Cardinality(SlotsOf(execution.attempts)) = Count(execution.attempts)
  /\ execution.baseline = Aggregate(execution.attempts, "baseline")
  /\ execution.candidate = Aggregate(execution.attempts, "candidate")

(* _verify_policy: the verdicts follow from the attempts, and a reason is  *)
(* the policy's or one the budgets of the bundle explain.                  *)
VerifyPolicy(bundle) ==
  LET verdict(c) == QualifyCanary(Aggregate(bundle.executions[c].attempts, "baseline"),
                                  Aggregate(bundle.executions[c].attempts, "candidate"),
                                  Repetitions, c \in Critical)
      explained == BudgetSkipReasons(bundle.completeness.limits,
                                     bundle.completeness.observed_tokens)
  IN  /\ \A c \in Canary :
           /\ bundle.executions[c].verdict = verdict(c)
           /\ bundle.executions[c].reason \in
                {PolicyReason} \cup
                (IF Count(bundle.executions[c].attempts) = 0 THEN explained ELSE {})
      /\ bundle.verdict = QualifySuite({verdict(c) : c \in Canary})

(* Defect: an attempt budget explains missing attempts only once it is     *)
(* spent to the last attempt.                                              *)
StoppedBySpentAttempts(stored) ==
  stored.limits.max_attempts # None /\ stored.attempts_used >= stored.limits.max_attempts

StoppedByAttempts(stored) ==
  stored.limits.max_attempts # None /\ stored.limits.max_attempts < stored.attempts_expected

StoppedByTokens(stored) ==
  /\ stored.limits.max_tokens # None
  /\ stored.observed_tokens # None => stored.observed_tokens >= stored.limits.max_tokens

(* _verify_completeness: the totals follow from the attempts, the attempt  *)
(* budget was kept, and missing attempts are explained by a budget.        *)
VerifyCompleteness(bundle) ==
  LET stored == bundle.completeness
      length(c) == Count(bundle.executions[c].attempts)
  IN  /\ stored.attempts_expected = AttemptsExpected
      /\ stored.attempts_used = MapThenSumSet(length, Canary)
      /\ stored.all_canaries_complete = \A c \in Canary : length(c) = AttemptsPerCanary
      /\ stored.observed_tokens =
           LET tokens(c) == TokensOf(bundle.executions[c].attempts)
           IN  IF \E c \in Canary : tokens(c) = None THEN None
               ELSE MapThenSumSet(tokens, Canary)
      /\ stored.limits.max_attempts # None => stored.attempts_used <= stored.limits.max_attempts
      /\ ~stored.all_canaries_complete => StoppedByAttempts(stored) \/ StoppedByTokens(stored)

VerifyBundle(bundle) ==
  /\ \A c \in Canary : VerifyExecution(bundle.executions[c])
  /\ VerifyPolicy(bundle)
  /\ VerifyCompleteness(bundle)

-----------------------------------------------------------------------------
(* Properties.                                                             *)

(* Three derivations of one qualification agree: the executor's running    *)
(* totals and verdict, the exporter's projection of the attempts, and the  *)
(* verifier's.  Whatever the budgets and wherever they cut the run short,  *)
(* the bundle of a completed run is accepted, and it states the verdict    *)
(* and the totals that the run reported (executor.py:247-262,              *)
(* export.py:400-620, verify.py:300-500).                                  *)
BundleVerifies ==
  phase = "done" =>
    LET bundle == ExportedBundle
    IN  /\ VerifyBundle(bundle)
        /\ bundle.verdict = result
        /\ bundle.completeness.attempts_used = attempts_used
        /\ bundle.completeness.observed_tokens = observed_tokens
=============================================================================
