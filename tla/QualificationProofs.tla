------------------------ MODULE QualificationProofs ------------------------
(***************************************************************************)
(* Proofs about the executor: its types, the attempt and token budgets,    *)
(* the priority of critical canaries, the verdict, and that it implements  *)
(* QualificationSpec, for every suite, number of repetitions and budget;   *)
(* then about what is exported of a run: the bundle, the companion of the  *)
(* paired-change protocol and its claims, for runs of every length.        *)
(***************************************************************************)
EXTENDS PairedChange, FiniteSetTheorems, WellFoundedInduction, TLAPS

(* Attempts of `side' among the slots already run: a pair gives one to     *)
(* each side, and half a pair gives one to the side that leads it.         *)
SideRuns(side) ==
  IF slot % 2 = 1 /\ SlotSide(orientation, slot - 1) = side
  THEN (slot \div 2) + 1
  ELSE slot \div 2

(* What is known while a canary is run.                                    *)
RunInv ==
  /\ phase = "run" => current # None
  /\ phase \in {"visit", "done"} => current = None
  /\ current = None => slot = 0 /\ tally = NoTally
  /\ current # None =>
       /\ orientation \in Sides
       /\ IsNext(current)
       /\ Skipped = {}
       /\ AttemptConstrained => remaining_attempts >= AttemptsPerCanary
  /\ \A s \in Sides : /\ tally[s].successes <= tally[s].valid
                      /\ tally[s].valid <= SideRuns(s)

(* What is known of the canaries already visited: they are a prefix of the *)
(* execution order, measured ones before skipped ones, and the reason for  *)
(* the first skip still stands.                                            *)
VisitInv ==
  /\ \A c, d \in Canary : executions[d] # None /\ Before(c, d) => executions[c] # None
  /\ \A c \in Skipped, d \in Measured : ~Before(c, d)
  /\ Skipped # {} => OutOfAttempts \/ OutOfTokens
  /\ \A c \in Skipped : executions[c].baseline = NoRuns /\ executions[c].candidate = NoRuns
  /\ result # None => phase = "done"

(* Where the attempts went.                                                *)
BudgetInv ==
  /\ AttemptConstrained <=> remaining_attempts # None
  /\ AttemptConstrained => attempts_used + remaining_attempts = max_attempts + slot
  /\ completed_canaries = Cardinality(Measured)
  /\ attempts_used = completed_canaries * AttemptsPerCanary + slot

IInv == TypeOK /\ RunInv /\ VisitInv /\ BudgetInv

-----------------------------------------------------------------------------
(* Facts about the schedule.                                               *)

(* Slots 0, 1, ..., 2 * Repetitions - 1 visit the repetitions in order,    *)
(* and the second slot of a pair runs the side the first one did not.      *)
LEMMA ScheduleShape ==
  ASSUME NEW i \in 0..(AttemptsPerCanary - 1), NEW first \in Sides
  PROVE  /\ SlotRepetition(i) \in 1..Repetitions
         /\ SlotSide(first, i) \in Sides
         /\ i % 2 = 1 => SlotSide(first, i) = OtherSide(SlotSide(first, i - 1))
         /\ (i % 2 = 1 => (i + 1) \div 2 = (i \div 2) + 1 /\ (i + 1) % 2 = 0)
         /\ (i % 2 = 0 => (i + 1) \div 2 = i \div 2 /\ (i + 1) % 2 = 1)
         /\ i % 2 \in {0, 1}
         /\ i \div 2 \in Nat
<1>1. i \in Nat /\ i <= 2 * Repetitions - 1 /\ Repetitions \in Nat
  BY SuiteAssumption DEF AttemptsPerCanary
<1>2. i % 2 \in {0, 1} /\ i \div 2 \in Nat /\ i = 2 * (i \div 2) + (i % 2)
  BY <1>1
<1>3. SlotRepetition(i) \in 1..Repetitions
  BY <1>1, <1>2 DEF SlotRepetition
<1>4. SlotSide(first, i) \in Sides
  BY DEF SlotSide, OtherSide, Sides
<1>5. ASSUME i % 2 = 1
      PROVE  /\ SlotSide(first, i) = OtherSide(SlotSide(first, i - 1))
             /\ (i + 1) \div 2 = (i \div 2) + 1 /\ (i + 1) % 2 = 0
  <2>1. (i - 1) % 2 = 0 /\ (i - 1) \div 2 = i \div 2
    BY <1>1, <1>2, <1>5
  <2>2. SlotRepetition(i - 1) = SlotRepetition(i)
    BY <2>1 DEF SlotRepetition
  <2>3. (i + 1) \div 2 = (i \div 2) + 1 /\ (i + 1) % 2 = 0
    BY <1>1, <1>2, <1>5
  <2> QED BY <1>5, <2>1, <2>2, <2>3 DEF SlotSide, OtherSide, Sides
<1>6. ASSUME i % 2 = 0
      PROVE  (i + 1) \div 2 = i \div 2 /\ (i + 1) % 2 = 1
  BY <1>1, <1>2, <1>6
<1> QED BY <1>2, <1>3, <1>4, <1>5, <1>6

(* A side never has more attempts behind it than repetitions, and when the *)
(* schedule is exhausted both have exactly that many.                      *)
LEMMA SideRunsBound ==
  ASSUME slot \in 0..AttemptsPerCanary, NEW s \in Sides
  PROVE  SideRuns(s) \in 0..Repetitions
<1>1. slot \in Nat /\ slot <= 2 * Repetitions /\ Repetitions \in Nat
  BY SuiteAssumption DEF AttemptsPerCanary
<1>2. slot % 2 \in {0, 1} /\ slot \div 2 \in Nat /\ slot = 2 * (slot \div 2) + (slot % 2)
  BY <1>1
<1> QED BY <1>1, <1>2 DEF SideRuns

-----------------------------------------------------------------------------
(* The execution order is asymmetric.                                      *)
LEMMA BeforeAsymmetric ==
  ASSUME NEW c \in Canary, NEW d \in Canary, Before(c, d)
  PROVE  ~Before(d, c)
BY DEF Before, Canary

(* Visiting the next canary keeps the visited canaries a prefix.           *)
LEMMA VisitKeepsPrefix ==
  ASSUME NEW n \in Canary, IsNext(n),
         executions \in [Canary -> Execution \cup {None}],
         \A c, d \in Canary : executions[d] # None /\ Before(c, d) => executions[c] # None,
         NEW e \in Execution, executions' = [executions EXCEPT ![n] = e],
         UNCHANGED budgets
  PROVE  \A c, d \in Canary :
           executions'[d] # None /\ Before(c, d)' => executions'[c] # None
<1> SUFFICES ASSUME NEW c \in Canary, NEW d \in Canary,
                    executions'[d] # None, Before(c, d), c # n
             PROVE  executions[c] # None
  BY NoneAssumption DEF Before, PrioritizeCritical, AttemptConstrained, budgets
<1>1. CASE d = n
  BY <1>1, BeforeAsymmetric DEF IsNext, Unvisited
<1>2. CASE d # n
  BY <1>2
<1> QED BY <1>1, <1>2

(* The measured canaries are finitely many, no more than the suite has.    *)
LEMMA MeasuredFinite ==
  /\ IsFiniteSet(Measured)
  /\ Cardinality(Measured) \in 0..NCanaries
  /\ \A c \in Canary \ Measured : Cardinality(Measured) < NCanaries
<1>1. IsFiniteSet(Canary) /\ Cardinality(Canary) = NCanaries
  BY FS_Interval, SuiteAssumption DEF Canary
<1>2. Measured \subseteq Canary
  BY DEF Measured
<1>3. IsFiniteSet(Measured) /\ Cardinality(Measured) <= Cardinality(Canary)
  BY <1>1, <1>2, FS_Subset
<1>4. ASSUME NEW c \in Canary \ Measured
      PROVE  Cardinality(Measured) < NCanaries
  <2>1. Measured \cup {c} \subseteq Canary
    BY <1>2
  <2>2. Cardinality(Measured \cup {c}) = Cardinality(Measured) + 1
    BY <1>3, FS_AddElement
  <2>3. Cardinality(Measured \cup {c}) <= Cardinality(Canary)
    BY <1>1, <2>1, FS_Subset
  <2> QED BY <1>1, <1>3, <2>2, <2>3, FS_CardinalityType, SuiteAssumption
<1> QED BY <1>1, <1>3, <1>4, FS_CardinalityType, SuiteAssumption

-----------------------------------------------------------------------------
(* The inductive invariant.                                                *)

LEMMA InitInv == Init => IInv
<1> SUFFICES ASSUME Init PROVE IInv
  OBVIOUS
<1> USE SuiteAssumption, BudgetAssumption, NoneAssumption
<1>1. TypeOK
  BY DEF Init, TypeOK, NoTally, NoRuns, Sides, AttemptsPerCanary, AttemptConstrained, budgets
<1>2. RunInv
  BY DEF Init, RunInv, NoTally, NoRuns, SideRuns, Sides
<1>3. VisitInv
  BY DEF Init, VisitInv, Skipped, Measured
<1>4. BudgetInv
  <2>1. Measured = {}
    BY DEF Init, Measured
  <2>2. Cardinality(Measured) = 0
    BY <2>1, FS_EmptySet
  <2> QED BY <2>2 DEF Init, BudgetInv, AttemptConstrained, AttemptsPerCanary
<1> QED BY <1>1, <1>2, <1>3, <1>4 DEF IInv

LEMMA SkippedIsExecution == SkippedExecution \in Execution
BY SuiteAssumption DEF SkippedExecution, Execution, Aggregates, NoRuns

LEMMA SkipInv ==
  ASSUME IInv, NEW c \in Canary, SkipCanary(c)
  PROVE  IInv'
<1> USE SuiteAssumption, NoneAssumption
<1>1. SkippedExecution \in Execution
  BY SkippedIsExecution
<1>2. /\ executions \in [Canary -> Execution \cup {None}]
      /\ executions' = [executions EXCEPT ![c] = SkippedExecution]
      /\ executions[c] = None
  BY DEF IInv, TypeOK, SkipCanary, IsNext, Unvisited
<1>3. Measured' = Measured /\ Skipped' = Skipped \cup {c}
  BY <1>1, <1>2 DEF Measured, Skipped, SkippedExecution
<1>4. TypeOK'
  BY <1>1 DEF IInv, TypeOK, SkipCanary, budgets, counters, attempts
<1>5. RunInv'
  BY DEF IInv, RunInv, SkipCanary, budgets, counters, attempts, SideRuns
<1>6. VisitInv'
  <2>1. \A a, b \in Canary :
          executions'[b] # None /\ Before(a, b)' => executions'[a] # None
    BY <1>1, <1>2, VisitKeepsPrefix DEF IInv, VisitInv, SkipCanary
  <2>2. OutOfAttempts' \/ OutOfTokens'
    BY DEF SkipCanary, OutOfAttempts, OutOfTokens, AttemptConstrained, budgets, counters
  <2>3. \A d \in Skipped' : executions'[d].baseline = NoRuns /\ executions'[d].candidate = NoRuns
    BY <1>2, <1>3 DEF IInv, VisitInv, SkippedExecution, Skipped
  <2>4. result' # None => phase' = "done"
    BY DEF IInv, VisitInv, SkipCanary
  <2>5. \A a \in Skipped', d \in Measured' : ~Before(a, d)'
    <3> SUFFICES ASSUME NEW a \in Skipped', NEW d \in Measured PROVE ~Before(a, d)
      BY <1>3 DEF SkipCanary, Before, PrioritizeCritical, AttemptConstrained, budgets
    <3>1. CASE a \in Skipped
      BY <3>1 DEF IInv, VisitInv
    <3>2. CASE a = c
      BY <1>2, <3>2 DEF IInv, VisitInv, Measured
    <3> QED BY <1>3, <3>1, <3>2
  <2> QED BY <2>1, <2>2, <2>3, <2>4, <2>5 DEF VisitInv
<1>7. BudgetInv'
  BY <1>3 DEF IInv, BudgetInv, SkipCanary, AttemptConstrained, budgets, counters, attempts
<1> QED BY <1>4, <1>5, <1>6, <1>7 DEF IInv

LEMMA StartInv ==
  ASSUME IInv, NEW c \in Canary, StartCanary(c)
  PROVE  IInv'
<1> USE SuiteAssumption, NoneAssumption
<1>1. TypeOK'
  BY DEF IInv, TypeOK, StartCanary, budgets, counters, AttemptsPerCanary
<1>2. RunInv'
  <2>1. slot = 0 /\ tally = NoTally
    BY DEF IInv, RunInv, StartCanary
  <2>2. Skipped = {}
    BY DEF IInv, VisitInv, StartCanary
  <2>3. AttemptConstrained' => remaining_attempts' >= AttemptsPerCanary
    <3>1. AttemptConstrained => remaining_attempts \in Nat
      BY DEF IInv, BudgetInv, TypeOK
    <3> QED BY <3>1 DEF StartCanary, OutOfAttempts, AttemptConstrained, AttemptsPerCanary,
                        budgets, counters
  <2>4. IsNext(c)'
    BY DEF StartCanary, IsNext, Unvisited, Before, PrioritizeCritical, AttemptConstrained, budgets
  <2>5. \A s \in Sides : tally'[s].successes <= tally'[s].valid /\ tally'[s].valid <= SideRuns(s)'
    BY <2>1 DEF StartCanary, NoTally, NoRuns, SideRuns
  <2>6. c # None
    BY DEF Canary
  <2> QED BY <2>2, <2>3, <2>4, <2>5, <2>6 DEF StartCanary, RunInv, Skipped
<1>3. VisitInv'
  BY DEF IInv, VisitInv, StartCanary, Skipped, Measured, OutOfAttempts, OutOfTokens, AttemptConstrained,
         Before, PrioritizeCritical, budgets, counters
<1>4. BudgetInv'
  BY DEF IInv, BudgetInv, RunInv, StartCanary, Measured, AttemptConstrained, budgets, counters
<1> QED BY <1>1, <1>2, <1>3, <1>4 DEF IInv

LEMMA AttemptInv ==
  ASSUME IInv, NEW valid \in BOOLEAN, NEW success \in BOOLEAN,
         NEW tokens \in TokenCosts \cup {None}, RunAttempt(valid, success, tokens)
  PROVE  IInv'
<1> DEFINE side == SlotSide(orientation, slot)
<1> USE SuiteAssumption, BudgetAssumption, NoneAssumption
<1>1. /\ current \in Canary /\ orientation \in Sides
      /\ slot \in 0..(AttemptsPerCanary - 1)
  BY DEF IInv, TypeOK, RunInv, RunAttempt, AttemptsPerCanary
<1>2. /\ side \in Sides
      /\ SlotRepetition(slot) \in 1..Repetitions
      /\ slot % 2 = 1 => side = OtherSide(SlotSide(orientation, slot - 1))
      /\ slot % 2 = 1 => (slot + 1) \div 2 = (slot \div 2) + 1 /\ (slot + 1) % 2 = 0
      /\ slot % 2 = 0 => (slot + 1) \div 2 = slot \div 2 /\ (slot + 1) % 2 = 1
      /\ slot % 2 \in {0, 1} /\ slot \div 2 \in Nat
  BY <1>1, ScheduleShape
<1>3. /\ tally' = [tally EXCEPT ![side] =
           [valid |-> tally[side].valid + (IF valid THEN 1 ELSE 0),
            successes |-> tally[side].successes + (IF valid /\ success THEN 1 ELSE 0)]]
      /\ slot' = slot + 1 /\ attempts_used' = attempts_used + 1
      /\ usage' = AddUsage(usage, tokens)
      /\ observed_tokens' = AddObserved(observed_tokens, tokens)
      /\ UNCHANGED <<max_attempts, max_tokens, remaining_attempts, completed_canaries, executions>>
  BY DEF RunAttempt, budgets
<1>4. TypeOK'
  <2>1. tally' \in [Sides -> [valid : Nat, successes : Nat]]
    BY SMTT(30), <1>2, <1>3 DEF IInv, TypeOK
  <2>2. run_order' \in Seq(Canary \X Sides \X (1..Repetitions))
    BY <1>1, <1>2 DEF IInv, TypeOK, RunAttempt
  <2>3. usage' \in Nat \cup {None} /\ observed_tokens' \in Nat \cup {None}
    <3>1. /\ tokens \in Nat \cup {None} /\ usage \in Nat \cup {None}
          /\ observed_tokens \in Nat \cup {None}
      BY DEF IInv, TypeOK
    <3> QED BY <1>3, <3>1 DEF AddUsage, AddObserved
  <2>4. slot' \in 0..AttemptsPerCanary /\ attempts_used' \in Nat
    <3>1. attempts_used \in Nat
      BY DEF IInv, TypeOK
    <3> QED BY <1>1, <1>3, <3>1 DEF AttemptsPerCanary
  <2> QED BY <2>1, <2>2, <2>3, <2>4 DEF IInv, TypeOK, RunAttempt, budgets
<1>5. RunInv'
  <2>1. ASSUME NEW s \in Sides
        PROVE  tally'[s].successes <= tally'[s].valid /\ tally'[s].valid <= SideRuns(s)'
    <3>1. /\ tally[s].valid \in Nat /\ tally[s].successes \in Nat
          /\ tally[s].successes <= tally[s].valid
          /\ tally[s].valid <= SideRuns(s)
      BY DEF IInv, TypeOK, RunInv
    <3>2. SideRuns(s)' = IF s = side THEN SideRuns(s) + 1 ELSE SideRuns(s)
      <4>1. orientation' = orientation /\ slot' = slot + 1 /\ slot' - 1 = slot
        BY <1>1 DEF RunAttempt, AttemptsPerCanary
      <4>2. CASE slot % 2 = 0
        BY <1>2, <4>1, <4>2 DEF SideRuns
      <4>3. CASE slot % 2 = 1
        <5>1. s = side <=> SlotSide(orientation, slot - 1) # s
          <6>1. SlotSide(orientation, slot - 1) \in Sides
            BY <1>1 DEF SlotSide, OtherSide, Sides
          <6> QED BY <1>2, <4>3, <6>1 DEF OtherSide, Sides
        <5> QED BY <1>2, <4>1, <4>3, <5>1 DEF SideRuns
      <4> QED BY <1>2, <4>2, <4>3
    <3>3. SideRuns(s) \in Nat
      BY <1>2 DEF SideRuns
    <3>4. CASE s = side
      <4>1. /\ tally'[s].valid = tally[s].valid + (IF valid THEN 1 ELSE 0)
            /\ tally'[s].successes = tally[s].successes + (IF valid /\ success THEN 1 ELSE 0)
        BY <1>3, <3>4 DEF IInv, TypeOK
      <4> QED BY <3>1, <3>2, <3>3, <3>4, <4>1
    <3>5. CASE s # side
      <4>1. tally'[s] = tally[s]
        BY <1>3, <3>5 DEF IInv, TypeOK
      <4> QED BY <3>1, <3>2, <3>5, <4>1
    <3> QED BY <3>4, <3>5
  <2>2. IsNext(current)' /\ Skipped' = {}
    BY <1>1 DEF IInv, RunInv, RunAttempt, IsNext, Unvisited, Before, PrioritizeCritical,
                AttemptConstrained, Skipped, budgets
  <2> QED BY <1>1, <2>1, <2>2 DEF IInv, RunInv, RunAttempt, AttemptConstrained, budgets
<1>6. VisitInv'
  <2>1. Skipped = {} /\ Skipped' = {}
    BY <1>1 DEF IInv, RunInv, RunAttempt, Skipped
  <2> QED BY <2>1 DEF IInv, VisitInv, RunAttempt, Before, PrioritizeCritical,
                      AttemptConstrained, budgets
<1>7. BudgetInv'
  <2>1. Measured' = Measured
    BY DEF RunAttempt, Measured
  <2>2. /\ completed_canaries * AttemptsPerCanary \in Nat
        /\ remaining_attempts \in Nat \cup {None}
        /\ attempts_used \in Nat /\ slot \in Nat /\ completed_canaries \in Nat
    BY <1>1 DEF IInv, TypeOK, AttemptsPerCanary
  <2>3. attempts_used' = completed_canaries' * AttemptsPerCanary + slot'
    BY <1>3, <2>2 DEF IInv, BudgetInv
  <2>4. AttemptConstrained' <=> AttemptConstrained
    BY <1>3 DEF AttemptConstrained
  <2>5. AttemptConstrained => max_attempts \in Nat
    BY DEF IInv, TypeOK, AttemptConstrained
  <2>6. AttemptConstrained' => attempts_used' + remaining_attempts' = max_attempts' + slot'
    <3>1. AttemptConstrained => /\ remaining_attempts \in Nat
                                /\ attempts_used + remaining_attempts = max_attempts + slot
      BY <2>2 DEF IInv, BudgetInv
    <3> QED BY <1>3, <2>2, <2>4, <2>5, <3>1
  <2> QED BY <1>3, <2>1, <2>3, <2>4, <2>6 DEF IInv, BudgetInv
<1> QED BY <1>4, <1>5, <1>6, <1>7 DEF IInv

(* What the schedule leaves behind is a measurement.                       *)
LEMMA TallyIsAggregate ==
  ASSUME IInv, slot = AttemptsPerCanary
  PROVE  \A s \in Sides : tally[s] \in Aggregates(Repetitions)
<1> SUFFICES ASSUME NEW s \in Sides PROVE tally[s] \in Aggregates(Repetitions)
  OBVIOUS
<1>1. SideRuns(s) \in 0..Repetitions
  BY SideRunsBound DEF IInv, TypeOK
<1>2. /\ tally[s] \in [valid : Nat, successes : Nat]
      /\ tally[s].successes <= tally[s].valid /\ tally[s].valid <= SideRuns(s)
  BY DEF IInv, TypeOK, RunInv
<1> QED BY <1>1, <1>2, SuiteAssumption DEF Aggregates

LEMMA FinishInv ==
  ASSUME IInv, FinishCanary
  PROVE  IInv'
<1> DEFINE e == [skipped |-> FALSE, baseline |-> tally["baseline"],
                 candidate |-> tally["candidate"], tokens |-> usage]
<1> USE SuiteAssumption, NoneAssumption
<1>1. e \in Execution
  BY TallyIsAggregate DEF IInv, TypeOK, FinishCanary, Execution, Sides
<1>2. /\ current \in Canary /\ IsNext(current) /\ Skipped = {}
      /\ AttemptConstrained => remaining_attempts >= AttemptsPerCanary
  BY DEF IInv, TypeOK, RunInv, FinishCanary
<1>3. /\ executions \in [Canary -> Execution \cup {None}]
      /\ executions' = [executions EXCEPT ![current] = e]
      /\ executions[current] = None
  BY <1>2 DEF IInv, TypeOK, FinishCanary, IsNext, Unvisited
<1>4. Measured' = Measured \cup {current} /\ Skipped' = {} /\ current \notin Measured
  BY <1>1, <1>2, <1>3 DEF Measured, Skipped
<1>5. remaining_attempts' \in Nat \cup {None}
  BY <1>2 DEF IInv, TypeOK, BudgetInv, FinishCanary, AttemptsPerCanary
<1>6. TypeOK'
  <2>1. tally' \in [Sides -> [valid : Nat, successes : Nat]] /\ slot' \in 0..AttemptsPerCanary
    BY DEF FinishCanary, NoTally, NoRuns, AttemptsPerCanary
  <2>2. executions' \in [Canary -> Execution \cup {None}]
    BY <1>1, <1>3
  <2>3. completed_canaries' \in Nat /\ usage' \in Nat \cup {None}
    BY DEF IInv, TypeOK, FinishCanary
  <2> QED BY <1>5, <2>1, <2>2, <2>3 DEF IInv, TypeOK, FinishCanary, budgets
<1>7. RunInv'
  BY DEF RunInv, FinishCanary, NoTally, NoRuns, SideRuns
<1>8. VisitInv'
  <2>1. \A a, b \in Canary :
          executions'[b] # None /\ Before(a, b)' => executions'[a] # None
    BY <1>1, <1>2, <1>3, VisitKeepsPrefix DEF IInv, VisitInv, FinishCanary
  <2> QED BY <1>4, <2>1 DEF IInv, VisitInv, FinishCanary
<1>9. BudgetInv'
  <2>1. Cardinality(Measured') = completed_canaries'
    BY <1>4, MeasuredFinite, FS_AddElement DEF IInv, BudgetInv, FinishCanary
  <2>2. /\ completed_canaries \in Nat /\ attempts_used \in Nat
        /\ AttemptsPerCanary \in Nat /\ slot = AttemptsPerCanary
    BY DEF IInv, TypeOK, FinishCanary, AttemptsPerCanary
  <2>3. (completed_canaries + 1) * AttemptsPerCanary + 0
          = completed_canaries * AttemptsPerCanary + AttemptsPerCanary
    BY <2>2
  <2>4. attempts_used' = completed_canaries' * AttemptsPerCanary + slot'
    BY <2>2, <2>3 DEF IInv, BudgetInv, FinishCanary
  <2>5. /\ AttemptConstrained' <=> remaining_attempts' # None
        /\ AttemptConstrained' => attempts_used' + remaining_attempts' = max_attempts' + slot'
    <3>1. /\ AttemptConstrained' <=> AttemptConstrained
          /\ max_attempts' = max_attempts /\ slot' = 0 /\ attempts_used' = attempts_used
          /\ remaining_attempts' = IF remaining_attempts = None THEN None
                                   ELSE remaining_attempts - AttemptsPerCanary
      BY DEF FinishCanary, AttemptConstrained, budgets
    <3>2. AttemptConstrained => max_attempts \in Nat
      BY BudgetAssumption DEF IInv, TypeOK, AttemptConstrained
    <3>3. /\ AttemptConstrained <=> remaining_attempts # None
          /\ AttemptConstrained => /\ remaining_attempts \in Nat
                                  /\ attempts_used + remaining_attempts = max_attempts + slot
      BY DEF IInv, TypeOK, BudgetInv
    <3> QED BY <1>2, <1>5, <2>2, <3>1, <3>2, <3>3
  <2> QED BY <2>1, <2>4, <2>5 DEF BudgetInv
<1> QED BY <1>6, <1>7, <1>8, <1>9 DEF IInv

(* Steps that leave the loop keep everything but the phase and the result. *)
LEMMA LeaveInv ==
  ASSUME IInv, Return \/ BackendRaises
  PROVE  IInv'
<1> USE SuiteAssumption, NoneAssumption
<1>1. result' \in Verdicts \cup {None}
  BY DEF IInv, TypeOK, Return, BackendRaises, QualifySuite, Verdicts
<1>2. TypeOK'
  BY <1>1 DEF IInv, TypeOK, Return, BackendRaises, AttemptsPerCanary, budgets, attempts, counters
<1>3. RunInv'
  BY DEF IInv, RunInv, Return, BackendRaises, SideRuns, IsNext, Unvisited, Before,
         PrioritizeCritical, AttemptConstrained, Skipped, budgets, attempts, counters
<1>4. VisitInv'
  BY DEF IInv, VisitInv, Return, BackendRaises, Skipped, Measured, OutOfAttempts, OutOfTokens, Before,
         PrioritizeCritical, AttemptConstrained, budgets, attempts, counters
<1>5. BudgetInv'
  BY DEF IInv, BudgetInv, Return, BackendRaises, Measured, AttemptConstrained, budgets,
         attempts, counters
<1> QED BY <1>2, <1>3, <1>4, <1>5 DEF IInv

LEMMA StutterInv ==
  ASSUME IInv, UNCHANGED vars
  PROVE  IInv'
BY DEF IInv, TypeOK, RunInv, VisitInv, BudgetInv, SideRuns, IsNext, Unvisited, Before,
       PrioritizeCritical, AttemptConstrained, Skipped, Measured, OutOfAttempts, OutOfTokens,
       vars, budgets, attempts, counters

LEMMA NextInv == IInv /\ [Next]_vars => IInv'
<1> SUFFICES ASSUME IInv, [Next]_vars PROVE IInv'
  OBVIOUS
<1>1. ASSUME NEW c \in Canary, SkipCanary(c) PROVE IInv'
  BY <1>1, SkipInv
<1>2. ASSUME NEW c \in Canary, StartCanary(c) PROVE IInv'
  BY <1>2, StartInv
<1>3. CASE AttemptReturns
  BY <1>3, AttemptInv DEF AttemptReturns
<1>4. CASE FinishCanary
  BY <1>4, FinishInv
<1>5. CASE Return \/ BackendRaises
  BY <1>5, LeaveInv
<1>6. CASE UNCHANGED vars
  BY <1>6, StutterInv
<1> QED BY <1>1, <1>2, <1>3, <1>4, <1>5, <1>6 DEF Next

(* The invariant holds throughout, whatever the budgets.                   *)
THEOREM Inductive == Spec => []IInv
<1>1. Init => IInv
  BY InitInv
<1>2. IInv /\ [Next]_vars => IInv'
  BY NextInv
<1> QED BY <1>1, <1>2, PTL DEF Spec

-----------------------------------------------------------------------------
(* Every variable keeps its type.                                          *)
THEOREM TypeCorrect == Spec => []TypeOK
BY Inductive, PTL DEF IInv

(* No qualification uses more attempts than the caller allowed: the        *)
(* executor only ever compares what is left with a whole canary.           *)
THEOREM BudgetRespected == Spec => []AttemptBudgetRespected
<1>1. IInv => AttemptBudgetRespected
  <2> SUFFICES ASSUME IInv, max_attempts # None PROVE attempts_used <= max_attempts
    BY DEF AttemptBudgetRespected
  <2> USE SuiteAssumption, BudgetAssumption, NoneAssumption
  <2>1. /\ max_attempts \in Nat /\ attempts_used \in Nat /\ slot \in Nat
        /\ slot <= AttemptsPerCanary /\ AttemptsPerCanary \in Nat
    BY DEF IInv, TypeOK, AttemptsPerCanary
  <2>2. CASE AttemptConstrained
    <3>1. /\ remaining_attempts \in Nat
          /\ attempts_used + remaining_attempts = max_attempts + slot
      BY <2>2 DEF IInv, TypeOK, BudgetInv
    <3>2. slot = 0 \/ remaining_attempts >= AttemptsPerCanary
      BY <2>2 DEF IInv, RunInv
    <3> QED BY <2>1, <3>1, <3>2
  <2>3. CASE ~AttemptConstrained
    <3> DEFINE n == Cardinality(Measured)
    <3>1. n \in Nat /\ attempts_used = n * AttemptsPerCanary + slot
      BY MeasuredFinite DEF IInv, BudgetInv
    <3>2. (n <= NCanaries /\ slot = 0) \/ n + 1 <= NCanaries
      <4>1. CASE current = None
        BY <4>1, MeasuredFinite DEF IInv, RunInv
      <4>2. CASE current # None
        <5>1. current \in Canary \ Measured
          BY <4>2 DEF IInv, RunInv, IsNext, Unvisited, Measured
        <5> QED BY <3>1, <5>1, MeasuredFinite
      <4> QED BY <4>1, <4>2
    <3>3. \A i, j, k \in Nat : i <= j => i * k <= j * k
      OBVIOUS
    <3>4. n * AttemptsPerCanary + slot <= NCanaries * AttemptsPerCanary
      <4>1. CASE n <= NCanaries /\ slot = 0
        BY <2>1, <3>1, <3>3, <4>1
      <4>2. CASE n + 1 <= NCanaries
        <5>1. (n + 1) * AttemptsPerCanary <= NCanaries * AttemptsPerCanary
          BY <2>1, <3>1, <3>3, <4>2
        <5>2. (n + 1) * AttemptsPerCanary = n * AttemptsPerCanary + AttemptsPerCanary
          BY <2>1, <3>1
        <5>3. n * AttemptsPerCanary \in Nat /\ NCanaries * AttemptsPerCanary \in Nat
          BY <2>1, <3>1
        <5> HIDE DEF n
        <5> QED BY <2>1, <5>1, <5>2, <5>3
      <4> QED BY <3>2, <4>1, <4>2
    <3>5. NCanaries * AttemptsPerCanary <= max_attempts
      BY <2>1, <2>3 DEF AttemptConstrained
    <3>6. n * AttemptsPerCanary \in Nat /\ NCanaries * AttemptsPerCanary \in Nat
      BY <2>1, <3>1
    <3> HIDE DEF n
    <3> QED BY <2>1, <3>1, <3>4, <3>5, <3>6
  <2> QED BY <2>2, <2>3
<1> QED BY <1>1, Inductive, PTL

(* A canary is skipped only under a budget, and then critical canaries are *)
(* visited first: so no canary that is not critical is ever started when a *)
(* critical one is skipped.                                                *)
THEOREM CriticalCanariesFirst == Spec => []CriticalFirst
<1>1. IInv => CriticalFirst
  <2> SUFFICES ASSUME IInv,
                      NEW c \in Skipped \cap Critical, NEW d \in Started
               PROVE  d \in Critical
    BY DEF CriticalFirst
  <2>1. current = None
    BY DEF IInv, RunInv
  <2>2. d \in Measured /\ d \in Canary /\ c \in Canary
    BY <2>1 DEF Started, Measured, Skipped
  <2>3. PrioritizeCritical
    BY DEF IInv, VisitInv, OutOfAttempts, OutOfTokens, PrioritizeCritical
  <2>4. ~Before(c, d)
    BY <2>2 DEF IInv, VisitInv
  <2> QED BY <2>2, <2>3, <2>4 DEF Before
<1> QED BY <1>1, Inductive, PTL

-----------------------------------------------------------------------------
(* Sums over finite sets.                                                  *)

LEMMA Least ==
  ASSUME NEW T, T \subseteq Nat, T # {}
  PROVE  \E n \in T : \A m \in T : n <= m
<1> DEFINE R == {ss \in Nat \X Nat : ss[1] < ss[2]}
<1>1. IsWellFoundedOn(R, Nat)
  BY NatLessThanWellFounded DEF OpToRel
<1>2. PICK n \in T : \A m \in T : ~(<<m, n>> \in R)
  <2> HIDE DEF R
  <2> QED  BY <1>1, WFMin
<1>3. ASSUME NEW m \in T PROVE n <= m
  <2>1. <<m, n>> \in Nat \X Nat /\ ~(<<m, n>> \in R)
    BY <1>2
  <2>2. ~(m < n)
    BY <2>1
  <2> QED  BY <2>2
<1> QED  BY <1>3

LEMMA OneFewer ==
  ASSUME NEW S, IsFiniteSet(S), NEW s \in SUBSET S, s # {}, NEW x \in s
  PROVE  /\ s \ {x} \in SUBSET S /\ Cardinality(s) \in Nat \ {0}
         /\ Cardinality(s \ {x}) = Cardinality(s) - 1
<1>1. IsFiniteSet(s) /\ Cardinality(s) \in Nat
  BY FS_Subset, FS_CardinalityType
<1>2. Cardinality(s) # 0
  BY <1>1, FS_EmptySet
<1> QED  BY <1>1, <1>2, FS_RemoveElement

(* What holds of a subset as soon as it holds of those with one element    *)
(* less holds of all.                                                      *)
LEMMA FiniteInduction ==
  ASSUME NEW S, IsFiniteSet(S), NEW Good,
         \A s \in SUBSET S : (\A x \in s : s \ {x} \in Good) => s \in Good
  PROVE  SUBSET S \subseteq Good
<1> DEFINE Bad == {n \in Nat : \E s \in SUBSET S : Cardinality(s) = n /\ s \notin Good}
<1>1. SUFFICES ASSUME NEW t \in SUBSET S, t \notin Good PROVE FALSE
  OBVIOUS
<1>2. Bad # {} /\ Bad \subseteq Nat
  <2>1. Cardinality(t) \in Nat
    BY FS_Subset, FS_CardinalityType
  <2> QED  BY <1>1, <2>1
<1>3. PICK n \in Bad : \A m \in Bad : n <= m
  <2> HIDE DEF Bad
  <2> QED  BY <1>2, Least
<1>4. PICK s \in SUBSET S : Cardinality(s) = n /\ s \notin Good
  BY <1>3
<1>5. PICK x \in s : s \ {x} \notin Good
  BY <1>4
<1>6. s \ {x} \in SUBSET S /\ n \in Nat \ {0} /\ Cardinality(s \ {x}) = n - 1
  BY <1>4, <1>5, OneFewer
<1>7. n - 1 \in Bad
  BY <1>5, <1>6
<1> QED  BY <1>3, <1>6, <1>7

(* The function that the fold recurses with.                               *)
One(s) == CHOOSE x \in s : TRUE

Adds(ex, S, it) ==
  it = [s \in SUBSET S |-> IF s = {} THEN 0 ELSE ex[One(s)].tokens + it[s \ {One(s)}]]

LEMMA AddsExists ==
  ASSUME NEW S, IsFiniteSet(S), NEW ex
  PROVE  \E it : Adds(ex, S, it)
<1> DEFINE Level(n) == {s \in SUBSET S : Cardinality(s) <= n}
           Goes(it, s) == IF s = {} THEN 0 ELSE ex[One(s)].tokens + it[s \ {One(s)}]
           AddsTo(n, it) == it = [s \in Level(n) |-> Goes(it, s)]
           Bad == {n \in Nat : ~\E it : AddsTo(n, it)}
<1>1. ASSUME NEW n \in Nat, NEW s \in Level(n), s # {}
      PROVE  n # 0 /\ s \ {One(s)} \in Level(n - 1) /\ s \ {One(s)} \in Level(n)
  <2>1. One(s) \in s
    BY <1>1 DEF One
  <2>2. s \ {One(s)} \in SUBSET S /\ Cardinality(s) \in Nat \ {0}
        /\ Cardinality(s \ {One(s)}) = Cardinality(s) - 1
    BY <1>1, <2>1, OneFewer
  <2> QED  BY <1>1, <2>2
<1>2. ASSUME NEW n \in Nat, n # 0, NEW g, AddsTo(n - 1, g) PROVE \E it : AddsTo(n, it)
  <2> DEFINE h == [s \in Level(n) |-> Goes(g, s)]
  <2>1. ASSUME NEW s \in Level(n - 1) PROVE s \in Level(n) /\ h[s] = g[s]
    <3>1. s \in Level(n)
      <4>1. Cardinality(s) \in Nat
        BY <2>1, FS_Subset, FS_CardinalityType
      <4> QED  BY <1>2, <2>1, <4>1
    <3>2. g[s] = Goes(g, s)
      <4> HIDE DEF Level, Goes
      <4> QED  BY <1>2, <2>1
    <3> QED  BY <3>1, <3>2
  <2>2. ASSUME NEW s \in Level(n) PROVE Goes(g, s) = Goes(h, s)
    <3> HIDE DEF Level, h
    <3>1. CASE s = {}
      BY <3>1
    <3>2. CASE s # {}
      BY <3>2, <1>1, <2>1, <2>2
    <3> QED  BY <3>1, <3>2
  <2>3. h = [s \in Level(n) |-> Goes(h, s)]
    <3> HIDE DEF Level, Goes
    <3> QED  BY <2>2
  <2> HIDE DEF h, Level, Goes
  <2> QED  BY <2>3
<1>3. \E it : AddsTo(0, it)
  <2> DEFINE h == [s \in Level(0) |-> 0]
  <2>1. ASSUME NEW s \in Level(0) PROVE 0 = Goes(h, s)
    <3>1. s = {}
      <4> HIDE DEF Level
      <4> QED  BY <1>1, <2>1
    <3> QED  BY <3>1
  <2>2. h = [s \in Level(0) |-> Goes(h, s)]
    <3> HIDE DEF Level, Goes
    <3> QED  BY <2>1
  <2> HIDE DEF h, Level, Goes
  <2> QED  BY <2>2
<1>4. Bad = {}
  <2>1. SUFFICES ASSUME Bad # {} PROVE FALSE
    OBVIOUS
  <2>2. PICK n \in Bad : \A m \in Bad : n <= m
    <3>1. Bad \subseteq Nat
      OBVIOUS
    <3> HIDE DEF Bad
    <3> QED  BY <2>1, <3>1, Least
  <2> HIDE DEF AddsTo
  <2>3. n \in Nat /\ n # 0 /\ n - 1 \in Nat
    BY <1>3, <2>2
  <2>4. n - 1 \notin Bad
    <3> HIDE DEF Bad
    <3> QED  BY <2>2, <2>3
  <2>5. PICK g : AddsTo(n - 1, g)
    BY <2>3, <2>4
  <2> QED  BY <1>2, <2>2, <2>3, <2>5
<1>5. Cardinality(S) \in Nat
  BY FS_CardinalityType
<1>6. PICK it : AddsTo(Cardinality(S), it)
  <2> HIDE DEF AddsTo
  <2> QED  BY <1>4, <1>5
<1>7. Level(Cardinality(S)) = SUBSET S
  BY FS_Subset
<1> HIDE DEF Level
<1> QED  BY <1>6, <1>7 DEF Adds

LEMMA AddsNothing ==
  ASSUME NEW S, NEW ex, NEW it, Adds(ex, S, it)
  PROVE  it[{}] = 0
BY DEF Adds

LEMMA AddsAtOne ==
  ASSUME NEW S, NEW ex, NEW it, Adds(ex, S, it), NEW s \in SUBSET S, s # {}
  PROVE  /\ One(s) \in s /\ s \ {One(s)} \in SUBSET S
         /\ it[s] = ex[One(s)].tokens + it[s \ {One(s)}]
<1>1. it[s] = IF s = {} THEN 0 ELSE ex[One(s)].tokens + it[s \ {One(s)}]
  BY DEF Adds
<1>2. One(s) \in s
  BY DEF One
<1> QED  BY <1>1, <1>2

LEMMA AddsNat ==
  ASSUME NEW S, IsFiniteSet(S), NEW ex, NEW it, Adds(ex, S, it),
         \A x \in S : ex[x].tokens \in Nat, NEW s \in SUBSET S
  PROVE  it[s] \in Nat
<1> DEFINE Good == {r \in SUBSET S : it[r] \in Nat}
<1>1. ASSUME NEW r \in SUBSET S, \A x \in r : r \ {x} \in Good PROVE r \in Good
  <2>1. CASE r = {}
    <3>1. it[r] = 0
      BY <2>1, AddsNothing
    <3> QED  BY <3>1
  <2>2. CASE r # {}
    <3>1. One(r) \in r /\ it[r] = ex[One(r)].tokens + it[r \ {One(r)}]
      <4> HIDE DEF Good
      <4> QED  BY <2>2, AddsAtOne
    <3>2. ex[One(r)].tokens \in Nat /\ it[r \ {One(r)}] \in Nat
      BY <1>1, <3>1
    <3> QED  BY <3>1, <3>2
  <2> QED  BY <2>1, <2>2
<1>2. SUBSET S \subseteq Good
  <2> HIDE DEF Good
  <2> QED  BY <1>1, FiniteInduction
<1> QED  BY <1>2

(* Any element may be taken out first.                                     *)
LEMMA AddsAtAny ==
  ASSUME NEW S, IsFiniteSet(S), NEW ex, NEW it, Adds(ex, S, it),
         \A x \in S : ex[x].tokens \in Nat, NEW y \in S
  PROVE  it[S] = ex[y].tokens + it[S \ {y}]
<1> DEFINE Good == {s \in SUBSET S : \A z \in s : it[s] = ex[z].tokens + it[s \ {z}]}
<1>1. ASSUME NEW s \in SUBSET S, \A x \in s : s \ {x} \in Good PROVE s \in Good
  <2>1. ASSUME NEW z \in s PROVE it[s] = ex[z].tokens + it[s \ {z}]
    <3> DEFINE c == One(s)
    <3>1. c \in s /\ s \ {c} \in SUBSET S /\ it[s] = ex[c].tokens + it[s \ {c}]
      BY <2>1, AddsAtOne
    <3> HIDE DEF c
    <3>2. CASE z = c
      BY <3>1, <3>2
    <3>3. CASE z # c
      <4> DEFINE r == (s \ {c}) \ {z}
      <4>1. z \in s \ {c} /\ c \in s \ {z} /\ r = (s \ {z}) \ {c} /\ r \in SUBSET S
        BY <2>1, <3>1, <3>3
      <4>2. it[s \ {c}] = ex[z].tokens + it[r]
        BY <1>1, <3>1, <4>1
      <4>3. it[s \ {z}] = ex[c].tokens + it[r]
        BY <1>1, <2>1, <4>1
      <4>4. ex[z].tokens \in Nat /\ ex[c].tokens \in Nat
        BY <2>1, <3>1
      <4> HIDE DEF r
      <4>5. it[r] \in Nat
        BY <4>1, AddsNat
      <4> QED  BY <3>1, <4>2, <4>3, <4>4, <4>5
    <3> QED  BY <3>2, <3>3
  <2> QED  BY <2>1
<1>2. SUBSET S \subseteq Good
  <2> HIDE DEF Good
  <2> QED  BY <1>1, FiniteInduction
<1> QED  BY <1>2

(* Only the elements of the set count.                                     *)
LEMMA AddsSame ==
  ASSUME NEW S, IsFiniteSet(S), NEW ex, NEW it, Adds(ex, S, it),
         NEW S2, NEW ex2, NEW it2, Adds(ex2, S2, it2), S \in SUBSET S2,
         \A x \in S : ex[x].tokens = ex2[x].tokens
  PROVE  it[S] = it2[S]
<1> DEFINE Good == {s \in SUBSET S : it[s] = it2[s]}
<1>1. ASSUME NEW s \in SUBSET S, \A x \in s : s \ {x} \in Good PROVE s \in Good
  <2>1. s \in SUBSET S2
    OBVIOUS
  <2>2. CASE s = {}
    <3>1. it[s] = 0
      BY <2>2, AddsNothing
    <3>2. it2[s] = 0
      BY <2>2, AddsNothing
    <3> QED  BY <3>1, <3>2
  <2>3. CASE s # {}
    <3>1. One(s) \in s /\ it[s] = ex[One(s)].tokens + it[s \ {One(s)}]
      BY <2>3, AddsAtOne
    <3>2. it2[s] = ex2[One(s)].tokens + it2[s \ {One(s)}]
      BY <2>1, <2>3, AddsAtOne
    <3>3. it[s \ {One(s)}] = it2[s \ {One(s)}] /\ ex[One(s)].tokens = ex2[One(s)].tokens
      BY <1>1, <3>1
    <3> QED  BY <3>1, <3>2, <3>3
  <2> QED  BY <2>2, <2>3
<1>2. SUBSET S \subseteq Good
  <2> HIDE DEF Good
  <2> QED  BY <1>1, FiniteInduction
<1> QED  BY <1>2

(* The tokens of a set of canaries.                                        *)
Tokens(ex, S) == MapThenSumSet(LAMBDA d : ex[d].tokens, S)

LEMMA TokensAdds ==
  ASSUME NEW S, IsFiniteSet(S), NEW ex
  PROVE  \E it : Adds(ex, S, it) /\ Tokens(ex, S) = it[S]
<1> DEFINE it == CHOOSE f : Adds(ex, S, f)
<1>1. Adds(ex, S, it)
  BY AddsExists
<1>2. Tokens(ex, S) = it[S]
  BY DEF Tokens, MapThenSumSet, MapThenFoldSet, Adds, One
<1> QED  BY <1>1, <1>2

(* No canaries have no tokens; one canary more adds its own.               *)
LEMMA TokensOfNone ==
  ASSUME NEW ex PROVE Tokens(ex, {}) = 0
<1>1. IsFiniteSet({})
  BY FS_EmptySet
<1>2. PICK it : Adds(ex, {}, it) /\ Tokens(ex, {}) = it[{}]
  BY <1>1, TokensAdds
<1> QED  BY <1>2, AddsNothing

LEMMA TokensSame ==
  ASSUME NEW S, IsFiniteSet(S), NEW ex, NEW ex2, \A x \in S : ex[x].tokens = ex2[x].tokens
  PROVE  Tokens(ex, S) = Tokens(ex2, S)
<1>1. PICK it : Adds(ex, S, it) /\ Tokens(ex, S) = it[S]
  BY TokensAdds
<1>2. PICK it2 : Adds(ex2, S, it2) /\ Tokens(ex2, S) = it2[S]
  BY TokensAdds
<1> QED  BY <1>1, <1>2, AddsSame

LEMMA TokensOfOneMore ==
  ASSUME NEW S, IsFiniteSet(S), NEW y, y \notin S, NEW ex,
         \A x \in S \cup {y} : ex[x].tokens \in Nat
  PROVE  /\ Tokens(ex, S) \in Nat
         /\ Tokens(ex, S \cup {y}) = Tokens(ex, S) + ex[y].tokens
<1> DEFINE S2 == S \cup {y}
<1>1. IsFiniteSet(S2) /\ S2 \ {y} = S /\ y \in S2 /\ S \in SUBSET S2
  BY FS_AddElement
<1>2. PICK it : Adds(ex, S, it) /\ Tokens(ex, S) = it[S]
  BY TokensAdds
<1> HIDE DEF S2
<1>3. PICK it2 : Adds(ex, S2, it2) /\ Tokens(ex, S2) = it2[S2]
  BY <1>1, TokensAdds
<1>4. \A x \in S2 : ex[x].tokens \in Nat
  BY DEF S2
<1>5. it2[S2] = ex[y].tokens + it2[S]
  BY <1>1, <1>3, <1>4, AddsAtAny
<1>6. it[S] = it2[S]
  BY <1>1, <1>2, <1>3, AddsSame
<1>7. it2[S] \in Nat /\ ex[y].tokens \in Nat
  BY <1>1, <1>3, <1>4, AddsNat
<1> QED  BY <1>2, <1>3, <1>5, <1>6, <1>7 DEF S2

LEMMA TokensNat ==
  ASSUME NEW S, IsFiniteSet(S), NEW ex, \A x \in S : ex[x].tokens \in Nat
  PROVE  Tokens(ex, S) \in Nat
<1>1. PICK it : Adds(ex, S, it) /\ Tokens(ex, S) = it[S]
  BY TokensAdds
<1> QED  BY <1>1, AddsNat

-----------------------------------------------------------------------------
(* The token budget, and the verdict.                                      *)

(* The canaries that were measured before a canary, and what their usage   *)
(* was when it started.                                                    *)
Earlier(c) == {d \in Measured : d # c /\ Before(d, c)}

Closed(c) ==
  Earlier(c) # {} =>
    /\ \A d \in Earlier(c) : executions[d].tokens # None
    /\ Tokens(executions, Earlier(c)) < max_tokens

ClosedInv == max_tokens # None => \A c \in Started : Closed(c)

(* The total is what the measured canaries and the current one used, and   *)
(* it is lost exactly when one of these is.                                *)
Lost == usage = None \/ \E d \in Measured : executions[d].tokens = None

UsageInv ==
  /\ current = None => usage = 0
  /\ observed_tokens = None <=> Lost
  /\ observed_tokens # None => observed_tokens = Tokens(executions, Measured) + usage

(* Who returned a verdict judged every canary.                             *)
ResultInv ==
  /\ phase = "done" => Unvisited = {}
  /\ result # None => result = QualifySuite({CanaryVerdict(c) : c \in Canary})

(* The order is total, and what was measured comes before what was not.    *)
LEMMA MeasuredBefore ==
  ASSUME IInv, NEW c \in Canary, IsNext(c), NEW d \in Measured
  PROVE  d # c /\ Before(d, c) /\ ~Before(c, d)
<1>1. d \in Canary /\ executions[d] # None /\ executions[c] = None
  BY DEF IsNext, Unvisited, Measured
<1>2. ~Before(c, d)
  BY <1>1 DEF IInv, VisitInv
<1>3. Before(c, d) \/ Before(d, c)
  <2>1. c \in Nat /\ d \in Nat /\ c # d
    BY <1>1 DEF Canary
  <2>2. c < d \/ d < c
    BY <2>1
  <2> QED  BY <2>2 DEF Before
<1> QED  BY <1>1, <1>2, <1>3

LEMMA MeasuredUsage ==
  ASSUME IInv, NEW d \in Measured
  PROVE  d \in Canary /\ executions[d].tokens \in Nat \cup {None}
<1>1. d \in Canary /\ executions[d] \in Execution \cup {None} /\ executions[d] # None
  BY DEF IInv, TypeOK, Measured
<1> QED  BY <1>1 DEF Execution

LEMMA EarlierFinite ==
  ASSUME NEW c PROVE IsFiniteSet(Earlier(c)) /\ Earlier(c) \in SUBSET Measured
<1>1. Earlier(c) \in SUBSET Measured
  BY DEF Earlier
<1> QED  BY <1>1, MeasuredFinite, FS_Subset

(* What was before a canary when it started stays so.                      *)
LEMMA ClosedStays ==
  ASSUME NEW c, Closed(c), UNCHANGED budgets, Earlier(c)' = Earlier(c),
         \A d \in Measured : executions'[d] = executions[d]
  PROVE  Closed(c)'
<1>1. \A d \in Earlier(c) : executions'[d].tokens = executions[d].tokens
  BY EarlierFinite
<1>2. Tokens(executions', Earlier(c)) = Tokens(executions, Earlier(c))
  BY <1>1, EarlierFinite, TokensSame
<1>3. max_tokens' = max_tokens
  BY DEF budgets
<1> QED  BY <1>1, <1>2, <1>3 DEF Closed

LEMMA EarlierStays ==
  ASSUME UNCHANGED budgets, Measured' = Measured, NEW c
  PROVE  Earlier(c)' = Earlier(c)
BY DEF Earlier, Before, PrioritizeCritical, AttemptConstrained, budgets

(* Nothing is measured: what is known of the usage stays.                  *)
LEMMA MeasuredStays ==
  ASSUME Measured' = Measured, \A d \in Measured : executions'[d] = executions[d]
  PROVE  /\ Tokens(executions', Measured') = Tokens(executions, Measured)
         /\ (\E d \in Measured' : executions'[d].tokens = None)
            <=> \E d \in Measured : executions[d].tokens = None
<1>1. Tokens(executions', Measured) = Tokens(executions, Measured)
  BY MeasuredFinite, TokensSame
<1> QED  BY <1>1

LEMMA UsageStays ==
  ASSUME UsageInv, ClosedInv,
         UNCHANGED <<budgets, current, usage, observed_tokens>>,
         Measured' = Measured, \A d \in Measured : executions'[d] = executions[d]
  PROVE  UsageInv' /\ ClosedInv'
<1>1. UsageInv'
  BY MeasuredStays DEF UsageInv, Lost
<1>2. ASSUME max_tokens' # None, NEW c \in Started' PROVE Closed(c)'
  <2>1. c \in Started /\ max_tokens # None
    BY <1>2 DEF Started, budgets
  <2>2. Closed(c)
    BY <2>1 DEF ClosedInv
  <2> QED  BY <2>2, EarlierStays, ClosedStays
<1> QED  BY <1>1, <1>2 DEF ClosedInv

(* A canary starts only if what was measured left something.               *)
LEMMA StartCloses ==
  ASSUME IInv, UsageInv, ClosedInv, NEW c \in Canary, StartCanary(c)
  PROVE  UsageInv' /\ ClosedInv'
<1>1. /\ IsNext(c) /\ ~OutOfTokens /\ current' = c /\ phase = "visit"
      /\ UNCHANGED <<budgets, usage, observed_tokens, executions>>
  BY DEF StartCanary, counters
<1>2. Measured' = Measured /\ current = None /\ usage = 0 /\ c # None
  BY <1>1, NoneAssumption DEF Measured, IInv, RunInv, UsageInv, Canary
<1>3. UsageInv'
  BY <1>1, <1>2, MeasuredStays DEF UsageInv, Lost
<1>4. ASSUME max_tokens # None, Earlier(c) # {}
      PROVE  /\ \A d \in Earlier(c) : executions[d].tokens # None
             /\ Tokens(executions, Earlier(c)) < max_tokens
  <2>1. Earlier(c) = Measured
    BY <1>1, MeasuredBefore DEF Earlier
  <2>2. completed_canaries # 0
    BY <1>4, <2>1, MeasuredFinite, FS_EmptySet DEF IInv, BudgetInv
  <2>3. observed_tokens # None /\ ~(observed_tokens >= max_tokens)
    BY <1>1, <1>4, <2>2 DEF OutOfTokens, IInv, TypeOK
  <2>4. observed_tokens = Tokens(executions, Measured) + 0
    BY <1>2, <2>3 DEF UsageInv
  <2>5. \A d \in Measured : executions[d].tokens \in Nat
    BY <2>3, MeasuredUsage DEF UsageInv, Lost
  <2>6. Tokens(executions, Measured) \in Nat
    BY <2>5, MeasuredFinite, TokensNat
  <2>7. max_tokens \in Nat
    BY <1>4, BudgetAssumption DEF IInv, TypeOK
  <2> QED  BY <2>1, <2>3, <2>4, <2>5, <2>6, <2>7, NoneAssumption
<1>5. ASSUME max_tokens' # None, NEW b \in Started' PROVE Closed(b)'
  <2>1. b \in Started \/ b = c
    BY <1>1, <1>2 DEF Started
  <2>2. max_tokens # None
    BY <1>1, <1>5 DEF budgets
  <2>3. Closed(b)
    BY <2>1, <2>2, <1>4 DEF ClosedInv, Closed
  <2> QED  BY <1>1, <1>2, <2>3, EarlierStays, ClosedStays
<1> QED  BY <1>3, <1>5 DEF ClosedInv

LEMMA AttemptCloses ==
  ASSUME IInv, UsageInv, ClosedInv, NEW valid \in BOOLEAN, NEW success \in BOOLEAN,
         NEW tokens \in TokenCosts \cup {None}, RunAttempt(valid, success, tokens)
  PROVE  UsageInv' /\ ClosedInv'
<1>1. /\ phase = "run" /\ UNCHANGED <<budgets, current, executions>>
      /\ usage' = AddUsage(usage, tokens)
      /\ observed_tokens' = AddObserved(observed_tokens, tokens)
  BY DEF RunAttempt
<1>2. Measured' = Measured /\ current # None
  BY <1>1 DEF Measured, IInv, RunInv
<1>3. /\ tokens \in Nat \cup {None} /\ usage \in Nat \cup {None}
      /\ observed_tokens \in Nat \cup {None}
  BY BudgetAssumption DEF IInv, TypeOK
<1>4. UsageInv'
  <2>1. /\ Tokens(executions', Measured') = Tokens(executions, Measured)
        /\ (\E d \in Measured' : executions'[d].tokens = None)
           <=> \E d \in Measured : executions[d].tokens = None
    BY <1>1, <1>2, MeasuredStays
  <2>2. CASE observed_tokens = None
    <3>1. Lost
      BY <2>2 DEF UsageInv
    <3>2. Lost' /\ observed_tokens' = None
      BY <1>1, <2>1, <2>2, <3>1 DEF Lost, AddUsage, AddObserved
    <3> QED  BY <1>1, <1>2, <3>2 DEF UsageInv
  <2>3. CASE observed_tokens # None /\ tokens = None
    <3>1. Lost' /\ observed_tokens' = None
      BY <1>1, <2>3 DEF Lost, AddUsage, AddObserved
    <3> QED  BY <1>1, <1>2, <3>1 DEF UsageInv
  <2>4. CASE observed_tokens # None /\ tokens # None
    <3>1. ~Lost /\ observed_tokens = Tokens(executions, Measured) + usage
      BY <2>4 DEF UsageInv
    <3>2. /\ usage \in Nat /\ tokens \in Nat /\ observed_tokens \in Nat
          /\ usage' = usage + tokens /\ observed_tokens' = observed_tokens + tokens
      BY <1>1, <1>3, <2>4, <3>1 DEF Lost, AddUsage, AddObserved
    <3>3. Tokens(executions, Measured) \in Nat
      <4>1. \A d \in Measured : executions[d].tokens \in Nat
        BY <3>1, MeasuredUsage DEF Lost
      <4> QED  BY <4>1, MeasuredFinite, TokensNat
    <3>4. ~Lost' /\ observed_tokens' # None
      <4>1. usage' # None /\ observed_tokens' # None
        BY <3>2, NoneAssumption
      <4> QED  BY <2>1, <3>1, <4>1 DEF Lost
    <3>5. observed_tokens' = Tokens(executions, Measured) + usage'
      BY <3>1, <3>2, <3>3
    <3> QED  BY <1>1, <1>2, <2>1, <3>4, <3>5 DEF UsageInv
  <2> QED  BY <2>2, <2>3, <2>4
<1>5. ASSUME max_tokens' # None, NEW c \in Started' PROVE Closed(c)'
  <2>1. c \in Started /\ max_tokens # None
    BY <1>1, <1>2, <1>5 DEF Started, budgets
  <2>2. Closed(c)
    BY <2>1 DEF ClosedInv
  <2> QED  BY <1>1, <1>2, <2>2, EarlierStays, ClosedStays
<1> QED  BY <1>4, <1>5 DEF ClosedInv

LEMMA FinishCloses ==
  ASSUME IInv, UsageInv, ClosedInv, FinishCanary
  PROVE  UsageInv' /\ ClosedInv'
<1> DEFINE e == [skipped |-> FALSE, baseline |-> tally["baseline"],
                 candidate |-> tally["candidate"], tokens |-> usage]
<1>1. /\ current \in Canary /\ IsNext(current) /\ executions[current] = None
      /\ executions' = [executions EXCEPT ![current] = e]
      /\ executions \in [Canary -> Execution \cup {None}]
      /\ usage' = 0 /\ current' = None /\ UNCHANGED <<budgets, observed_tokens>>
  BY DEF IInv, TypeOK, RunInv, FinishCanary, IsNext, Unvisited
<1>2. /\ executions'[current] = e
      /\ \A d \in Canary : d # current => executions'[d] = executions[d]
  BY <1>1
<1>3. e # None
  <2>1. e \in Execution
    <3>1. /\ tally["baseline"] \in Aggregates(Repetitions)
          /\ tally["candidate"] \in Aggregates(Repetitions)
          /\ usage \in Nat \cup {None}
      BY TallyIsAggregate DEF FinishCanary, IInv, TypeOK, Sides
    <3> QED  BY <3>1 DEF Execution
  <2> QED  BY <2>1, NoneAssumption
<1>4. Measured' = Measured \cup {current} /\ current \notin Measured
  BY <1>1, <1>2, <1>3 DEF Measured
<1>5. \A d \in Measured : d # current /\ executions'[d] = executions[d]
  BY <1>2, <1>4 DEF Measured
<1>6. UsageInv'
  <2>1. Lost' <=> Lost
    <3>1. usage' # None
      BY <1>1, NoneAssumption
    <3>2. e.tokens = usage
      OBVIOUS
    <3> HIDE DEF e
    <3> QED  BY <1>2, <1>4, <1>5, <3>1, <3>2 DEF Lost
  <2>2. ASSUME observed_tokens # None
        PROVE  observed_tokens = Tokens(executions', Measured') + 0
    <3>1. ~Lost /\ observed_tokens = Tokens(executions, Measured) + usage
      BY <2>2 DEF UsageInv
    <3>2. \A d \in Measured : executions[d].tokens \in Nat
      BY <3>1, MeasuredUsage DEF Lost
    <3>3. usage \in Nat /\ executions'[current].tokens = usage
      BY <1>2, <3>1 DEF Lost, IInv, TypeOK
    <3>4. \A d \in Measured \cup {current} : executions'[d].tokens \in Nat
      BY <1>5, <3>2, <3>3
    <3>5. /\ Tokens(executions', Measured) \in Nat
          /\ Tokens(executions', Measured \cup {current})
             = Tokens(executions', Measured) + usage
      BY <1>4, <3>3, <3>4, MeasuredFinite, TokensOfOneMore
    <3>6. Tokens(executions', Measured) = Tokens(executions, Measured)
      BY <1>5, MeasuredFinite, TokensSame
    <3> QED  BY <1>4, <3>1, <3>3, <3>5, <3>6
  <2> QED  BY <1>1, <2>1, <2>2 DEF UsageInv
<1>7. ASSUME max_tokens' # None, NEW c \in Started' PROVE Closed(c)'
  <2>1. c \in Started /\ max_tokens # None
    BY <1>1, <1>4, <1>7, NoneAssumption DEF Started, budgets, Canary
  <2>2. Closed(c)
    BY <2>1 DEF ClosedInv
  <2>3. c \in Measured \/ c = current
    BY <1>1, <2>1 DEF Started
  <2>4. ~(current # c /\ Before(current, c))
    BY <1>1, <2>3, MeasuredBefore
  <2>5. Earlier(c)' = {d \in Measured' : d # c /\ Before(d, c)}
    BY <1>1 DEF Earlier, Before, PrioritizeCritical, AttemptConstrained, budgets
  <2>6. Earlier(c)' = Earlier(c)
    BY <1>4, <2>4, <2>5 DEF Earlier
  <2> QED  BY <1>1, <1>5, <2>2, <2>6, ClosedStays
<1> QED  BY <1>6, <1>7 DEF ClosedInv

LEMMA NextCloses ==
  ASSUME IInv, UsageInv, ClosedInv, [Next]_vars
  PROVE  UsageInv' /\ ClosedInv'
<1>1. ASSUME NEW c \in Canary, SkipCanary(c) PROVE UsageInv' /\ ClosedInv'
  <2>1. /\ UNCHANGED <<budgets, current, usage, observed_tokens>>
        /\ executions' = [executions EXCEPT ![c] = SkippedExecution]
        /\ executions[c] = None /\ executions \in [Canary -> Execution \cup {None}]
    BY <1>1 DEF SkipCanary, attempts, counters, IsNext, Unvisited, IInv, TypeOK
  <2>2. SkippedExecution.skipped /\ SkippedExecution # None
    BY SkippedIsExecution, NoneAssumption DEF SkippedExecution
  <2>3. Measured' = Measured /\ \A d \in Measured : executions'[d] = executions[d]
    BY <2>1, <2>2 DEF Measured
  <2> QED  BY <2>1, <2>3, UsageStays
<1>2. ASSUME NEW c \in Canary, StartCanary(c) PROVE UsageInv' /\ ClosedInv'
  BY <1>2, StartCloses
<1>3. CASE AttemptReturns
  BY <1>3, AttemptCloses DEF AttemptReturns
<1>4. CASE FinishCanary
  BY <1>4, FinishCloses
<1>5. CASE Return \/ BackendRaises \/ UNCHANGED vars
  <2>1. UNCHANGED <<budgets, current, usage, observed_tokens>> /\ UNCHANGED executions
    BY <1>5 DEF Return, BackendRaises, vars, attempts, counters
  <2>2. Measured' = Measured /\ \A d \in Measured : executions'[d] = executions[d]
    BY <2>1 DEF Measured
  <2> QED  BY <2>1, <2>2, UsageStays
<1> QED BY <1>1, <1>2, <1>3, <1>4, <1>5 DEF Next

LEMMA InitCloses == ASSUME Init PROVE UsageInv /\ ClosedInv
<1>1. /\ current = None /\ usage = 0 /\ observed_tokens = 0
      /\ executions = [c \in Canary |-> None]
  BY DEF Init
<1>2. Measured = {} /\ Started = {}
  BY <1>1 DEF Measured, Started
<1>3. Tokens(executions, Measured) = 0
  BY <1>2, TokensOfNone
<1> QED  BY <1>1, <1>2, <1>3, NoneAssumption DEF UsageInv, Lost, ClosedInv

(* A token budget is closed for good by usage that was not observed, and   *)
(* by usage that reached it: whatever the suite, its order and the costs,  *)
(* no canary after the first starts then (executor.py:100-137, 208-222).   *)
THEOREM TokenBudgetHolds == Spec => []TokenBudgetCloses
<1>1. Init => UsageInv /\ ClosedInv
  BY InitCloses
<1>2. IInv /\ UsageInv /\ ClosedInv /\ [Next]_vars => UsageInv' /\ ClosedInv'
  BY NextCloses
<1>3. ClosedInv => TokenBudgetCloses
  BY DEF ClosedInv, Closed, Earlier, TokenBudgetCloses, Tokens, MapThenSumSet, MapThenFoldSet
<1> QED BY <1>1, <1>2, <1>3, Inductive, PTL DEF Spec

(* A complete comparison of a canary, and what it says.                    *)
LEMMA CanaryJudged ==
  ASSUME NEW b \in Aggregates(Repetitions), NEW a \in Aggregates(Repetitions),
         NEW c
  PROVE  LET full(x) == x = [valid |-> Repetitions, successes |-> Repetitions]
             v == QualifyCanary(b, a, Repetitions, c \in Critical)
         IN  /\ v \in Verdicts
             /\ v = "INCOMPLETE" <=> ~(b.valid = Repetitions /\ a.valid = Repetitions)
             /\ v = "PASS" <=> full(b) /\ full(a)
             /\ v = "BLOCK" <=> /\ b.valid = Repetitions /\ a.valid = Repetitions
                                /\ c \in Critical /\ full(b) /\ a.successes = 0
<1> DEFINE R == Repetitions
           full(x) == x = [valid |-> Repetitions, successes |-> Repetitions]
           complete == b.valid >= R /\ a.valid >= R
           stable == b.successes = R
           matches == a.successes = R
           v == QualifyCanary(b, a, Repetitions, c \in Critical)
<1>1. /\ R \in Nat \ {0} /\ b.valid \in 0..R /\ a.valid \in 0..R
      /\ b.successes \in 0..R /\ a.successes \in 0..R
      /\ b.successes <= b.valid /\ a.successes <= a.valid
      /\ b = [valid |-> b.valid, successes |-> b.successes]
      /\ a = [valid |-> a.valid, successes |-> a.successes]
  BY SuiteAssumption DEF Aggregates
<1>2. complete <=> b.valid = R /\ a.valid = R
  BY <1>1
<1>3. (full(b) <=> b.valid = R /\ b.successes = R) /\ (full(a) <=> a.valid = R /\ a.successes = R)
  BY <1>1
<1>4. (matches => a.valid = R) /\ (stable => b.valid = R) /\ (matches => a.successes # 0)
  BY <1>1
<1>5. CASE ~complete
  BY <1>2, <1>3, <1>5 DEF QualifyCanary, Verdicts
<1>6. CASE complete /\ ~stable
  BY <1>2, <1>3, <1>6 DEF QualifyCanary, Verdicts
<1>7. CASE complete /\ stable /\ matches
  BY <1>2, <1>3, <1>4, <1>7 DEF QualifyCanary, Verdicts
<1>8. CASE complete /\ stable /\ ~matches
  BY <1>2, <1>3, <1>8 DEF QualifyCanary, Verdicts
<1> QED BY <1>5, <1>6, <1>7, <1>8

LEMMA SuiteJudged ==
  ASSUME NEW S \in SUBSET Verdicts
  PROVE  LET v == QualifySuite(S)
         IN  /\ v \in Verdicts
             /\ v = "INCOMPLETE" <=> "INCOMPLETE" \in S
             /\ v = "BLOCK" <=> "BLOCK" \in S /\ "INCOMPLETE" \notin S
             /\ v = "PASS" <=> \A w \in S : w = "PASS"
BY DEF QualifySuite, Verdicts

LEMMA ResultStays ==
  ASSUME IInv, ResultInv, [Next]_vars
  PROVE  ResultInv'
<1>1. CASE Return
  <2>1. executions' = executions /\ Unvisited = {}
        /\ result' = QualifySuite({CanaryVerdict(c) : c \in Canary})
    BY <1>1 DEF Return
  <2>2. {CanaryVerdict(c) : c \in Canary}' = {CanaryVerdict(c) : c \in Canary}
    BY <2>1 DEF CanaryVerdict
  <2> QED  BY <2>1, <2>2 DEF ResultInv, Unvisited
<1>2. CASE UNCHANGED vars
  BY <1>2 DEF ResultInv, Unvisited, CanaryVerdict, vars
<1>3. CASE ~Return /\ ~UNCHANGED vars
  <2>1. phase' # "done" /\ result' = result /\ phase # "done"
    BY <1>3 DEF Next, SkipCanary, StartCanary, AttemptReturns, RunAttempt, FinishCanary,
                BackendRaises
  <2>2. result = None
    BY <2>1 DEF IInv, VisitInv
  <2> QED  BY <2>1, <2>2 DEF ResultInv
<1> QED  BY <1>1, <1>2, <1>3

(* No verdict is returned that the attempts do not bear out: PASS and      *)
(* BLOCK only over every attempt of every canary, BLOCK only for a         *)
(* critical canary that fell from full success to none (executor.py:       *)
(* 246-268, policy.py:22-81).                                              *)
THEOREM VerdictHolds == Spec => []VerdictEarned
<1>1. Init => ResultInv
  BY DEF Init, ResultInv
<1>2. IInv /\ ResultInv /\ [Next]_vars => ResultInv'
  BY ResultStays
<1>3. ASSUME IInv, ResultInv, result # None PROVE VerdictEarned
  <2> DEFINE full(x) == x = [valid |-> Repetitions, successes |-> Repetitions]
             S == {CanaryVerdict(c) : c \in Canary}
             b(c) == executions[c].baseline
             a(c) == executions[c].candidate
             whole(c) == b(c).valid = Repetitions /\ a(c).valid = Repetitions
  <2>1. Unvisited = {} /\ result = QualifySuite(S)
    BY <1>3 DEF ResultInv, IInv, VisitInv
  <2>2. \A c \in Canary : executions[c] \in Execution /\ executions[c] # None
    BY <2>1, <1>3 DEF Unvisited, IInv, TypeOK
  <2>3. ASSUME NEW c \in Canary
        PROVE  /\ CanaryVerdict(c) \in Verdicts
               /\ CanaryVerdict(c) = "INCOMPLETE" <=> ~whole(c)
               /\ CanaryVerdict(c) = "PASS" <=> full(b(c)) /\ full(a(c))
               /\ CanaryVerdict(c) = "BLOCK" <=>
                    whole(c) /\ c \in Critical /\ full(b(c)) /\ a(c).successes = 0
    <3>1. b(c) \in Aggregates(Repetitions) /\ a(c) \in Aggregates(Repetitions)
      BY <2>2 DEF Execution
    <3> DEFINE bb == b(c)
               aa == a(c)
               v == QualifyCanary(bb, aa, Repetitions, c \in Critical)
    <3>2. bb \in Aggregates(Repetitions) /\ aa \in Aggregates(Repetitions)
      BY <3>1
    <3>3. CanaryVerdict(c) = v
      BY DEF CanaryVerdict
    <3> HIDE DEF bb, aa
    <3>4. /\ v \in Verdicts
          /\ v = "INCOMPLETE" <=> ~(bb.valid = Repetitions /\ aa.valid = Repetitions)
          /\ v = "PASS" <=> full(bb) /\ full(aa)
          /\ v = "BLOCK" <=> /\ bb.valid = Repetitions /\ aa.valid = Repetitions
                             /\ c \in Critical /\ full(bb) /\ aa.successes = 0
      BY <3>2, CanaryJudged
    <3> QED  BY <3>3, <3>4 DEF bb, aa
  <2>4. /\ result = "INCOMPLETE" <=> "INCOMPLETE" \in S
        /\ result = "BLOCK" <=> "BLOCK" \in S /\ "INCOMPLETE" \notin S
        /\ result = "PASS" <=> \A w \in S : w = "PASS"
    <3>1. S \in SUBSET Verdicts
      BY <2>3
    <3> HIDE DEF S
    <3> QED  BY <2>1, <3>1, SuiteJudged
  <2>5. result = "INCOMPLETE" <=> ~(\A c \in Canary : whole(c))
    BY <2>3, <2>4
  <2>6. Measured \cup Skipped = Canary
    BY <2>2 DEF Measured, Skipped
  <2>7. ASSUME NEW c \in Skipped PROVE c \in Canary /\ ~whole(c)
    <3>1. c \in Canary /\ b(c) = NoRuns
      BY <1>3, <2>7 DEF Skipped, IInv, VisitInv
    <3>2. Repetitions # 0 /\ NoRuns.valid = 0
      BY SuiteAssumption DEF NoRuns
    <3> QED  BY <3>1, <3>2
  <2>8. result = "PASS" <=> \A c \in Canary : full(b(c)) /\ full(a(c))
    BY <2>3, <2>4
  <2>9. result = "BLOCK" <=>
          /\ \A c \in Canary : whole(c)
          /\ \E c \in Critical : full(b(c)) /\ a(c).successes = 0
    <3>1. Critical \subseteq Canary
      BY SuiteAssumption DEF Canary
    <3>2. "BLOCK" \in S <=> \E c \in Canary : CanaryVerdict(c) = "BLOCK"
      OBVIOUS
    <3>3. "INCOMPLETE" \in S <=> \E c \in Canary : CanaryVerdict(c) = "INCOMPLETE"
      OBVIOUS
    <3> HIDE DEF S, full, whole, a, b
    <3> QED  BY <2>3, <2>4, <3>1, <3>2, <3>3
  <2> HIDE DEF S
  <2> QED  BY <2>5, <2>6, <2>7, <2>8, <2>9 DEF VerdictEarned
<1>4. IInv /\ ResultInv => VerdictEarned
  BY <1>3 DEF VerdictEarned
<1> QED BY <1>1, <1>2, <1>4, Inductive, PTL DEF Spec

-----------------------------------------------------------------------------
(* The evidence bundle.                                                    *)

Attempt == [canary : Canary, side : Sides, repetition : 1..Repetitions,
            valid : BOOLEAN, success : BOOLEAN,
            tokens : TokenCosts \cup {None}, late : BOOLEAN]

(* The slot of the schedule an attempt fills.                              *)
SlotPair(k) == <<SlotSide(orientation, k), SlotRepetition(k)>>

(* The trace is as long as the counter says, and its tokens are the ones   *)
(* counted.                                                                *)
TraceInv ==
  /\ trace \in Seq(Attempt)
  /\ attempts_used = Len(trace)
  /\ observed_tokens = TokensOf(trace)

(* What was recorded of every canary is what its attempts show.            *)
RecordOf(c) ==
  LET items == Attempts(c)
  IN  /\ Cardinality(SlotsOf(items)) = Count(items)
      /\ c \notin Started => DOMAIN items = {}
      /\ c \in Measured =>
           /\ Count(items) = AttemptsPerCanary
           /\ executions[c].baseline = Aggregate(items, "baseline")
           /\ executions[c].candidate = Aggregate(items, "candidate")
      /\ c = current =>
           /\ Count(items) = slot
           /\ \A s \in Sides : tally[s] = Aggregate(items, s)
           /\ SlotsOf(items) = {SlotPair(k) : k \in 0..(slot - 1)}

RecordInv == \A c \in Canary : RecordOf(c)

(* The parts of the trace add up to the whole.                             *)
Lengths == [c \in Canary |-> [tokens |-> Count(Attempts(c))]]
Usages == [c \in Canary |-> [tokens |-> TokensOf(Attempts(c))]]

PartsInv ==
  /\ Len(trace) = Tokens(Lengths, Canary)
  /\ TokensOf(trace) = IF \E c \in Canary : Usages[c].tokens = None THEN None
                       ELSE Tokens(Usages, Canary)

(* The reasons given for skipping are still the ones the budgets explain:  *)
(* nothing runs after a skip.                                              *)
ReasonInv ==
  /\ DOMAIN skip_reason = Canary
  /\ \A c \in Skipped : skip_reason[c] \in BudgetSkipReasons(Limits, observed_tokens)

JudgedInv ==
  phase = "done" => result = QualifySuite({CanaryVerdict(c) : c \in Canary})

EInv == TraceInv /\ RecordInv /\ PartsInv /\ ReasonInv /\ JudgedInv

(* One place more: what is derived from a list changes by what is there.   *)
OneMore(D, n, f, g) ==
  /\ IsFiniteSet(D) /\ n \notin D
  /\ f \in [D -> Attempt] /\ g \in [D \cup {n} -> Attempt]
  /\ \A i \in D : g[i] = f[i]

Adding(t, a, s) ==
  [valid |-> a.valid + (IF t.side = s /\ t.valid THEN 1 ELSE 0),
   successes |-> a.successes + (IF t.side = s /\ t.valid /\ t.success THEN 1 ELSE 0)]

LEMMA CountOneMore ==
  ASSUME NEW D, NEW n, NEW f, NEW g, OneMore(D, n, f, g)
  PROVE  Count(f) \in Nat /\ Count(g) = Count(f) + 1
<1>1. DOMAIN f = D /\ DOMAIN g = D \cup {n} /\ IsFiniteSet(D) /\ n \notin D
  BY DEF OneMore
<1> QED  BY <1>1, FS_AddElement, FS_CardinalityType DEF Count

LEMMA SlotsOneMore ==
  ASSUME NEW D, NEW n, NEW f, NEW g, OneMore(D, n, f, g)
  PROVE  SlotsOf(g) = SlotsOf(f) \cup {<<g[n].side, g[n].repetition>>}
<1>1. Range(g) = Range(f) \cup {g[n]}
  <2>1. DOMAIN f = D /\ DOMAIN g = D \cup {n} /\ \A i \in D : g[i] = f[i]
    BY DEF OneMore
  <2> QED  BY <2>1 DEF Range
<1> QED  BY <1>1 DEF SlotsOf

(* The places of the valid attempts of a side, and of the successful ones. *)
Valid(f, s) == {i \in DOMAIN f : f[i].side = s /\ f[i].valid}
Won(f, s) == {i \in Valid(f, s) : f[i].success}

LEMMA AggregateCounts ==
  ASSUME NEW f, NEW s
  PROVE  Aggregate(f, s) = [valid |-> Cardinality(Valid(f, s)),
                            successes |-> Cardinality(Won(f, s))]
BY DEF Aggregate, Valid, Won

LEMMA AggregateOneMore ==
  ASSUME NEW D, NEW n, NEW f, NEW g, OneMore(D, n, f, g), NEW s
  PROVE  Aggregate(g, s) = Adding(g[n], Aggregate(f, s), s)
<1> DEFINE valid == IF g[n].side = s /\ g[n].valid THEN {n} ELSE {}
           won == IF g[n].side = s /\ g[n].valid /\ g[n].success THEN {n} ELSE {}
<1>1. DOMAIN f = D /\ DOMAIN g = D \cup {n} /\ IsFiniteSet(D) /\ n \notin D
      /\ \A i \in D : g[i] = f[i]
  BY DEF OneMore
<1>2. Valid(g, s) = Valid(f, s) \cup valid /\ Won(g, s) = Won(f, s) \cup won
  BY <1>1 DEF Valid, Won
<1>3. Valid(f, s) \in SUBSET D /\ Won(f, s) \in SUBSET D
  BY <1>1 DEF Valid, Won
<1>4. ASSUME NEW S \in SUBSET D
      PROVE  /\ Cardinality(S \cup {n}) = Cardinality(S) + 1
             /\ Cardinality(S) \in Nat
  <2>1. IsFiniteSet(S) /\ n \notin S
    BY <1>1, FS_Subset
  <2> QED  BY <2>1, FS_AddElement, FS_CardinalityType
<1>5. Cardinality(Valid(g, s)) =
        Cardinality(Valid(f, s)) + (IF g[n].side = s /\ g[n].valid THEN 1 ELSE 0)
  <2>1. CASE g[n].side = s /\ g[n].valid
    BY <2>1, <1>2, <1>3, <1>4
  <2>2. CASE ~(g[n].side = s /\ g[n].valid)
    <3>1. Valid(g, s) = Valid(f, s)
      BY <2>2, <1>2
    <3>2. Cardinality(Valid(f, s)) \in Nat
      BY <1>3, <1>4
    <3> QED  BY <2>2, <3>1, <3>2
  <2> QED  BY <2>1, <2>2
<1>6. Cardinality(Won(g, s)) =
        Cardinality(Won(f, s)) + (IF g[n].side = s /\ g[n].valid /\ g[n].success THEN 1 ELSE 0)
  <2>1. CASE g[n].side = s /\ g[n].valid /\ g[n].success
    BY <2>1, <1>2, <1>3, <1>4
  <2>2. CASE ~(g[n].side = s /\ g[n].valid /\ g[n].success)
    <3>1. Won(g, s) = Won(f, s)
      BY <2>2, <1>2
    <3>2. Cardinality(Won(f, s)) \in Nat
      BY <1>3, <1>4
    <3> QED  BY <2>2, <3>1, <3>2
  <2> QED  BY <2>1, <2>2
<1> QED  BY <1>5, <1>6, AggregateCounts DEF Adding

(* The tokens of a list are those of its places, if all were observed.     *)
LEMMA TokensOfList ==
  ASSUME NEW D, NEW f \in [D -> Attempt]
  PROVE  TokensOf(f) = IF \E i \in D : f[i].tokens = None THEN None ELSE Tokens(f, D)
<1>1. DOMAIN f = D
  OBVIOUS
<1>2. (\E t \in Range(f) : t.tokens = None) <=> \E i \in D : f[i].tokens = None
  BY <1>1 DEF Range
<1> QED  BY <1>1, <1>2 DEF TokensOf, Tokens

LEMMA TokensOfListType ==
  ASSUME NEW D, IsFiniteSet(D), NEW f \in [D -> Attempt]
  PROVE  TokensOf(f) \in Nat \cup {None}
<1>1. \A i \in D : f[i].tokens \in Nat \cup {None}
  BY BudgetAssumption DEF Attempt
<1>2. CASE \E i \in D : f[i].tokens = None
  BY <1>2, TokensOfList
<1>3. CASE ~\E i \in D : f[i].tokens = None
  BY <1>1, <1>3, TokensOfList, TokensNat
<1> QED  BY <1>2, <1>3

LEMMA TokensOneMore ==
  ASSUME NEW D, NEW n, NEW f, NEW g, OneMore(D, n, f, g)
  PROVE  TokensOf(g) = AddUsage(TokensOf(f), g[n].tokens)
<1> DEFINE E == D \cup {n}
<1>1. /\ IsFiniteSet(D) /\ n \notin D /\ f \in [D -> Attempt] /\ g \in [E -> Attempt]
      /\ \A i \in D : g[i] = f[i]
  BY DEF OneMore
<1>2. \A i \in E : g[i].tokens \in Nat \cup {None}
  BY <1>1, BudgetAssumption DEF Attempt
<1>3. TokensOf(f) = IF \E i \in D : g[i].tokens = None THEN None ELSE Tokens(f, D)
  BY <1>1, TokensOfList
<1>4. TokensOf(g) = IF \E i \in E : g[i].tokens = None THEN None ELSE Tokens(g, E)
  <2> HIDE DEF E
  <2> QED  BY <1>1, TokensOfList
<1>5. Tokens(g, D) = Tokens(f, D)
  BY <1>1, TokensSame
<1>6. CASE \E i \in D : g[i].tokens = None
  BY <1>3, <1>4, <1>6 DEF AddUsage
<1>7. CASE g[n].tokens = None
  BY <1>4, <1>7 DEF AddUsage
<1>8. CASE \A i \in E : g[i].tokens # None
  <2>1. \A i \in E : g[i].tokens \in Nat
    BY <1>2, <1>8
  <2>2. Tokens(g, D) \in Nat /\ Tokens(g, E) = Tokens(g, D) + g[n].tokens
    BY <1>1, <2>1, TokensOfOneMore
  <2>3. TokensOf(f) = Tokens(g, D) /\ TokensOf(g) = Tokens(g, E)
    BY <1>3, <1>4, <1>5, <1>8
  <2> QED  BY <2>1, <2>2, <2>3, NoneAssumption DEF AddUsage
<1> QED  BY <1>6, <1>7, <1>8

(* Sums over the suite.                                                    *)
LEMMA SumOfZeros ==
  ASSUME NEW S, IsFiniteSet(S), NEW ex, \A x \in S : ex[x].tokens = 0
  PROVE  Tokens(ex, S) = 0
<1>1. PICK it : Adds(ex, S, it) /\ Tokens(ex, S) = it[S]
  BY TokensAdds
<1> DEFINE Good == {s \in SUBSET S : it[s] = 0}
<1>2. ASSUME NEW s \in SUBSET S, \A x \in s : s \ {x} \in Good PROVE s \in Good
  <2>1. CASE s = {}
    BY <1>1, <2>1, AddsNothing
  <2>2. CASE s # {}
    <3>1. One(s) \in s /\ it[s] = ex[One(s)].tokens + it[s \ {One(s)}]
      BY <1>1, <2>2, AddsAtOne
    <3>2. ex[One(s)].tokens = 0 /\ it[s \ {One(s)}] = 0
      BY <1>2, <3>1
    <3> QED  BY <3>1, <3>2
  <2> QED  BY <2>1, <2>2
<1>3. SUBSET S \subseteq Good
  <2> HIDE DEF Good
  <2> QED  BY <1>2, FiniteInduction
<1> QED  BY <1>1, <1>3

LEMMA SumChanges ==
  ASSUME NEW S, IsFiniteSet(S), NEW y \in S, NEW k \in Nat, NEW ex, NEW ex2,
         \A x \in S : ex[x].tokens \in Nat,
         \A x \in S \ {y} : ex2[x].tokens = ex[x].tokens,
         ex2[y].tokens = ex[y].tokens + k
  PROVE  Tokens(ex2, S) = Tokens(ex, S) + k
<1> DEFINE R == S \ {y}
<1>1. IsFiniteSet(R) /\ y \notin R /\ R \cup {y} = S
  BY FS_Subset
<1>2. \A x \in S : ex2[x].tokens \in Nat
  OBVIOUS
<1>3. \A x \in R : ex2[x].tokens = ex[x].tokens
  OBVIOUS
<1> HIDE DEF R
<1>4. Tokens(ex, R) \in Nat /\ Tokens(ex, S) = Tokens(ex, R) + ex[y].tokens
  BY <1>1, TokensOfOneMore
<1>5. Tokens(ex2, S) = Tokens(ex2, R) + ex2[y].tokens
  BY <1>1, <1>2, TokensOfOneMore
<1>6. Tokens(ex2, R) = Tokens(ex, R)
  BY <1>1, <1>3, TokensSame
<1> QED  BY <1>4, <1>5, <1>6

(* The attempts of a canary are those at its places in the trace.          *)
Places(c) == {i \in DOMAIN trace : trace[i].canary = c}

LEMMA SequenceIsFunction ==
  ASSUME NEW S, NEW q \in Seq(S)
  PROVE  q \in [1..Len(q) -> S]
OBVIOUS

LEMMA TraceShape ==
  ASSUME TraceInv
  PROVE  /\ DOMAIN trace = 1..Len(trace) /\ Len(trace) \in Nat
         /\ IsFiniteSet(DOMAIN trace) /\ trace \in [DOMAIN trace -> Attempt]
<1>1. trace \in Seq(Attempt)
  BY DEF TraceInv
<1>2. DOMAIN trace = 1..Len(trace) /\ Len(trace) \in Nat /\ trace \in [1..Len(trace) -> Attempt]
  BY <1>1
<1>3. IsFiniteSet(1..Len(trace))
  BY <1>2, FS_Interval
<1> QED  BY <1>2, <1>3

LEMMA AttemptsShape ==
  ASSUME TraceInv, NEW c
  PROVE  /\ IsFiniteSet(Places(c)) /\ Places(c) \subseteq DOMAIN trace
         /\ Attempts(c) = [i \in Places(c) |-> trace[i]]
         /\ Attempts(c) \in [Places(c) -> Attempt]
         /\ DOMAIN Attempts(c) = Places(c)
<1>1. Places(c) \subseteq DOMAIN trace
  BY DEF Places
<1>2. IsFiniteSet(Places(c))
  BY <1>1, TraceShape, FS_Subset
<1>3. Attempts(c) = [i \in Places(c) |-> trace[i]]
  BY DEF Attempts, AttemptsIn, Restrict, Places
<1> QED  BY <1>1, <1>2, <1>3, TraceShape

LEMMA CountsAreNumbers ==
  ASSUME TraceInv, NEW c
  PROVE  Count(Attempts(c)) \in Nat /\ TokensOf(Attempts(c)) \in Nat \cup {None}
<1> QED  BY AttemptsShape, TokensOfListType, FS_CardinalityType DEF Count

AttemptsShaped ==
  \A c \in Canary : /\ Attempts(c) = [i \in Places(c) |-> trace[i]]
                    /\ Attempts(c) \in [Places(c) -> Attempt]

LEMMA ShapedNext == TraceInv' => AttemptsShaped'
<1>1. TraceInv => AttemptsShaped
  BY AttemptsShape DEF AttemptsShaped
<1> QED  BY <1>1, PTL

(* The slots of a schedule are all different.                              *)
LEMMA SlotsDiffer ==
  ASSUME orientation \in Sides, NEW i \in Nat, NEW k \in Nat, SlotPair(i) = SlotPair(k)
  PROVE  i = k
<1>1. i \div 2 = k \div 2 /\ SlotRepetition(i) = SlotRepetition(k)
      /\ SlotSide(orientation, i) = SlotSide(orientation, k)
  <2>1. SlotRepetition(i) = SlotRepetition(k) /\ SlotSide(orientation, i) = SlotSide(orientation, k)
    BY DEF SlotPair
  <2>2. i \div 2 \in Nat /\ k \div 2 \in Nat
    OBVIOUS
  <2> QED  BY <2>1, <2>2 DEF SlotRepetition
<1>2. i % 2 = 0 <=> k % 2 = 0
  <2> DEFINE leader == IF SlotRepetition(i) % 2 = 1 THEN orientation ELSE OtherSide(orientation)
  <2>1. leader # OtherSide(leader)
    BY DEF OtherSide, Sides
  <2>2. /\ SlotSide(orientation, i) = IF i % 2 = 0 THEN leader ELSE OtherSide(leader)
        /\ SlotSide(orientation, k) = IF k % 2 = 0 THEN leader ELSE OtherSide(leader)
    BY <1>1 DEF SlotSide
  <2> HIDE DEF leader
  <2>3. CASE i % 2 = 0 /\ k % 2 # 0
    BY <1>1, <2>1, <2>2, <2>3
  <2>4. CASE i % 2 # 0 /\ k % 2 = 0
    BY <1>1, <2>1, <2>2, <2>4
  <2> QED  BY <2>3, <2>4
<1>3. /\ i = 2 * (i \div 2) + (i % 2) /\ i % 2 \in {0, 1}
      /\ k = 2 * (k \div 2) + (k % 2) /\ k % 2 \in {0, 1}
  OBVIOUS
<1> QED  BY <1>1, <1>2, <1>3

(* What an attempt adds: one place at the end of the trace, of the canary  *)
(* that is being run, for the next slot of its schedule.                   *)
Added(r, late) ==
  [canary |-> current, side |-> SlotSide(orientation, slot),
   repetition |-> SlotRepetition(slot), valid |-> r.valid,
   success |-> r.success, tokens |-> r.tokens, late |-> late]

LEMMA Running ==
  ASSUME IInv, NEW r \in Results, NEW late \in BOOLEAN, RecordAttempt(r, late)
  PROVE  /\ current \in Canary /\ orientation \in Sides /\ slot \in 0..(AttemptsPerCanary - 1)
         /\ current \notin Measured /\ Skipped = {} /\ phase = "run"
         /\ RunAttempt(r.valid, r.success, r.tokens)
         /\ r.valid \in BOOLEAN /\ r.success \in BOOLEAN /\ r.tokens \in TokenCosts \cup {None}
         /\ Added(r, late) \in Attempt /\ trace' = Append(trace, Added(r, late))
<1>1. RunAttempt(r.valid, r.success, r.tokens) /\ trace' = Append(trace, Added(r, late))
  BY DEF RecordAttempt, Added
<1>2. /\ current \in Canary /\ orientation \in Sides /\ slot \in 0..(AttemptsPerCanary - 1)
      /\ phase = "run" /\ IsNext(current) /\ Skipped = {}
  BY <1>1, SuiteAssumption DEF IInv, TypeOK, RunInv, RunAttempt, AttemptsPerCanary
<1>3. current \notin Measured
  BY <1>2 DEF IsNext, Unvisited, Measured
<1>4. r.valid \in BOOLEAN /\ r.success \in BOOLEAN /\ r.tokens \in TokenCosts \cup {None}
  BY ResultsAssumption
<1>5. SlotSide(orientation, slot) \in Sides /\ SlotRepetition(slot) \in 1..Repetitions
  BY <1>2, ScheduleShape
<1>6. Added(r, late) \in Attempt
  BY <1>2, <1>4, <1>5 DEF Added, Attempt
<1> QED  BY <1>1, <1>2, <1>3, <1>4, <1>6

LEMMA TraceGrows ==
  ASSUME TraceInv, NEW t \in Attempt, trace' = Append(trace, t)
  PROVE  LET n == Len(trace) + 1
         IN  /\ OneMore(DOMAIN trace, n, trace, trace')
             /\ trace'[n] = t /\ trace' \in Seq(Attempt) /\ Len(trace') = n
             /\ Places(t.canary)' = Places(t.canary) \cup {n}
             /\ \A c : c # t.canary => Places(c)' = Places(c)
             /\ \A i \in DOMAIN trace : trace'[i] = trace[i]
             /\ DOMAIN trace' = DOMAIN trace \cup {n} /\ n \notin DOMAIN trace
<1> DEFINE n == Len(trace) + 1
<1>1. trace \in Seq(Attempt) /\ DOMAIN trace = 1..Len(trace) /\ Len(trace) \in Nat
      /\ IsFiniteSet(DOMAIN trace) /\ trace \in [DOMAIN trace -> Attempt]
  BY TraceShape DEF TraceInv
<1>2. trace' \in Seq(Attempt) /\ Len(trace') = n /\ DOMAIN trace' = 1..n
  BY <1>1
<1>3. \A i \in DOMAIN trace : trace'[i] = trace[i]
  BY <1>1
<1>4. trace'[n] = t
  BY <1>1
<1>5. n \notin DOMAIN trace /\ DOMAIN trace' = DOMAIN trace \cup {n}
  BY <1>1, <1>2
<1>6. trace' \in [DOMAIN trace \cup {n} -> Attempt]
  <2>1. trace' \in [1..Len(trace') -> Attempt]
    BY <1>2, SequenceIsFunction
  <2> QED  BY <1>2, <1>5, <2>1
<1>7. OneMore(DOMAIN trace, n, trace, trace')
  BY <1>1, <1>3, <1>5, <1>6 DEF OneMore
<1> HIDE DEF n
<1>8. Places(t.canary)' = Places(t.canary) \cup {n}
  BY <1>3, <1>4, <1>5 DEF Places
<1>9. ASSUME NEW c, c # t.canary PROVE Places(c)' = Places(c)
  BY <1>3, <1>4, <1>5, <1>9 DEF Places
<1> QED  BY <1>2, <1>3, <1>4, <1>5, <1>7, <1>8, <1>9 DEF n

(* The attempts of the canary that is run have one more place; those of    *)
(* the others stay.                                                        *)
LEMMA AttemptsGrow ==
  ASSUME TraceInv, TraceInv', NEW t \in Attempt, trace' = Append(trace, t)
  PROVE  LET n == Len(trace) + 1
             y == t.canary
         IN  /\ OneMore(Places(y), n, Attempts(y), Attempts(y)')
             /\ Attempts(y)'[n] = t
             /\ \A c \in Canary \ {y} : Attempts(c)' = Attempts(c)
<1> DEFINE n == Len(trace) + 1
           y == t.canary
<1>1. /\ Places(y)' = Places(y) \cup {n} /\ trace'[n] = t
      /\ \A c : c # y => Places(c)' = Places(c)
      /\ \A i \in DOMAIN trace : trace'[i] = trace[i]
      /\ n \notin DOMAIN trace
  BY TraceGrows
<1> HIDE DEF n
<1>2. /\ IsFiniteSet(Places(y)) /\ Places(y) \subseteq DOMAIN trace
      /\ Attempts(y) = [i \in Places(y) |-> trace[i]] /\ Attempts(y) \in [Places(y) -> Attempt]
  BY AttemptsShape
<1>3. /\ y \in Canary
      /\ \A c \in Canary : /\ Attempts(c)' = [i \in Places(c)' |-> trace'[i]]
                           /\ Attempts(c)' \in [Places(c)' -> Attempt]
  BY ShapedNext DEF AttemptsShaped, Attempt
<1>4. OneMore(Places(y), n, Attempts(y), Attempts(y)')
  BY <1>1, <1>2, <1>3 DEF OneMore
<1>5. Attempts(y)'[n] = t
  BY <1>1, <1>3
<1>6. ASSUME NEW c \in Canary \ {y} PROVE Attempts(c)' = Attempts(c)
  <2>1. Places(c) \subseteq DOMAIN trace /\ Attempts(c) = [i \in Places(c) |-> trace[i]]
    BY AttemptsShape
  <2>2. Attempts(c)' = [i \in Places(c)' |-> trace'[i]] /\ Places(c)' = Places(c)
    BY <1>1, <1>3, <1>6
  <2> QED  BY <1>1, <2>1, <2>2
<1> QED  BY <1>4, <1>5, <1>6 DEF n

-----------------------------------------------------------------------------
(* The invariant of the recording.                                         *)

LEMMA NothingShown ==
  ASSUME NEW items, DOMAIN items = {}
  PROVE  /\ Count(items) = 0 /\ SlotsOf(items) = {} /\ Cardinality(SlotsOf(items)) = 0
         /\ \A s : Aggregate(items, s) = NoRuns
         /\ TokensOf(items) = 0
<1>1. Cardinality({}) = 0
  BY FS_EmptySet
<1>2. Range(items) = {}
  BY DEF Range
<1>3. SlotsOf(items) = {}
  BY <1>2 DEF SlotsOf
<1>4. ASSUME NEW s PROVE Aggregate(items, s) = NoRuns
  <2>1. Valid(items, s) = {} /\ Won(items, s) = {}
    BY DEF Valid, Won
  <2> QED  BY <1>1, <2>1, AggregateCounts DEF NoRuns
<1>5. Tokens(items, {}) = 0
  BY TokensOfNone
<1>6. TokensOf(items) = 0
  BY <1>2, <1>5 DEF TokensOf, Tokens
<1> QED  BY <1>1, <1>3, <1>4, <1>6 DEF Count

LEMMA CanaryFinite == IsFiniteSet(Canary) /\ None \notin Canary
BY FS_Interval, SuiteAssumption, NoneAssumption DEF Canary

LEMMA InitEvidence == ASSUME EvidenceInit PROVE EInv
<1>1. /\ Init /\ trace = <<>> /\ skip_reason = [c \in Canary |-> PolicyReason]
      /\ executions = [c \in Canary |-> None] /\ current = None /\ attempts_used = 0
      /\ observed_tokens = 0 /\ phase = "visit"
  BY DEF EvidenceInit, Init
<1>2. DOMAIN trace = {} /\ Len(trace) = 0 /\ trace \in Seq(Attempt)
  BY <1>1
<1>3. TraceInv
  BY <1>1, <1>2, NothingShown DEF TraceInv
<1>4. \A c : DOMAIN Attempts(c) = {}
  BY <1>2, <1>3, AttemptsShape
<1>5. Measured = {} /\ Skipped = {}
  BY <1>1 DEF Measured, Skipped
<1>6. RecordInv
  BY <1>1, <1>4, <1>5, NothingShown, CanaryFinite DEF RecordInv, RecordOf
<1>7. PartsInv
  <2>1. \A c \in Canary : Lengths[c].tokens = 0 /\ Usages[c].tokens = 0
    BY <1>4, NothingShown DEF Lengths, Usages
  <2>2. Tokens(Lengths, Canary) = 0 /\ Tokens(Usages, Canary) = 0
    BY <2>1, SumOfZeros, CanaryFinite
  <2>3. TokensOf(trace) = 0 /\ 0 # None
    BY <1>2, NothingShown, NoneAssumption
  <2> QED  BY <1>2, <2>1, <2>2, <2>3 DEF PartsInv
<1>8. ReasonInv
  BY <1>1, <1>5 DEF ReasonInv
<1>9. JudgedInv
  BY <1>1 DEF JudgedInv
<1> QED  BY <1>3, <1>6, <1>7, <1>8, <1>9 DEF EInv

(* Steps that record no attempt.                                           *)
LEMMA TraceStays ==
  ASSUME EInv, UNCHANGED <<trace, attempts_used, observed_tokens>>
  PROVE  /\ TraceInv' /\ PartsInv'
         /\ \A c : Attempts(c)' = Attempts(c)
<1>1. \A c : Attempts(c)' = Attempts(c)
  BY DEF Attempts, AttemptsIn
<1>2. Lengths' = Lengths /\ Usages' = Usages
  BY <1>1 DEF Lengths, Usages
<1> QED  BY <1>1, <1>2 DEF EInv, TraceInv, PartsInv

(* Nothing is measured or started.                                         *)
LEMMA RecordStays ==
  ASSUME EInv, UNCHANGED <<trace, attempts_used, observed_tokens, attempts>>,
         Measured' = Measured, \A c \in Measured : executions'[c] = executions[c]
  PROVE  RecordInv'
<1>1. \A c : Attempts(c)' = Attempts(c)
  BY TraceStays
<1>2. UNCHANGED <<current, slot, tally, orientation>>
  BY DEF attempts
<1>3. Started' = Started
  BY <1>2 DEF Started
<1>4. {SlotPair(k) : k \in 0..(slot - 1)}' = {SlotPair(k) : k \in 0..(slot - 1)}
  BY <1>2 DEF SlotPair
<1>5. ASSUME NEW c \in Canary PROVE RecordOf(c)'
  <2>1. RecordOf(c)
    BY DEF EInv, RecordInv
  <2> QED  BY <1>1, <1>2, <1>3, <1>4, <2>1 DEF RecordOf
<1> QED  BY <1>5 DEF RecordInv

LEMMA SkipEvidence ==
  ASSUME IInv, EInv, NEW c \in Canary, RecordSkip(c)
  PROVE  EInv'
<1>1. /\ SkipCanary(c) /\ trace' = trace
      /\ UNCHANGED <<budgets, phase, attempts, attempts_used, observed_tokens, result>>
      /\ executions' = [executions EXCEPT ![c] = SkippedExecution]
      /\ executions[c] = None /\ executions \in [Canary -> Execution \cup {None}]
      /\ OutOfAttempts \/ OutOfTokens
      /\ phase = "visit"
  BY DEF RecordSkip, SkipCanary, counters, IsNext, Unvisited, IInv, TypeOK
<1>2. SkippedExecution.skipped /\ SkippedExecution # None
  BY SkippedIsExecution, NoneAssumption DEF SkippedExecution
<1>3. /\ Measured' = Measured /\ \A d \in Measured : executions'[d] = executions[d]
      /\ Skipped' = Skipped \cup {c}
  BY <1>1, <1>2 DEF Measured, Skipped
<1>4. TraceInv' /\ PartsInv' /\ RecordInv'
  BY <1>1, <1>3, TraceStays, RecordStays
<1> DEFINE reason == IF OutOfAttempts THEN AttemptReason
                     ELSE IF observed_tokens = None THEN UsageReason
                     ELSE TokenReason(observed_tokens)
<1>5. /\ skip_reason' = [skip_reason EXCEPT ![c] = reason] /\ DOMAIN skip_reason = Canary
      /\ \A d \in Skipped : skip_reason[d] \in BudgetSkipReasons(Limits, observed_tokens)
  BY DEF RecordSkip, EInv, ReasonInv
<1>6. reason \in BudgetSkipReasons(Limits, observed_tokens)
  <2>1. Limits.max_attempts = max_attempts /\ Limits.max_tokens = max_tokens
    BY DEF Limits
  <2>2. CASE OutOfAttempts
    <3>1. max_attempts # None /\ max_attempts < AttemptsExpected
      BY <2>2 DEF OutOfAttempts, AttemptConstrained, AttemptsExpected
    <3> QED  BY <2>1, <2>2, <3>1 DEF BudgetSkipReasons
  <2>3. CASE ~OutOfAttempts /\ observed_tokens = None
    <3>1. max_tokens # None
      BY <1>1, <2>3 DEF OutOfTokens
    <3> QED  BY <2>1, <2>3, <3>1 DEF BudgetSkipReasons
  <2>4. CASE ~OutOfAttempts /\ observed_tokens # None
    <3>1. max_tokens # None /\ observed_tokens >= max_tokens
      BY <1>1, <2>4 DEF OutOfTokens
    <3> QED  BY <2>1, <2>4, <3>1 DEF BudgetSkipReasons
  <2> QED  BY <2>2, <2>3, <2>4
<1>7. ReasonInv'
  <2>1. Limits' = Limits /\ observed_tokens' = observed_tokens
    BY <1>1 DEF Limits, budgets
  <2>2. BudgetSkipReasons(Limits, observed_tokens)' = BudgetSkipReasons(Limits, observed_tokens)
    BY <2>1 DEF BudgetSkipReasons
  <2> HIDE DEF reason
  <2>3. ASSUME NEW d \in Skipped'
        PROVE  skip_reason'[d] \in BudgetSkipReasons(Limits, observed_tokens)
    <3>1. d \in Canary
      BY <1>1 DEF Skipped
    <3>2. CASE d = c
      BY <1>5, <1>6, <3>1, <3>2
    <3>3. CASE d # c
      BY <1>3, <1>5, <3>1, <3>3
    <3> QED  BY <3>2, <3>3
  <2> QED  BY <1>5, <2>2, <2>3 DEF ReasonInv
<1>8. JudgedInv'
  BY <1>1 DEF JudgedInv
<1> QED  BY <1>4, <1>7, <1>8 DEF EInv

LEMMA StartEvidence ==
  ASSUME IInv, EInv, NEW c \in Canary, StartCanary(c), UNCHANGED recorded
  PROVE  EInv'
<1>1. /\ UNCHANGED <<trace, skip_reason, budgets, tally, executions, attempts_used, observed_tokens>>
      /\ phase = "visit" /\ phase' = "run" /\ current' = c /\ slot' = 0 /\ IsNext(c)
  BY DEF StartCanary, recorded, counters
<1>2. Measured' = Measured /\ Skipped' = Skipped /\ Limits' = Limits
  BY <1>1 DEF Measured, Skipped, Limits, budgets
<1>3. TraceInv' /\ PartsInv' /\ \A d : Attempts(d)' = Attempts(d)
  BY <1>1, TraceStays
<1>4. ReasonInv'
  BY <1>1, <1>2 DEF EInv, ReasonInv, BudgetSkipReasons
<1>5. JudgedInv'
  BY <1>1 DEF JudgedInv
<1>6. current = None /\ tally = NoTally /\ c \notin Measured
  BY <1>1 DEF IInv, RunInv, IsNext, Unvisited, Measured
<1>7. /\ Started = Measured /\ Started' = Measured \cup {c}
  BY <1>1, <1>2, <1>6, CanaryFinite DEF Started
<1>8. ASSUME NEW d \in Canary PROVE RecordOf(d)'
  <2>1. RecordOf(d)
    BY DEF EInv, RecordInv
  <2>2. CASE d # c
    BY <1>1, <1>2, <1>3, <1>7, <2>1, <2>2 DEF RecordOf
  <2>3. CASE d = c
    <3>1. DOMAIN Attempts(c) = {}
      BY <1>6, <1>7, <2>1, <2>3 DEF RecordOf
    <3>2. /\ Count(Attempts(c)) = 0 /\ SlotsOf(Attempts(c)) = {}
          /\ Cardinality(SlotsOf(Attempts(c))) = 0
          /\ \A s : Aggregate(Attempts(c), s) = NoRuns
      BY <3>1, NothingShown
    <3>3. \A s \in Sides : tally'[s] = NoRuns
      BY <1>1, <1>6 DEF NoTally
    <3>4. {SlotPair(k) : k \in 0..(slot - 1)}' = {}
      BY <1>1
    <3> QED  BY <1>1, <1>2, <1>3, <1>6, <1>7, <2>3, <3>1, <3>2, <3>3, <3>4 DEF RecordOf
  <2> QED  BY <2>2, <2>3
<1> QED  BY <1>3, <1>4, <1>5, <1>8 DEF EInv, RecordInv

LEMMA FinishEvidence ==
  ASSUME IInv, EInv, FinishCanary, UNCHANGED recorded
  PROVE  EInv'
<1> DEFINE e == [skipped |-> FALSE, baseline |-> tally["baseline"],
                 candidate |-> tally["candidate"], tokens |-> usage]
<1>1. /\ UNCHANGED <<trace, skip_reason, budgets, attempts_used, observed_tokens>>
      /\ phase = "run" /\ phase' = "visit" /\ slot = AttemptsPerCanary /\ current' = None
      /\ executions' = [executions EXCEPT ![current] = e]
  BY DEF FinishCanary, recorded
<1>2. /\ current \in Canary /\ executions[current] = None /\ Skipped = {}
      /\ executions \in [Canary -> Execution \cup {None}]
  BY <1>1 DEF IInv, TypeOK, RunInv, IsNext, Unvisited
<1>3. e \in Execution /\ e # None
  <2>1. e \in Execution
    BY TallyIsAggregate DEF IInv, TypeOK, FinishCanary, Execution, Sides
  <2> QED  BY <2>1, NoneAssumption
<1>4. /\ Measured' = Measured \cup {current} /\ Skipped' = {} /\ current \notin Measured
      /\ \A d \in Measured : executions'[d] = executions[d]
      /\ executions'[current] = e
  BY <1>1, <1>2, <1>3 DEF Measured, Skipped
<1>5. TraceInv' /\ PartsInv' /\ \A d : Attempts(d)' = Attempts(d)
  BY <1>1, TraceStays
<1>6. ReasonInv'
  BY <1>1, <1>4 DEF EInv, ReasonInv
<1>7. JudgedInv'
  BY <1>1 DEF JudgedInv
<1>8. Started' = Started
  BY <1>1, <1>2, <1>4, CanaryFinite DEF Started
<1>9. ASSUME NEW d \in Canary PROVE RecordOf(d)'
  <2>1. RecordOf(d) /\ d # None
    BY CanaryFinite DEF EInv, RecordInv
  <2>2. CASE d # current
    BY <1>1, <1>4, <1>5, <1>8, <2>1, <2>2 DEF RecordOf
  <2>3. CASE d = current
    <3>1. /\ Cardinality(SlotsOf(Attempts(d))) = Count(Attempts(d)) /\ d \in Started
          /\ Count(Attempts(d)) = AttemptsPerCanary
          /\ \A s \in Sides : tally[s] = Aggregate(Attempts(d), s)
      BY <1>1, <1>2, <2>1, <2>3, CanaryFinite DEF RecordOf, Started
    <3>2. executions'[d].baseline = tally["baseline"] /\ executions'[d].candidate = tally["candidate"]
      BY <1>4, <2>3
    <3>3. "baseline" \in Sides /\ "candidate" \in Sides
      BY DEF Sides
    <3> QED  BY <1>1, <1>5, <1>8, <2>1, <3>1, <3>2, <3>3 DEF RecordOf
  <2> QED  BY <2>2, <2>3
<1> QED  BY <1>5, <1>6, <1>7, <1>9 DEF EInv, RecordInv

LEMMA LeaveEvidence ==
  ASSUME IInv, EInv, Return \/ BackendRaises \/ UNCHANGED vars, UNCHANGED recorded
  PROVE  EInv'
<1>1. UNCHANGED <<trace, skip_reason, budgets, attempts, executions, attempts_used, observed_tokens>>
  BY DEF Return, BackendRaises, vars, recorded, counters
<1>2. Measured' = Measured /\ Skipped' = Skipped /\ Limits' = Limits
  BY <1>1 DEF Measured, Skipped, Limits, budgets
<1>3. TraceInv' /\ PartsInv' /\ RecordInv'
  BY <1>1, <1>2, TraceStays, RecordStays
<1>4. ReasonInv'
  BY <1>1, <1>2 DEF EInv, ReasonInv, BudgetSkipReasons
<1>5. \A c : CanaryVerdict(c)' = CanaryVerdict(c)
  BY <1>1 DEF CanaryVerdict
<1>6. JudgedInv'
  BY <1>1, <1>5 DEF EInv, JudgedInv, Return, BackendRaises, vars
<1> QED  BY <1>3, <1>4, <1>6 DEF EInv

(* An attempt is recorded.                                                 *)
LEMMA AttemptTotals ==
  ASSUME IInv, EInv, NEW r \in Results, NEW late \in BOOLEAN, RecordAttempt(r, late)
  PROVE  TraceInv'
<1> DEFINE t == Added(r, late)
           n == Len(trace) + 1
<1>1. /\ t \in Attempt /\ trace' = Append(trace, t) /\ t.tokens = r.tokens
      /\ attempts_used' = attempts_used + 1
      /\ observed_tokens' = AddObserved(observed_tokens, r.tokens)
  BY Running DEF RunAttempt, Added
<1>2. TraceInv
  BY DEF EInv
<1> HIDE DEF t, n
<1>3. /\ OneMore(DOMAIN trace, n, trace, trace') /\ trace'[n] = t
      /\ trace' \in Seq(Attempt) /\ Len(trace') = n
  BY <1>1, <1>2, TraceGrows DEF n
<1>4. TokensOf(trace') = AddUsage(TokensOf(trace), t.tokens)
  BY <1>3, TokensOneMore
<1>5. observed_tokens' = TokensOf(trace')
  BY <1>1, <1>2, <1>4 DEF TraceInv, AddUsage, AddObserved
<1>6. attempts_used' = Len(trace')
  BY <1>1, <1>2, <1>3 DEF TraceInv, n
<1>7. TokensOf(trace)' = TokensOf(trace')
  OBVIOUS
<1> QED  BY <1>3, <1>5, <1>6, <1>7 DEF TraceInv

(* What it does to the canary that is run, and to the others.              *)
LEMMA AttemptPlaces ==
  ASSUME IInv, EInv, NEW r \in Results, NEW late \in BOOLEAN, RecordAttempt(r, late),
         NEW t, t = Added(r, late), NEW y, y = current, NEW n, n = Len(trace) + 1
  PROVE  /\ OneMore(Places(y), n, Attempts(y), Attempts(y)') /\ Attempts(y)'[n] = t
         /\ \A c \in Canary \ {y} : Attempts(c)' = Attempts(c)
         /\ y \in Canary /\ t \in Attempt /\ trace' = Append(trace, t)
<1>1. t \in Attempt /\ trace' = Append(trace, t) /\ t.canary = y /\ y \in Canary
  BY Running DEF Added
<1>2. TraceInv /\ TraceInv'
  BY AttemptTotals DEF EInv
<1> QED  BY <1>1, <1>2, AttemptsGrow

LEMMA AttemptParts ==
  ASSUME IInv, EInv, NEW r \in Results, NEW late \in BOOLEAN, RecordAttempt(r, late)
  PROVE  PartsInv'
<1> SUFFICES ASSUME NEW t, t = Added(r, late), NEW y, y = current, NEW n, n = Len(trace) + 1
             PROVE  PartsInv'
  OBVIOUS
<1>1. /\ OneMore(Places(y), n, Attempts(y), Attempts(y)') /\ Attempts(y)'[n] = t
      /\ \A c \in Canary \ {y} : Attempts(c)' = Attempts(c)
      /\ y \in Canary
  BY AttemptPlaces
<1>2. t \in Attempt /\ trace' = Append(trace, t) /\ t.tokens \in Nat \cup {None}
  BY Running, BudgetAssumption DEF Added
<1>3. TraceInv /\ PartsInv
  BY DEF EInv
<1>4. /\ Len(trace') = n
      /\ OneMore(DOMAIN trace, n, trace, trace') /\ trace'[n] = t
  BY <1>2, <1>3, TraceGrows
<1>5. TokensOf(trace') = AddUsage(TokensOf(trace), t.tokens)
  BY <1>4, TokensOneMore
<1>6. \A c \in Canary : /\ Lengths[c].tokens \in Nat /\ Usages[c].tokens \in Nat \cup {None}
                       /\ Lengths[c].tokens = Count(Attempts(c))
                       /\ Usages[c].tokens = TokensOf(Attempts(c))
                       /\ Lengths'[c].tokens = Count(Attempts(c)')
                       /\ Usages'[c].tokens = TokensOf(Attempts(c)')
  BY <1>3, CountsAreNumbers DEF Lengths, Usages
<1>7. /\ Lengths'[y].tokens = Lengths[y].tokens + 1
      /\ Usages'[y].tokens = AddUsage(Usages[y].tokens, t.tokens)
  BY <1>1, <1>6, CountOneMore, TokensOneMore
<1>8. \A c \in Canary \ {y} : /\ Lengths'[c].tokens = Lengths[c].tokens
                             /\ Usages'[c].tokens = Usages[c].tokens
  BY <1>1, <1>6
<1>9. Len(trace') = Tokens(Lengths', Canary)
  <2>1. Tokens(Lengths', Canary) = Tokens(Lengths, Canary) + 1
    BY <1>1, <1>6, <1>7, <1>8, CanaryFinite, SumChanges
  <2> QED  BY <1>3, <1>4, <2>1 DEF PartsInv
<1>10. TokensOf(trace') = IF \E c \in Canary : Usages'[c].tokens = None THEN None
                          ELSE Tokens(Usages', Canary)
  <2>1. CASE t.tokens = None
    <3>1. TokensOf(trace') = None /\ Usages'[y].tokens = None
      BY <1>5, <1>7, <2>1 DEF AddUsage
    <3> QED  BY <1>1, <3>1
  <2>2. CASE \E c \in Canary : Usages[c].tokens = None
    <3>1. TokensOf(trace) = None
      BY <1>3, <2>2 DEF PartsInv
    <3>2. TokensOf(trace') = None
      BY <1>5, <3>1 DEF AddUsage
    <3>3. PICK c \in Canary : Usages[c].tokens = None
      BY <2>2
    <3>4. Usages'[c].tokens = None
      BY <1>7, <1>8, <3>3 DEF AddUsage
    <3> QED  BY <3>2, <3>4
  <2>3. CASE t.tokens # None /\ ~\E c \in Canary : Usages[c].tokens = None
    <3>1. /\ t.tokens \in Nat /\ \A c \in Canary : Usages[c].tokens \in Nat
          /\ TokensOf(trace) = Tokens(Usages, Canary)
      BY <1>2, <1>3, <1>6, <2>3 DEF PartsInv
    <3>2. Usages'[y].tokens = Usages[y].tokens + t.tokens
      BY <1>1, <1>7, <2>3 DEF AddUsage
    <3>3. Tokens(Usages', Canary) = Tokens(Usages, Canary) + t.tokens
      BY <1>1, <1>8, <3>1, <3>2, CanaryFinite, SumChanges
    <3>4. Tokens(Usages, Canary) \in Nat
      BY <3>1, CanaryFinite, TokensNat
    <3>5. TokensOf(trace') = TokensOf(trace) + t.tokens
      BY <1>5, <2>3, <3>1, <3>4, NoneAssumption DEF AddUsage
    <3>6. \A c \in Canary : Usages'[c].tokens \in Nat
      BY <1>1, <1>8, <3>1, <3>2
    <3> QED  BY <3>1, <3>3, <3>5, <3>6, NoneAssumption
  <2> QED  BY <2>1, <2>2, <2>3
<1>11. TokensOf(trace)' = TokensOf(trace')
       /\ Tokens(Lengths, Canary)' = Tokens(Lengths', Canary)
       /\ Tokens(Usages, Canary)' = Tokens(Usages', Canary)
  BY DEF Canary
<1> QED  BY <1>9, <1>10, <1>11 DEF PartsInv

(* A slot of the schedule that has not been run is none of those that were. *)
LEMMA SlotIsNew ==
  ASSUME IInv, orientation \in Sides, slot \in 0..(AttemptsPerCanary - 1)
  PROVE  LET run == {SlotPair(k) : k \in 0..(slot - 1)}
         IN  /\ Cardinality(run \cup {SlotPair(slot)}) = Cardinality(run) + 1
             /\ run \cup {SlotPair(slot)} = {SlotPair(k) : k \in 0..slot}
<1> DEFINE run == {SlotPair(k) : k \in 0..(slot - 1)}
<1>1. slot \in Nat /\ slot < AttemptsPerCanary /\ AttemptsPerCanary \in Nat
  BY SuiteAssumption DEF AttemptsPerCanary
<1>2. IsFiniteSet(run)
  <2>1. \A k \in 0..(slot - 1) : SlotPair(k) \in Sides \X (1..Repetitions)
    BY <1>1, ScheduleShape DEF SlotPair
  <2>2. run \subseteq Sides \X (1..Repetitions)
    BY <2>1
  <2>3. IsFiniteSet(Sides) /\ IsFiniteSet(1..Repetitions)
    <3>1. IsFiniteSet({}) /\ Sides = ({} \cup {"baseline"}) \cup {"candidate"}
      BY FS_EmptySet DEF Sides
    <3>2. IsFiniteSet(Sides)
      BY <3>1, FS_AddElement
    <3> QED  BY <3>2, FS_Interval, SuiteAssumption
  <2>4. IsFiniteSet(Sides \X (1..Repetitions))
    BY <2>3, FS_Product
  <2> QED  BY <2>2, <2>4, FS_Subset
<1>3. SlotPair(slot) \notin run
  BY <1>1, SlotsDiffer
<1>4. run \cup {SlotPair(slot)} = {SlotPair(k) : k \in 0..slot}
  <2>1. 0..slot = (0..(slot - 1)) \cup {slot}
    BY <1>1
  <2> QED  BY <2>1
<1> QED  BY <1>2, <1>3, <1>4, FS_AddElement

LEMMA AttemptRecords ==
  ASSUME IInv, EInv, NEW r \in Results, NEW late \in BOOLEAN, RecordAttempt(r, late)
  PROVE  RecordInv'
<1> SUFFICES ASSUME NEW t, t = Added(r, late), NEW y, y = current, NEW n, n = Len(trace) + 1
             PROVE  RecordInv'
  OBVIOUS
<1>1. /\ OneMore(Places(y), n, Attempts(y), Attempts(y)') /\ Attempts(y)'[n] = t
      /\ \A c \in Canary \ {y} : Attempts(c)' = Attempts(c)
      /\ y \in Canary
  BY AttemptPlaces
<1>2. /\ t.side = SlotSide(orientation, slot) /\ t.repetition = SlotRepetition(slot)
      /\ t.valid = r.valid /\ t.success = r.success
      /\ orientation \in Sides /\ slot \in 0..(AttemptsPerCanary - 1) /\ current \notin Measured
      /\ RunAttempt(r.valid, r.success, r.tokens) /\ t.side \in Sides
  BY Running, ScheduleShape DEF Added
<1>3. /\ current' = current /\ orientation' = orientation /\ slot' = slot + 1
      /\ executions' = executions /\ Measured' = Measured /\ Started' = Started
      /\ tally' = [tally EXCEPT ![t.side] =
           [valid |-> tally[t.side].valid + (IF t.valid THEN 1 ELSE 0),
            successes |-> tally[t.side].successes + (IF t.valid /\ t.success THEN 1 ELSE 0)]]
      /\ tally \in [Sides -> [valid : Nat, successes : Nat]]
  BY <1>2 DEF RunAttempt, Measured, Started, IInv, TypeOK
<1>4. ASSUME NEW c \in Canary \ {y} PROVE RecordOf(c)'
  <2>1. RecordOf(c) /\ c # current
    BY <1>1 DEF EInv, RecordInv
  <2> QED  BY <1>1, <1>3, <2>1 DEF RecordOf
<1>5. /\ Cardinality(SlotsOf(Attempts(y))) = Count(Attempts(y)) /\ y \in Started
      /\ Count(Attempts(y)) = slot /\ y \notin Measured
      /\ \A s \in Sides : tally[s] = Aggregate(Attempts(y), s)
      /\ SlotsOf(Attempts(y)) = {SlotPair(k) : k \in 0..(slot - 1)}
  BY <1>1, <1>2, CanaryFinite DEF EInv, RecordInv, RecordOf, Started
<1>6. Count(Attempts(y)') = slot'
  BY <1>1, <1>3, <1>5, CountOneMore
<1>7. /\ SlotsOf(Attempts(y)') = {SlotPair(k) : k \in 0..slot}
      /\ Cardinality(SlotsOf(Attempts(y)')) = Count(Attempts(y)')
  <2>1. SlotsOf(Attempts(y)') = SlotsOf(Attempts(y)) \cup {SlotPair(slot)}
    BY <1>1, <1>2, SlotsOneMore DEF SlotPair
  <2>2. Count(Attempts(y)') = Count(Attempts(y)) + 1
    BY <1>1, CountOneMore
  <2> QED  BY <1>2, <1>5, <2>1, <2>2, SlotIsNew
<1>8. ASSUME NEW s \in Sides PROVE tally'[s] = Aggregate(Attempts(y)', s)
  <2>1. Aggregate(Attempts(y)', s) = Adding(t, tally[s], s)
    BY <1>1, <1>5, AggregateOneMore
  <2>2. tally[s] \in [valid : Nat, successes : Nat]
    BY <1>3
  <2>3. CASE s = t.side
    <3>1. tally'[s] = [valid |-> tally[s].valid + (IF t.valid THEN 1 ELSE 0),
                       successes |-> tally[s].successes + (IF t.valid /\ t.success THEN 1 ELSE 0)]
      BY <1>3, <2>3
    <3> QED  BY <2>1, <2>3, <3>1 DEF Adding
  <2>4. CASE s # t.side
    <3>1. tally'[s] = tally[s]
      BY <1>3, <2>4
    <3>2. tally[s] = [valid |-> tally[s].valid, successes |-> tally[s].successes]
          /\ tally[s].valid \in Nat /\ tally[s].successes \in Nat
      BY <2>2
    <3>3. Adding(t, tally[s], s) = [valid |-> tally[s].valid + 0, successes |-> tally[s].successes + 0]
      BY <2>4 DEF Adding
    <3> QED  BY <2>1, <3>1, <3>2, <3>3
  <2> QED  BY <2>3, <2>4
<1>9. {SlotPair(k) : k \in 0..(slot - 1)}' = {SlotPair(k) : k \in 0..slot}
  <2>1. slot' - 1 = slot
    BY <1>2, <1>3
  <2> QED  BY <1>3, <2>1 DEF SlotPair
<1>10. ASSUME NEW c \in Canary, c = y PROVE RecordOf(c)'
  BY <1>3, <1>5, <1>6, <1>7, <1>8, <1>9, <1>10 DEF RecordOf
<1> QED  BY <1>4, <1>10 DEF RecordInv

LEMMA AttemptEvidence ==
  ASSUME IInv, EInv, NEW r \in Results, NEW late \in BOOLEAN, RecordAttempt(r, late)
  PROVE  EInv'
<1>1. TraceInv' /\ PartsInv' /\ RecordInv'
  BY AttemptTotals, AttemptParts, AttemptRecords
<1>2. Skipped = {} /\ RunAttempt(r.valid, r.success, r.tokens) /\ skip_reason' = skip_reason
  BY Running DEF RecordAttempt
<1>3. Skipped' = {} /\ phase' # "done"
  BY <1>2 DEF RunAttempt, Skipped
<1>4. ReasonInv' /\ JudgedInv'
  BY <1>2, <1>3 DEF EInv, ReasonInv, JudgedInv
<1> QED  BY <1>1, <1>4 DEF EInv

-----------------------------------------------------------------------------
(* What the verifier derives from a completed run.                         *)

LEMMA EvidenceInductive == EvidenceSpec => [](IInv /\ ResultInv /\ EInv)
<1>1. EvidenceInit => IInv /\ ResultInv /\ EInv
  <2>1. EvidenceInit => Init
    BY DEF EvidenceInit
  <2>2. Init => ResultInv
    BY DEF Init, ResultInv
  <2> QED  BY <2>1, <2>2, InitInv, InitEvidence
<1>2. ASSUME IInv, ResultInv, EInv, [EvidenceNext]_evidenceVars
      PROVE  IInv' /\ ResultInv' /\ EInv'
  <2>1. ASSUME NEW c \in Canary, RecordSkip(c) PROVE Next /\ EInv'
    BY <1>2, <2>1, SkipEvidence DEF RecordSkip, Next
  <2>2. ASSUME NEW r \in Results, NEW late \in BOOLEAN, RecordAttempt(r, late)
        PROVE  Next /\ EInv'
    <3>1. RunAttempt(r.valid, r.success, r.tokens)
          /\ r.valid \in BOOLEAN /\ r.success \in BOOLEAN /\ r.tokens \in TokenCosts \cup {None}
      BY <1>2, <2>2, Running
    <3> QED  BY <1>2, <2>2, <3>1, AttemptEvidence DEF Next, AttemptReturns
  <2>3. ASSUME NEW c \in Canary, StartCanary(c), UNCHANGED recorded PROVE Next /\ EInv'
    BY <1>2, <2>3, StartEvidence DEF Next
  <2>4. ASSUME FinishCanary, UNCHANGED recorded PROVE Next /\ EInv'
    BY <1>2, <2>4, FinishEvidence DEF Next
  <2>5. ASSUME Return \/ BackendRaises, UNCHANGED recorded PROVE Next /\ EInv'
    BY <1>2, <2>5, LeaveEvidence DEF Next
  <2>6. ASSUME UNCHANGED evidenceVars PROVE UNCHANGED vars /\ EInv'
    BY <1>2, <2>6, LeaveEvidence DEF evidenceVars
  <2>7. [Next]_vars /\ EInv'
    BY <1>2, <2>1, <2>2, <2>3, <2>4, <2>5, <2>6 DEF EvidenceNext, evidenceVars
  <2> QED  BY <1>2, <2>7, NextInv, ResultStays
<1> QED  BY <1>1, <1>2, PTL DEF EvidenceSpec

(* The recorded run is a run of the executor: its theorems hold of it.     *)
LEMMA RecordedRuns == EvidenceSpec => Spec
<1>1. EvidenceInit => Init
  BY DEF EvidenceInit
<1>2. [EvidenceNext]_evidenceVars => [Next]_vars
  <2>1. ASSUME NEW r \in Results, NEW late \in BOOLEAN, RecordAttempt(r, late) PROVE Next
    <3>1. r.valid \in BOOLEAN /\ r.success \in BOOLEAN /\ r.tokens \in TokenCosts \cup {None}
      BY ResultsAssumption
    <3> QED  BY <2>1, <3>1 DEF RecordAttempt, Next, AttemptReturns
  <2> QED  BY <2>1 DEF EvidenceNext, evidenceVars, RecordSkip, Next
<1> QED  BY <1>1, <1>2, PTL DEF EvidenceSpec, Spec

(* A completed run visited every canary, and what the attempts of a canary *)
(* show is what its execution says.                                        *)
LEMMA DoneShown ==
  ASSUME IInv, ResultInv, EInv, phase = "done"
  PROVE  \A c \in Canary :
           /\ c \in Measured \cup Skipped
           /\ c \in Measured => Count(Attempts(c)) = AttemptsPerCanary
           /\ Count(Attempts(c)) # AttemptsPerCanary => c \in Skipped
           /\ Count(Attempts(c)) = 0 => c \in Skipped
           /\ executions[c].baseline = Aggregate(Attempts(c), "baseline")
           /\ executions[c].candidate = Aggregate(Attempts(c), "candidate")
<1> SUFFICES ASSUME NEW c \in Canary
             PROVE  /\ c \in Measured \cup Skipped
                    /\ c \in Measured => Count(Attempts(c)) = AttemptsPerCanary
                    /\ Count(Attempts(c)) # AttemptsPerCanary => c \in Skipped
                    /\ Count(Attempts(c)) = 0 => c \in Skipped
                    /\ executions[c].baseline = Aggregate(Attempts(c), "baseline")
                    /\ executions[c].candidate = Aggregate(Attempts(c), "candidate")
  OBVIOUS
<1>1. current = None /\ Unvisited = {}
  BY DEF IInv, RunInv, ResultInv
<1>2. c \in Measured \cup Skipped
  BY <1>1 DEF Unvisited, Measured, Skipped
<1>3. RecordOf(c)
  BY DEF EInv, RecordInv
<1>4. AttemptsPerCanary # 0
  BY SuiteAssumption DEF AttemptsPerCanary
<1>5. CASE c \in Measured
  BY <1>2, <1>3, <1>4, <1>5 DEF RecordOf
<1>6. CASE c \in Skipped
  <2>1. c \notin Started
    BY <1>1, <1>6 DEF Started, Measured, Skipped
  <2>2. DOMAIN Attempts(c) = {}
    BY <1>3, <2>1 DEF RecordOf
  <2>3. executions[c].baseline = NoRuns /\ executions[c].candidate = NoRuns
    BY <1>6 DEF IInv, VisitInv
  <2>4. c \notin Measured
    BY <2>1 DEF Started
  <2> QED  BY <1>2, <1>6, <2>2, <2>3, <2>4, NothingShown
<1> QED  BY <1>2, <1>5, <1>6

(* The slots and the aggregates of every execution are accepted.           *)
LEMMA ExecutionVerifies ==
  ASSUME EInv, NEW c \in Canary
  PROVE  VerifyExecution(PublicExecution(c))
<1>1. /\ PublicExecution(c).attempts = Attempts(c)
      /\ PublicExecution(c).baseline = Aggregate(Attempts(c), "baseline")
      /\ PublicExecution(c).candidate = Aggregate(Attempts(c), "candidate")
  BY DEF PublicExecution
<1>2. Cardinality(SlotsOf(Attempts(c))) = Count(Attempts(c))
  BY DEF EInv, RecordInv, RecordOf
<1>3. SlotsOf(Attempts(c)) \subseteq Sides \X (1..Repetitions)
  <2>1. Attempts(c) \in [Places(c) -> Attempt]
    BY AttemptsShape DEF EInv
  <2>2. \A t \in Range(Attempts(c)) : t \in Attempt
    BY <2>1 DEF Range
  <2>3. \A t \in Range(Attempts(c)) : t.side \in Sides /\ t.repetition \in 1..Repetitions
    BY <2>2 DEF Attempt
  <2> QED  BY <2>3 DEF SlotsOf
<1> QED  BY <1>1, <1>2, <1>3 DEF VerifyExecution

(* The verdicts are those of the run, and every reason is explained.       *)
LEMMA VerdictsAgree ==
  ASSUME IInv, ResultInv, EInv, phase = "done"
  PROVE  /\ \A c \in Canary : PublicExecution(c).verdict = CanaryVerdict(c)
         /\ \A c \in Canary :
              PublicExecution(c).verdict =
                QualifyCanary(Aggregate(Attempts(c), "baseline"),
                              Aggregate(Attempts(c), "candidate"), Repetitions, c \in Critical)
         /\ result = QualifySuite({PublicExecution(c).verdict : c \in Canary})
<1>1. \A c \in Canary :
        PublicExecution(c).verdict =
          QualifyCanary(Aggregate(Attempts(c), "baseline"),
                        Aggregate(Attempts(c), "candidate"), Repetitions, c \in Critical)
  BY DEF PublicExecution
<1>2. \A c \in Canary : PublicExecution(c).verdict = CanaryVerdict(c)
  BY <1>1, DoneShown DEF CanaryVerdict
<1>3. result = QualifySuite({CanaryVerdict(c) : c \in Canary})
  BY DEF EInv, JudgedInv
<1>4. {PublicExecution(c).verdict : c \in Canary} = {CanaryVerdict(c) : c \in Canary}
  BY <1>2
<1> QED  BY <1>1, <1>2, <1>3, <1>4

LEMMA ReasonsExplained ==
  ASSUME IInv, ResultInv, EInv, phase = "done", NEW c \in Canary
  PROVE  PublicExecution(c).reason \in
           {PolicyReason} \cup (IF Count(Attempts(c)) = 0
                                THEN BudgetSkipReasons(Limits, TokensOf(trace)) ELSE {})
<1>1. PublicExecution(c).reason = ChosenReason(c)
  BY DEF PublicExecution
<1>2. CASE Count(Attempts(c)) = 0
  <2>1. c \in Skipped
    BY <1>2, DoneShown
  <2>2. skip_reason[c] \in BudgetSkipReasons(Limits, observed_tokens)
    BY <2>1 DEF EInv, ReasonInv
  <2>3. observed_tokens = TokensOf(trace)
    BY DEF EInv, TraceInv
  <2> QED  BY <1>1, <1>2, <2>2, <2>3 DEF ChosenReason
<1>3. CASE Count(Attempts(c)) # 0
  BY <1>1, <1>3 DEF ChosenReason
<1> QED  BY <1>2, <1>3

(* A sum the verifier takes over the suite is the sum of the parts.        *)
LEMMA LengthsSum ==
  ASSUME NEW executed, NEW ex,
         \A c \in Canary : ex[c].tokens = Count(executed[c].attempts)
  PROVE  MapThenSumSet(LAMBDA c : Count(executed[c].attempts), Canary) = Tokens(ex, Canary)
<1> DEFINE Sums(it) == it = [s \in SUBSET Canary |->
                              IF s = {} THEN 0 ELSE Count(executed[One(s)].attempts) + it[s \ {One(s)}]]
           it == CHOOSE f : Sums(f)
<1>1. \A f : Sums(f) <=> Adds(ex, Canary, f)
  <2>1. ASSUME NEW f, NEW s \in SUBSET Canary, s # {}
        PROVE  ex[One(s)].tokens = Count(executed[One(s)].attempts)
    BY <2>1 DEF One
  <2> QED  BY <2>1 DEF Adds
<1>2. \E f : Sums(f)
  BY <1>1, AddsExists, CanaryFinite
<1>3. Adds(ex, Canary, it)
  BY <1>1, <1>2
<1>4. MapThenSumSet(LAMBDA c : Count(executed[c].attempts), Canary) = it[Canary]
  BY DEF MapThenSumSet, MapThenFoldSet, One
<1>5. PICK it2 : Adds(ex, Canary, it2) /\ Tokens(ex, Canary) = it2[Canary]
  BY TokensAdds, CanaryFinite
<1> HIDE DEF it
<1> QED  BY <1>3, <1>4, <1>5, AddsSame, CanaryFinite

LEMMA UsagesSum ==
  ASSUME NEW executed, NEW ex,
         \A c \in Canary : ex[c].tokens = TokensOf(executed[c].attempts)
  PROVE  MapThenSumSet(LAMBDA c : TokensOf(executed[c].attempts), Canary) = Tokens(ex, Canary)
<1> DEFINE Sums(it) == it = [s \in SUBSET Canary |->
                              IF s = {} THEN 0 ELSE TokensOf(executed[One(s)].attempts) + it[s \ {One(s)}]]
           it == CHOOSE f : Sums(f)
<1>1. \A f : Sums(f) <=> Adds(ex, Canary, f)
  <2>1. ASSUME NEW f, NEW s \in SUBSET Canary, s # {}
        PROVE  ex[One(s)].tokens = TokensOf(executed[One(s)].attempts)
    BY <2>1 DEF One
  <2> QED  BY <2>1 DEF Adds
<1>2. \E f : Sums(f)
  BY <1>1, AddsExists, CanaryFinite
<1>3. Adds(ex, Canary, it)
  BY <1>1, <1>2
<1>4. MapThenSumSet(LAMBDA c : TokensOf(executed[c].attempts), Canary) = it[Canary]
  BY DEF MapThenSumSet, MapThenFoldSet, One
<1>5. PICK it2 : Adds(ex, Canary, it2) /\ Tokens(ex, Canary) = it2[Canary]
  BY TokensAdds, CanaryFinite
<1> HIDE DEF it
<1> QED  BY <1>3, <1>4, <1>5, AddsSame, CanaryFinite

(* Attempts are missing only because a budget stopped the run.             *)
LEMMA MissingExplained ==
  ASSUME IInv, ResultInv, EInv, phase = "done", ~Completeness.all_canaries_complete
  PROVE  StoppedByAttempts(Completeness) \/ StoppedByTokens(Completeness)
<1>1. /\ Completeness.limits.max_attempts = max_attempts
      /\ Completeness.limits.max_tokens = max_tokens
      /\ Completeness.attempts_expected = NCanaries * AttemptsPerCanary
      /\ Completeness.observed_tokens = TokensOf(trace)
  BY DEF Completeness, Limits, AttemptsExpected
<1>2. PICK c \in Canary : Count(Attempts(c)) # AttemptsPerCanary
  BY DEF Completeness
<1>3. c \in Skipped
  BY <1>2, DoneShown
<1>4. OutOfAttempts \/ OutOfTokens
  BY <1>3 DEF IInv, VisitInv
<1>5. observed_tokens = TokensOf(trace)
  BY DEF EInv, TraceInv
<1>6. CASE OutOfAttempts
  BY <1>1, <1>6 DEF OutOfAttempts, AttemptConstrained, StoppedByAttempts
<1>7. CASE OutOfTokens
  BY <1>1, <1>5, <1>7 DEF OutOfTokens, StoppedByTokens
<1> QED  BY <1>4, <1>6, <1>7

LEMMA CountOfInterval ==
  ASSUME NEW n \in Nat PROVE Cardinality(1..n) = n
BY FS_Interval

LEMMA DoneVerifies ==
  ASSUME IInv, ResultInv, EInv, AttemptBudgetRespected
  PROVE  BundleVerifies
<1> SUFFICES ASSUME phase = "done"
             PROVE  /\ VerifyBundle(ExportedBundle)
                    /\ ExportedBundle.verdict = result
                    /\ ExportedBundle.completeness.attempts_used = attempts_used
                    /\ ExportedBundle.completeness.observed_tokens = observed_tokens
  BY DEF BundleVerifies
<1> DEFINE bundle == ExportedBundle
<1>1. /\ bundle.completeness = Completeness
      /\ bundle.verdict = QualifySuite({PublicExecution(c).verdict : c \in Canary})
      /\ \A c \in Canary : /\ bundle.executions[c] = PublicExecution(c)
                           /\ bundle.executions[c].attempts = Attempts(c)
  <2>1. \A c \in Canary : PublicExecution(c).attempts = Attempts(c)
    BY DEF PublicExecution
  <2>2. \A c \in Canary : bundle.executions[c] = PublicExecution(c)
    BY DEF ExportedBundle
  <2>3. {bundle.executions[c].verdict : c \in Canary} = {PublicExecution(c).verdict : c \in Canary}
    BY <2>2
  <2>4. bundle.completeness = Completeness
    BY DEF ExportedBundle
  <2>5. bundle.verdict = QualifySuite({PublicExecution(c).verdict : c \in Canary})
    <3>1. {[d \in Canary |-> PublicExecution(d)][c].verdict : c \in Canary}
            = {PublicExecution(c).verdict : c \in Canary}
      OBVIOUS
    <3> QED  BY <3>1 DEF ExportedBundle
  <2> QED  BY <2>1, <2>2, <2>4, <2>5
<1>2. /\ Completeness.attempts_expected = AttemptsExpected
      /\ Completeness.attempts_used = Count(trace)
      /\ Completeness.limits = Limits /\ Limits.max_attempts = max_attempts
      /\ Completeness.observed_tokens = TokensOf(trace)
      /\ Completeness.all_canaries_complete <=>
           \A c \in Canary : Count(Attempts(c)) = AttemptsPerCanary
      /\ Completeness.all_canaries_complete \in BOOLEAN
  BY DEF Completeness, Limits
<1>3. Count(trace) = Len(trace) /\ attempts_used = Len(trace) /\ observed_tokens = TokensOf(trace)
  <2>1. TraceInv
    BY DEF EInv
  <2>2. DOMAIN trace = 1..Len(trace) /\ Len(trace) \in Nat
    BY <2>1, TraceShape
  <2>3. Cardinality(1..Len(trace)) = Len(trace)
    BY <2>2, CountOfInterval
  <2> QED  BY <2>1, <2>2, <2>3 DEF TraceInv, Count
<1> HIDE DEF bundle
<1>4. \A c \in Canary : VerifyExecution(bundle.executions[c])
  BY <1>1, ExecutionVerifies
<1>5. VerifyPolicy(bundle)
  <2> DEFINE verdict(c) == QualifyCanary(Aggregate(bundle.executions[c].attempts, "baseline"),
                                         Aggregate(bundle.executions[c].attempts, "candidate"),
                                         Repetitions, c \in Critical)
             explained == BudgetSkipReasons(bundle.completeness.limits,
                                            bundle.completeness.observed_tokens)
  <2>1. explained = BudgetSkipReasons(Limits, TokensOf(trace))
    BY <1>1, <1>2
  <2>2. \A c \in Canary : bundle.executions[c].verdict = verdict(c)
    BY <1>1, VerdictsAgree
  <2>3. {verdict(c) : c \in Canary} = {PublicExecution(c).verdict : c \in Canary}
    BY <1>1, <2>2
  <2>4. \A c \in Canary :
          bundle.executions[c].reason \in
            {PolicyReason} \cup
            (IF Count(bundle.executions[c].attempts) = 0 THEN explained ELSE {})
    <3> HIDE DEF explained
    <3> QED  BY <1>1, <2>1, ReasonsExplained
  <2>5. bundle.verdict = QualifySuite({verdict(c) : c \in Canary})
    BY <1>1, <2>3
  <2> QED  BY <2>2, <2>4, <2>5 DEF VerifyPolicy
<1>6. VerifyCompleteness(bundle)
  <2> DEFINE stored == bundle.completeness
             length(c) == Count(bundle.executions[c].attempts)
             tokens(c) == TokensOf(bundle.executions[c].attempts)
  <2>1. \A c \in Canary : length(c) = Count(Attempts(c)) /\ tokens(c) = TokensOf(Attempts(c))
    BY <1>1
  <2>2. /\ Len(trace) = Tokens(Lengths, Canary)
        /\ TokensOf(trace) = IF \E c \in Canary : Usages[c].tokens = None THEN None
                             ELSE Tokens(Usages, Canary)
    BY DEF EInv, PartsInv
  <2>3. MapThenSumSet(length, Canary) = Tokens(Lengths, Canary)
    <3>1. MapThenSumSet(LAMBDA c : Count(bundle.executions[c].attempts), Canary)
            = Tokens(Lengths, Canary)
      BY <2>1, LengthsSum DEF Lengths
    <3> QED  BY <3>1 DEF MapThenSumSet, MapThenFoldSet
  <2>4. MapThenSumSet(tokens, Canary) = Tokens(Usages, Canary)
    <3>1. MapThenSumSet(LAMBDA c : TokensOf(bundle.executions[c].attempts), Canary)
            = Tokens(Usages, Canary)
      BY <2>1, UsagesSum DEF Usages
    <3> QED  BY <3>1 DEF MapThenSumSet, MapThenFoldSet
  <2>5. (\E c \in Canary : tokens(c) = None) <=> \E c \in Canary : Usages[c].tokens = None
    BY <2>1 DEF Usages
  <2>6. stored.attempts_expected = AttemptsExpected
    BY <1>1, <1>2
  <2>7. stored.attempts_used = MapThenSumSet(length, Canary)
    BY <1>1, <1>2, <1>3, <2>2, <2>3
  <2>8. stored.all_canaries_complete = \A c \in Canary : length(c) = AttemptsPerCanary
    BY <1>1, <1>2, <2>1
  <2>9. stored.observed_tokens = IF \E c \in Canary : tokens(c) = None THEN None
                                 ELSE MapThenSumSet(tokens, Canary)
    BY <1>1, <1>2, <2>2, <2>4, <2>5
  <2>10. stored.limits.max_attempts # None => stored.attempts_used <= stored.limits.max_attempts
    BY <1>1, <1>2, <1>3 DEF AttemptBudgetRespected
  <2>11. ~stored.all_canaries_complete => StoppedByAttempts(stored) \/ StoppedByTokens(stored)
    BY <1>1, MissingExplained
  <2> QED  BY <2>6, <2>7, <2>8, <2>9, <2>10, <2>11 DEF VerifyCompleteness
<1>7. bundle.verdict = result
  BY <1>1, VerdictsAgree
<1> QED  BY <1>1, <1>2, <1>3, <1>4, <1>5, <1>6, <1>7 DEF VerifyBundle, bundle

(* The bundle of a completed run is accepted offline and says what the run *)
(* said, whatever the suite, the budgets and what the attempts returned:   *)
(* the executor's running totals, the exporter's projection and the        *)
(* verifier's own derivation are three computations of one result          *)
(* (executor.py:247-262, export.py:400-620, verify.py:300-500).            *)
THEOREM BundlesVerify == EvidenceSpec => []BundleVerifies
BY EvidenceInductive, RecordedRuns, BudgetRespected, DoneVerifies, PTL

-----------------------------------------------------------------------------
(* The protocol companion: where the attempts of a canary are in the run.  *)

(* The order of the run is that of the trace.                              *)
OrderInv ==
  /\ Len(run_order) = Len(trace)
  /\ \A i \in DOMAIN trace :
       run_order[i] = <<trace[i].canary, trace[i].side, trace[i].repetition>>

(* The attempts of a canary follow each other, after p others, by its      *)
(* schedule; those of the canary that is run are the last ones.            *)
Block(c, p, first) ==
  LET n == Count(Attempts(c))
  IN  /\ Places(c) = (p + 1)..(p + n)
      /\ \A k \in 0..(n - 1) : /\ trace[p + 1 + k].side = SlotSide(first, k)
                               /\ trace[p + 1 + k].repetition = SlotRepetition(k)
      /\ c = current => p + n = Len(trace) /\ first = orientation

BlockInv == \A c \in Canary : \E p \in Nat, first \in Sides : Block(c, p, first)

VisitedInOrder ==
  \A i, j \in DOMAIN trace :
    i < j /\ trace[i].canary # trace[j].canary => Before(trace[i].canary, trace[j].canary)

LayoutInv == OrderInv /\ BlockInv /\ VisitedInOrder

LEMMA InitLayout == ASSUME EvidenceInit PROVE LayoutInv
<1>1. trace = <<>> /\ run_order = <<>> /\ current = None
  BY DEF EvidenceInit, Init
<1>2. DOMAIN trace = {} /\ Len(trace) = 0 /\ Len(run_order) = 0
  BY <1>1
<1>3. ASSUME NEW c \in Canary PROVE Block(c, 0, "baseline")
  <2>1. Places(c) = {} /\ DOMAIN Attempts(c) = {}
    BY <1>2 DEF Places, Attempts, AttemptsIn, Restrict
  <2>2. Count(Attempts(c)) = 0
    BY <2>1, NothingShown
  <2> QED  BY <1>1, <2>1, <2>2, CanaryFinite DEF Block
<1>4. BlockInv
  <2>1. 0 \in Nat /\ "baseline" \in Sides
    BY DEF Sides
  <2> QED  BY <1>3, <2>1 DEF BlockInv
<1> QED  BY <1>2, <1>4 DEF LayoutInv, OrderInv, VisitedInOrder

(* Nothing is run: only which canary is being run may change.              *)
LEMMA LayoutStays ==
  ASSUME LayoutInv, UNCHANGED <<trace, run_order, budgets>>,
         current' \in {current, None}, orientation' = orientation \/ current' = None
  PROVE  LayoutInv'
<1>1. OrderInv'
  BY DEF LayoutInv, OrderInv
<1>2. \A c, d : Before(c, d)' <=> Before(c, d)
  BY DEF Before, PrioritizeCritical, AttemptConstrained, budgets
<1>3. VisitedInOrder'
  BY <1>2 DEF LayoutInv, VisitedInOrder
<1>4. ASSUME NEW c \in Canary, NEW p \in Nat, NEW first \in Sides, Block(c, p, first)
      PROVE  Block(c, p, first)'
  <2>1. Places(c)' = Places(c) /\ Attempts(c)' = Attempts(c)
    BY DEF Places, Attempts, AttemptsIn
  <2>2. c # None
    BY CanaryFinite
  <2> QED  BY <1>4, <2>1, <2>2 DEF Block, SlotSide, SlotRepetition
<1>5. BlockInv'
  BY <1>4 DEF LayoutInv, BlockInv
<1> QED  BY <1>1, <1>3, <1>5 DEF LayoutInv

LEMMA StartLayout ==
  ASSUME IInv, EInv, LayoutInv, NEW c \in Canary, StartCanary(c), UNCHANGED recorded
  PROVE  LayoutInv'
<1>1. /\ UNCHANGED <<trace, run_order, budgets>> /\ current' = c /\ orientation' \in Sides
      /\ IsNext(c) /\ phase = "visit"
  BY DEF StartCanary, recorded
<1>2. OrderInv'
  BY <1>1 DEF LayoutInv, OrderInv
<1>3. \A d, e : Before(d, e)' <=> Before(d, e)
  BY <1>1 DEF Before, PrioritizeCritical, AttemptConstrained, budgets
<1>4. VisitedInOrder'
  BY <1>1, <1>3 DEF LayoutInv, VisitedInOrder
<1>5. \A d : Places(d)' = Places(d) /\ Attempts(d)' = Attempts(d)
  BY <1>1 DEF Places, Attempts, AttemptsIn
<1>6. ASSUME NEW d \in Canary \ {c} PROVE (\E p \in Nat, first \in Sides : Block(d, p, first))'
  <2>1. PICK p \in Nat, first \in Sides : Block(d, p, first)
    BY DEF LayoutInv, BlockInv
  <2>2. Block(d, p, first)'
    BY <1>1, <1>5, <2>1 DEF Block, SlotSide, SlotRepetition
  <2> QED  BY <2>2
<1>7. (\E p \in Nat, first \in Sides : Block(c, p, first))'
  <2>1. current = None /\ c \notin Started
    BY <1>1 DEF IInv, RunInv, IsNext, Unvisited, Started, Measured
  <2>2. DOMAIN Attempts(c) = {}
    BY <2>1 DEF EInv, RecordInv, RecordOf
  <2>3. Count(Attempts(c)) = 0 /\ Places(c) = {}
    BY <2>2, NothingShown, AttemptsShape DEF EInv
  <2>4. Len(trace) \in Nat
    BY TraceShape DEF EInv
  <2>5. PICK p \in Nat, first \in Sides : p = Len(trace) /\ first = orientation'
    BY <1>1, <2>4
  <2>6. Block(c, p, first)'
    <3>1. Count(Attempts(c)') = 0 /\ Places(c)' = {} /\ Len(trace') = p /\ p + 0 = p
      BY <1>1, <1>5, <2>3, <2>5
    <3>2. (p + 1)..(p + 0) = {} /\ 0..(0 - 1) = {}
      OBVIOUS
    <3> QED  BY <2>5, <3>1, <3>2 DEF Block
  <2> QED  BY <2>6
<1>8. BlockInv'
  BY <1>6, <1>7 DEF BlockInv
<1> QED  BY <1>2, <1>4, <1>8 DEF LayoutInv

LEMMA AttemptLayout ==
  ASSUME IInv, EInv, LayoutInv, NEW r \in Results, NEW late \in BOOLEAN, RecordAttempt(r, late)
  PROVE  LayoutInv'
<1> SUFFICES ASSUME NEW t, t = Added(r, late), NEW n, n = Len(trace) + 1
             PROVE  LayoutInv'
  OBVIOUS
<1>1. /\ t \in Attempt /\ t.canary = current /\ t.side = SlotSide(orientation, slot)
      /\ t.repetition = SlotRepetition(slot) /\ trace' = Append(trace, t)
      /\ current \in Canary /\ orientation \in Sides /\ slot \in Nat
      /\ run_order' = Append(run_order, <<t.canary, t.side, t.repetition>>)
      /\ UNCHANGED <<budgets, current, orientation>> /\ IsNext(current)
  BY Running, SuiteAssumption DEF Added, RunAttempt, AttemptsPerCanary, IInv, RunInv
<1>2. /\ OneMore(DOMAIN trace, n, trace, trace') /\ trace'[n] = t /\ Len(trace') = n
      /\ Places(t.canary)' = Places(t.canary) \cup {n}
      /\ \A c : c # t.canary => Places(c)' = Places(c)
      /\ \A i \in DOMAIN trace : trace'[i] = trace[i]
      /\ DOMAIN trace' = DOMAIN trace \cup {n} /\ n \notin DOMAIN trace
      /\ DOMAIN trace = 1..Len(trace) /\ Len(trace) \in Nat
  BY <1>1, TraceGrows, TraceShape DEF EInv
<1>3. /\ \A c : c = t.canary => OneMore(Places(c), n, Attempts(c), Attempts(c)')
      /\ \A c \in Canary \ {current} : Attempts(c)' = Attempts(c)
  <2>1. TraceInv /\ TraceInv'
    BY AttemptEvidence DEF EInv
  <2> QED  BY <1>1, <2>1, AttemptsGrow
<1>4. OrderInv'
  <2>1. Len(run_order) = Len(trace) /\ run_order \in Seq(Canary \X Sides \X (1..Repetitions))
        /\ \A i \in DOMAIN trace :
             run_order[i] = <<trace[i].canary, trace[i].side, trace[i].repetition>>
    BY DEF LayoutInv, OrderInv, IInv, TypeOK
  <2>2. Len(run_order') = n /\ run_order'[n] = <<t.canary, t.side, t.repetition>>
        /\ \A i \in 1..Len(run_order) : run_order'[i] = run_order[i]
    BY <1>1, <2>1
  <2> QED  BY <1>2, <2>1, <2>2 DEF OrderInv
<1>5. VisitedInOrder'
  <2>1. \A c, d : Before(c, d)' <=> Before(c, d)
    BY <1>1 DEF Before, PrioritizeCritical, AttemptConstrained, budgets
  <2>2. ASSUME NEW i \in DOMAIN trace, trace[i].canary # current
        PROVE  Before(trace[i].canary, current)
    <3>1. trace[i].canary \in Canary
      BY <2>2, TraceShape DEF EInv, Attempt
    <3>2. i \in DOMAIN Attempts(trace[i].canary)
      BY <2>2, AttemptsShape DEF EInv, Places
    <3>3. trace[i].canary \in Started
      BY <3>1, <3>2 DEF EInv, RecordInv, RecordOf
    <3>4. trace[i].canary \in Measured
      BY <2>2, <3>3 DEF Started
    <3> QED  BY <1>1, <3>4, MeasuredBefore
  <2>3. ASSUME NEW i \in DOMAIN trace', NEW j \in DOMAIN trace', i < j,
               trace'[i].canary # trace'[j].canary
        PROVE  Before(trace'[i].canary, trace'[j].canary)
    <3>1. i \in DOMAIN trace
      BY <1>2, <2>3
    <3>2. CASE j \in DOMAIN trace
      BY <1>2, <2>3, <3>1, <3>2 DEF LayoutInv, VisitedInOrder
    <3>3. CASE j = n
      BY <1>1, <1>2, <2>2, <2>3, <3>1, <3>3
    <3> QED  BY <1>2, <2>3, <3>2, <3>3
  <2> QED  BY <2>1, <2>3 DEF VisitedInOrder
<1>6. ASSUME NEW c \in Canary \ {current} PROVE (\E p \in Nat, first \in Sides : Block(c, p, first))'
  <2>1. PICK p \in Nat, first \in Sides : Block(c, p, first)
    BY DEF LayoutInv, BlockInv
  <2>2. Attempts(c)' = Attempts(c) /\ Places(c)' = Places(c) /\ c # current'
    BY <1>1, <1>2, <1>3
  <2>3. Count(Attempts(c)) \in Nat
    BY CountsAreNumbers DEF EInv
  <2>4. \A k \in 0..(Count(Attempts(c)) - 1) : p + 1 + k \in Places(c)
    BY <2>1, <2>3 DEF Block
  <2>5. \A k \in 0..(Count(Attempts(c)) - 1) : trace'[p + 1 + k] = trace[p + 1 + k]
    BY <1>2, <2>4 DEF Places
  <2>6. Block(c, p, first)'
    BY <2>1, <2>2, <2>5 DEF Block, SlotSide, SlotRepetition
  <2> QED  BY <2>6
<1>7. ASSUME NEW c \in Canary, c = t.canary
      PROVE  (\E p \in Nat, first \in Sides : Block(c, p, first))'
  <2>1. PICK p \in Nat, first \in Sides : Block(c, p, first)
    BY DEF LayoutInv, BlockInv
  <2>2. /\ Count(Attempts(c)) = slot /\ Count(Attempts(c)') = slot + 1
        /\ Places(c) = (p + 1)..(p + slot) /\ first = orientation /\ n = p + slot + 1
        /\ \A k \in 0..(slot - 1) : /\ trace[p + 1 + k].side = SlotSide(first, k)
                                    /\ trace[p + 1 + k].repetition = SlotRepetition(k)
    <3>1. Count(Attempts(c)) = slot
      BY <1>1, <1>7 DEF EInv, RecordInv, RecordOf
    <3>2. Count(Attempts(c)') = slot + 1
      BY <1>3, <1>7, <3>1, CountOneMore
    <3> QED  BY <1>1, <1>7, <2>1, <3>1, <3>2 DEF Block
  <2>3. Places(c)' = (p + 1)..(p + slot + 1)
    <3>1. (p + 1)..(p + slot + 1) = ((p + 1)..(p + slot)) \cup {p + slot + 1}
      BY <1>1
    <3> QED  BY <1>1, <1>2, <1>7, <2>2, <3>1
  <2>4. ASSUME NEW k \in 0..slot
        PROVE  /\ trace'[p + 1 + k].side = SlotSide(first, k)
               /\ trace'[p + 1 + k].repetition = SlotRepetition(k)
    <3>1. CASE k = slot
      <4>1. p + 1 + k = n
        BY <1>1, <2>2, <3>1
      <4> QED  BY <1>1, <1>2, <2>2, <3>1, <4>1
    <3>2. CASE k # slot
      <4>1. k \in 0..(slot - 1) /\ p + 1 + k \in DOMAIN trace
        BY <1>1, <1>2, <2>2, <3>2
      <4> QED  BY <1>2, <2>2, <4>1
    <3> QED  BY <3>1, <3>2
  <2>5. Block(c, p, first)'
    <3>1. p + (slot + 1) = n /\ p + (slot + 1) = p + slot + 1 /\ (slot + 1) - 1 = slot
      BY <1>1, <2>2
    <3>2. Count(Attempts(c)') = slot + 1 /\ Places(c)' = (p + 1)..(p + (slot + 1))
      BY <2>2, <2>3, <3>1
    <3>3. \A k \in 0..((slot + 1) - 1) : /\ trace'[p + 1 + k].side = SlotSide(first, k)
                                        /\ trace'[p + 1 + k].repetition = SlotRepetition(k)
      BY <2>4, <3>1
    <3>4. p + (slot + 1) = Len(trace') /\ first = orientation'
      BY <1>1, <1>2, <2>2, <3>1
    <3> QED  BY <3>2, <3>3, <3>4 DEF Block, SlotSide, SlotRepetition
  <2> QED  BY <2>5
<1>8. BlockInv'
  <2>1. ASSUME NEW c \in Canary PROVE (\E p \in Nat, first \in Sides : Block(c, p, first))'
    <3>1. CASE c # current
      BY <1>6, <3>1
    <3>2. CASE c = current
      BY <1>1, <1>7, <3>2
    <3> QED  BY <3>1, <3>2
  <2> QED  BY <2>1 DEF BlockInv
<1> QED  BY <1>4, <1>5, <1>8 DEF LayoutInv

(* The invariant of the recording, with the layout of the run.             *)
RecordedInv == IInv /\ ResultInv /\ EInv /\ LayoutInv

LEMMA LayoutInductive == EvidenceSpec => []RecordedInv
<1>1. EvidenceInit => LayoutInv
  BY InitLayout
<1>2. ASSUME IInv, EInv, LayoutInv, [EvidenceNext]_evidenceVars PROVE LayoutInv'
  <2>1. ASSUME NEW c \in Canary, RecordSkip(c) PROVE LayoutInv'
    <3>1. UNCHANGED <<trace, run_order, budgets, current, orientation>>
      BY <2>1 DEF RecordSkip, SkipCanary, attempts
    <3> QED  BY <1>2, <3>1, LayoutStays
  <2>2. ASSUME NEW r \in Results, NEW late \in BOOLEAN, RecordAttempt(r, late) PROVE LayoutInv'
    BY <1>2, <2>2, AttemptLayout
  <2>3. ASSUME NEW c \in Canary, StartCanary(c), UNCHANGED recorded PROVE LayoutInv'
    BY <1>2, <2>3, StartLayout
  <2>4. ASSUME FinishCanary \/ Return \/ BackendRaises, UNCHANGED recorded PROVE LayoutInv'
    <3>1. /\ UNCHANGED <<trace, run_order, budgets>> /\ current' \in {current, None}
          /\ orientation' = orientation \/ current' = None
      BY <2>4 DEF FinishCanary, Return, BackendRaises, attempts, recorded
    <3> QED  BY <1>2, <3>1, LayoutStays
  <2>5. ASSUME UNCHANGED evidenceVars PROVE LayoutInv'
    <3>1. UNCHANGED <<trace, run_order, budgets, current, orientation>>
      BY <2>5 DEF evidenceVars, vars, attempts, recorded
    <3> QED  BY <1>2, <3>1, LayoutStays
  <2> QED  BY <1>2, <2>1, <2>2, <2>3, <2>4, <2>5 DEF EvidenceNext
<1> QED  BY <1>1, <1>2, EvidenceInductive, PTL DEF EvidenceSpec, RecordedInv

-----------------------------------------------------------------------------
(* Lists whose slots are all different.                                    *)

Distinct(items) == IsFiniteSet(DOMAIN items) /\ Cardinality(SlotsOf(items)) = Count(items)

LEMMA DistinctSlots ==
  ASSUME NEW items, Distinct(items)
  PROVE  \A i, j \in DOMAIN items :
           items[i].side = items[j].side /\ items[i].repetition = items[j].repetition => i = j
<1> DEFINE f == [i \in DOMAIN items |-> <<items[i].side, items[i].repetition>>]
<1>1. f \in Surjection(DOMAIN items, SlotsOf(items))
  BY DEF Surjection, SlotsOf, Range
<1>2. f \in Injection(DOMAIN items, SlotsOf(items))
  <2> HIDE DEF f
  <2> QED  BY <1>1, FS_Surjection DEF Distinct, Count
<1>3. \A i, j \in DOMAIN items : f[i] = f[j] => i = j
  BY <1>2 DEF Injection, IsInjective
<1> QED  BY <1>3

(* A part of such a list is one, too.                                      *)
LEMMA DistinctPart ==
  ASSUME NEW items, Distinct(items), NEW P \in SUBSET DOMAIN items
  PROVE  /\ Distinct(Restrict(items, P))
         /\ DOMAIN Restrict(items, P) = P
         /\ SlotsOf(Restrict(items, P)) = {<<items[i].side, items[i].repetition>> : i \in P}
<1> DEFINE part == Restrict(items, P)
           f == [i \in P |-> <<items[i].side, items[i].repetition>>]
           slots == {<<items[i].side, items[i].repetition>> : i \in P}
<1>1. DOMAIN part = P /\ \A i \in P : part[i] = items[i]
  BY DEF Restrict
<1>2. SlotsOf(part) = slots
  <2> HIDE DEF part
  <2>1. Range(part) = {items[i] : i \in P}
    BY <1>1 DEF Range
  <2> QED  BY <2>1 DEF SlotsOf
<1>3. IsFiniteSet(P)
  BY FS_Subset DEF Distinct
<1>4. f \in Surjection(P, slots) /\ f \in Injection(P, slots)
  <2>1. f \in Surjection(P, slots)
    BY DEF Surjection
  <2>2. \A i, j \in P : f[i] = f[j] => i = j
    BY DistinctSlots
  <2> QED  BY <2>1, <2>2 DEF Surjection, Injection, IsInjective
<1>5. Cardinality(slots) = Cardinality(P)
  <2> HIDE DEF f, slots
  <2> QED  BY <1>3, <1>4, FS_Surjection
<1> QED  BY <1>1, <1>2, <1>3, <1>5 DEF Distinct, Count

(* One attempt of each repetition is as many as there are repetitions; one *)
(* of each side is two.                                                    *)
LEMMA SlotsCounted ==
  /\ IsFiniteSet(Sides) /\ IsFiniteSet(1..Repetitions)
  /\ Cardinality(Sides) = 2 /\ Cardinality(1..Repetitions) = Repetitions
  /\ IsFiniteSet(Slots) /\ Cardinality(Slots) = AttemptsPerCanary
  /\ \A r : Cardinality(Sides \X {r}) = 2
  /\ \A s : Cardinality({s} \X (1..Repetitions)) = Repetitions
<1>1. IsFiniteSet(Sides) /\ Cardinality(Sides) = 2
  <2>1. Cardinality({}) = 0 /\ IsFiniteSet({}) /\ Sides = ({} \cup {"baseline"}) \cup {"candidate"}
    BY FS_EmptySet DEF Sides
  <2>2. IsFiniteSet({} \cup {"baseline"}) /\ Cardinality({} \cup {"baseline"}) = 1
    BY <2>1, FS_AddElement
  <2> QED  BY <2>1, <2>2, FS_AddElement
<1>2. IsFiniteSet(1..Repetitions) /\ Cardinality(1..Repetitions) = Repetitions
      /\ Repetitions \in Nat
  BY FS_Interval, SuiteAssumption
<1>3. IsFiniteSet(Slots) /\ Cardinality(Slots) = AttemptsPerCanary
  <2>1. /\ IsFiniteSet(Sides \X (1..Repetitions))
        /\ Cardinality(Sides \X (1..Repetitions)) = Cardinality(Sides) * Cardinality(1..Repetitions)
    BY <1>1, <1>2, FS_Product
  <2> QED  BY <1>1, <1>2, <2>1 DEF Slots, AttemptsPerCanary
<1>4. \A x : IsFiniteSet({x}) /\ Cardinality({x}) = 1
  BY FS_Singleton
<1>5. \A r : Cardinality(Sides \X {r}) = 2
  <2> TAKE r
  <2>1. IsFiniteSet({r}) /\ Cardinality({r}) = 1
    BY <1>4
  <2> QED  BY <1>1, <2>1, FS_Product
<1>6. \A s : Cardinality({s} \X (1..Repetitions)) = Repetitions
  <2> TAKE s
  <2>1. IsFiniteSet({s}) /\ Cardinality({s}) = 1
    BY <1>4
  <2> QED  BY <1>2, <2>1, FS_Product
<1> QED  BY <1>1, <1>2, <1>3, <1>5, <1>6

(* A measured canary has an attempt in every slot.                         *)
LEMMA MeasuredSlots ==
  ASSUME TraceInv, RecordInv, NEW c \in Canary, c \in Measured
  PROVE  /\ Distinct(Attempts(c)) /\ Count(Attempts(c)) = AttemptsPerCanary
         /\ SlotsOf(Attempts(c)) = Slots
<1>1. /\ Cardinality(SlotsOf(Attempts(c))) = Count(Attempts(c))
      /\ Count(Attempts(c)) = AttemptsPerCanary
  BY DEF RecordInv, RecordOf
<1>2. IsFiniteSet(DOMAIN Attempts(c)) /\ Attempts(c) \in [Places(c) -> Attempt]
  BY AttemptsShape
<1>3. SlotsOf(Attempts(c)) \in SUBSET Slots
  <2>1. \A t \in Range(Attempts(c)) : t \in Attempt
    BY <1>2 DEF Range
  <2> QED  BY <2>1 DEF SlotsOf, Slots, Attempt
<1>4. SlotsOf(Attempts(c)) = Slots
  BY <1>1, <1>3, SlotsCounted, FS_Subset
<1> QED  BY <1>1, <1>2, <1>4 DEF Distinct

-----------------------------------------------------------------------------
(* The sidecar.                                                            *)

LEMMA SidecarShape ==
  ASSUME TraceInv, NEW c \in Canary
  PROVE  /\ DOMAIN PairsOf(c) = 1..Repetitions
         /\ \A r \in 1..Repetitions :
              LET P == {i \in Places(c) : trace[i].repetition = r}
              IN  PairsOf(c)[r] = Restrict(Attempts(c), P) /\ P \subseteq Places(c)
         /\ Joined(PairsOf(c)) = Attempts(c)
<1>1. /\ Attempts(c) = [i \in Places(c) |-> trace[i]] /\ DOMAIN Attempts(c) = Places(c)
      /\ Attempts(c) \in [Places(c) -> Attempt] /\ Places(c) \subseteq DOMAIN trace
  BY AttemptsShape
<1>2. ASSUME NEW r \in 1..Repetitions
      PROVE  PairsOf(c)[r] = Restrict(Attempts(c), {i \in Places(c) : trace[i].repetition = r})
  <2>1. {i \in DOMAIN Attempts(c) : Attempts(c)[i].repetition = r}
          = {i \in Places(c) : trace[i].repetition = r}
    BY <1>1
  <2> QED  BY <2>1 DEF PairsOf
<1>3. \A r \in 1..Repetitions : DOMAIN PairsOf(c)[r] = {i \in Places(c) : trace[i].repetition = r}
  BY <1>2 DEF Restrict
<1>4. DOMAIN PairsOf(c) = 1..Repetitions
  BY DEF PairsOf
<1>5. UNION {DOMAIN PairsOf(c)[r] : r \in DOMAIN PairsOf(c)} = Places(c)
  <2>1. \A i \in Places(c) : trace[i].repetition \in 1..Repetitions
    BY <1>1 DEF Attempt
  <2> QED  BY <1>3, <1>4, <2>1
<1>6. Joined(PairsOf(c)) = Attempts(c)
  BY <1>1, <1>5 DEF Joined, Restrict
<1> QED  BY <1>2, <1>4, <1>6

(* Every pair is one baseline and one candidate.                           *)
LEMMA PairsBuilt ==
  ASSUME TraceInv, RecordInv, NEW c \in Canary, c \in Measured, NEW r \in 1..Repetitions
  PROVE  Count(PairsOf(c)[r]) = 2 /\ SlotsOf(PairsOf(c)[r]) = Sides \X {r}
<1> DEFINE P == {i \in Places(c) : trace[i].repetition = r}
           items == Attempts(c)
<1>1. Distinct(items) /\ SlotsOf(items) = Slots
  BY MeasuredSlots
<1>2. DOMAIN items = Places(c) /\ \A i \in Places(c) : items[i] = trace[i]
  BY AttemptsShape
<1>3. PairsOf(c)[r] = Restrict(items, P)
  BY SidecarShape
<1>4. /\ Distinct(Restrict(items, P))
      /\ SlotsOf(Restrict(items, P)) = {<<items[i].side, items[i].repetition>> : i \in P}
  BY <1>1, <1>2, DistinctPart
<1>5. {<<items[i].side, items[i].repetition>> : i \in P} = Sides \X {r}
  <2>1. Slots = {<<items[i].side, items[i].repetition>> : i \in Places(c)}
    BY <1>1, <1>2 DEF SlotsOf, Range
  <2>2. \A i \in P : items[i].side \in Sides /\ items[i].repetition = r
    <3>1. items \in [Places(c) -> Attempt]
      BY AttemptsShape
    <3> QED  BY <1>2, <3>1 DEF Attempt
  <2>3. ASSUME NEW s \in Sides PROVE \E i \in P : <<items[i].side, items[i].repetition>> = <<s, r>>
    <3>1. <<s, r>> \in Slots
      BY DEF Slots
    <3> QED  BY <1>2, <2>1, <3>1
  <2> HIDE DEF P, items
  <2> QED  BY <2>2, <2>3
<1> QED  BY <1>3, <1>4, <1>5, SlotsCounted DEF Distinct

(* What a completed run has traced is what it measured.                    *)
LEMMA DoneTraced ==
  ASSUME IInv, ResultInv, EInv, phase = "done"
  PROVE  /\ Traced = Measured /\ Measured \subseteq Canary
         /\ \A c \in Canary : c \in Measured \/ c \in Skipped
         /\ \A c \in Canary : c \in Skipped <=> c \notin Measured
         /\ \A c \in Canary \ Measured : DOMAIN Attempts(c) = {}
<1>1. current = None
  BY DEF IInv, RunInv
<1>2. \A c \in Canary \ Measured : DOMAIN Attempts(c) = {} /\ Count(Attempts(c)) = 0
  <2> TAKE c \in Canary \ Measured
  <2>1. DOMAIN Attempts(c) = {}
    BY <1>1 DEF EInv, RecordInv, RecordOf, Started
  <2> QED  BY <2>1, NothingShown
<1>3. \A c \in Canary : c \in Measured => Count(Attempts(c)) > 0
  BY DoneShown, SuiteAssumption DEF AttemptsPerCanary
<1>4. \A c \in Canary : c \in Measured \cup Skipped
  BY DoneShown
<1>5. Measured \subseteq Canary /\ \A c \in Measured : c \notin Skipped
  BY DEF Measured, Skipped
<1> QED  BY <1>2, <1>3, <1>4, <1>5 DEF Traced

-----------------------------------------------------------------------------
(* Ranks.                                                                  *)

LEMMA RankOfInterval ==
  ASSUME NEW p \in Nat, NEW n \in Nat, NEW i \in (p + 1)..(p + n)
  PROVE  Cardinality({j \in (p + 1)..(p + n) : j < i}) = i - p - 1
<1> DEFINE below == {j \in (p + 1)..(p + n) : j < i}
<1>1. below = (p + 1)..(i - 1)
  OBVIOUS
<1>2. Cardinality((p + 1)..(i - 1)) = IF p + 1 > i - 1 THEN 0 ELSE (i - 1) - (p + 1) + 1
  <2>1. p + 1 \in Int /\ i - 1 \in Int
    OBVIOUS
  <2> QED  BY <2>1, FS_Interval
<1>3. i - p - 1 = IF p + 1 > i - 1 THEN 0 ELSE (i - 1) - (p + 1) + 1
  <2>1. i \in Int /\ i >= p + 1 /\ p \in Int
    OBVIOUS
  <2> QED  BY <2>1
<1>4. Cardinality(below) = i - p - 1
  <2> HIDE DEF below
  <2> QED  BY <1>1, <1>2, <1>3
<1> QED  BY <1>4

LEMMA InOrderOfInterval ==
  ASSUME NEW p \in Nat, NEW n \in Nat, NEW rank, DOMAIN rank = (p + 1)..(p + n),
         \A i \in DOMAIN rank : rank[i] = i - p - 1
  PROVE  InOrder(rank) = [k \in 1..n |-> p + k]
<1>1. Cardinality(DOMAIN rank) = n
  <2>1. p + 1 \in Int /\ p + n \in Int
    OBVIOUS
  <2>2. Cardinality((p + 1)..(p + n)) = IF p + 1 > p + n THEN 0 ELSE (p + n) - (p + 1) + 1
    BY <2>1, FS_Interval
  <2> QED  BY <2>2
<1>2. ASSUME NEW k \in 1..n PROVE (CHOOSE i \in DOMAIN rank : rank[i] = k - 1) = p + k
  <2>1. p + k \in DOMAIN rank /\ rank[p + k] = k - 1
    OBVIOUS
  <2>2. \A i \in DOMAIN rank : rank[i] = k - 1 => i = p + k
    OBVIOUS
  <2> QED  BY <2>1, <2>2
<1> QED  BY <1>1, <1>2 DEF InOrder

(* The sidecar has the attempts in the order they ran, if the canaries ran *)
(* in the order of their ids.                                              *)
LEMMA WrittenAsRun ==
  ASSUME EInv, LayoutInv, RanInIdOrder, NEW i \in DOMAIN trace, NEW j \in DOMAIN trace
  PROVE  WrittenBefore(j, i) <=> j < i
<1>1. /\ trace[i] \in Attempt /\ trace[j] \in Attempt /\ i \in Nat /\ j \in Nat
      /\ trace[i].canary \in Canary /\ trace[j].canary \in Canary
  BY TraceShape DEF EInv, Attempt
<1>2. CASE trace[i].canary # trace[j].canary
  <2>1. Id[trace[i].canary] \in Nat /\ Id[trace[j].canary] \in Nat
    BY <1>1, IdAssumption
  <2>2. j < i => Id[trace[j].canary] < Id[trace[i].canary]
    BY <1>1, <1>2 DEF LayoutInv, VisitedInOrder, RanInIdOrder
  <2>3. i < j => Id[trace[i].canary] < Id[trace[j].canary]
    BY <1>1, <1>2 DEF LayoutInv, VisitedInOrder, RanInIdOrder
  <2>4. WrittenBefore(j, i) <=> Id[trace[j].canary] < Id[trace[i].canary]
    BY <1>2 DEF WrittenBefore
  <2>5. i # j
    BY <1>2
  <2> QED  BY <1>1, <2>1, <2>2, <2>3, <2>4, <2>5
<1>3. CASE trace[i].canary = trace[j].canary
  <2>1. PICK p \in Nat, first \in Sides : Block(trace[i].canary, p, first)
    BY <1>1 DEF LayoutInv, BlockInv
  <2> DEFINE n == Count(Attempts(trace[i].canary))
             rep(k) == trace[k].repetition
  <2>2. n \in Nat /\ i \in (p + 1)..(p + n) /\ j \in (p + 1)..(p + n)
    <3>1. i \in Places(trace[i].canary) /\ j \in Places(trace[i].canary)
      BY <1>3 DEF Places
    <3> QED  BY <2>1, <3>1, CountsAreNumbers DEF Block, EInv
  <2>3. \A k \in 0..(n - 1) : trace[p + 1 + k].repetition = (k \div 2) + 1
    BY <2>1 DEF Block, SlotRepetition
  <2> HIDE DEF n
  <2>4. PICK k \in 0..(n - 1), l \in 0..(n - 1) : i = p + 1 + k /\ j = p + 1 + l
    <3>1. i - p - 1 \in 0..(n - 1) /\ j - p - 1 \in 0..(n - 1)
      BY <2>2
    <3>2. i = p + 1 + (i - p - 1) /\ j = p + 1 + (j - p - 1)
      BY <2>2
    <3> QED  BY <3>1, <3>2
  <2>5. rep(i) = (k \div 2) + 1 /\ rep(j) = (l \div 2) + 1
    BY <2>3, <2>4
  <2>6. (l < k => rep(j) <= rep(i)) /\ (k < l => rep(i) <= rep(j)) /\ rep(i) \in Nat /\ rep(j) \in Nat
    BY <2>2, <2>4, <2>5
  <2>7. WrittenBefore(j, i) <=> IF rep(j) # rep(i) THEN rep(j) < rep(i) ELSE j < i
    BY <1>3 DEF WrittenBefore
  <2> HIDE DEF rep
  <2> QED  BY <2>2, <2>4, <2>6, <2>7
<1> QED  BY <1>2, <1>3

LEMMA BundleShape ==
  /\ \A c \in Canary : ExportedBundle.executions[c].attempts = Attempts(c)
  /\ ExportedBundle.run_order = run_order
<1>1. \A c \in Canary : PublicExecution(c).attempts = Attempts(c)
  BY DEF PublicExecution
<1> QED  BY <1>1 DEF ExportedBundle

(* The order of the sidecar is the order of the run.                       *)
LEMMA SidecarInOrder ==
  ASSUME IInv, ResultInv, EInv, LayoutInv, RanInIdOrder, phase = "done"
  PROVE  ObservedOrder(Sidecar) = run_order
<1> DEFINE places == UNION {DOMAIN Joined(Sidecar[c]) : c \in DOMAIN Sidecar}
           rank == [i \in places |-> Cardinality({j \in places : WrittenBefore(j, i)})]
           n == Len(trace)
<1>1. DOMAIN trace = 1..n /\ n \in Nat /\ trace \in [DOMAIN trace -> Attempt]
  BY TraceShape DEF EInv
<1>2. places = 1..n
  <2>1. DOMAIN Sidecar = Measured /\ Measured \subseteq Canary
    BY DoneTraced DEF Sidecar
  <2>2. \A c \in Measured : Joined(Sidecar[c]) = Attempts(c)
    BY <2>1, SidecarShape DEF Sidecar, EInv
  <2>3. \A c \in Canary : DOMAIN Attempts(c) = Places(c)
    BY AttemptsShape DEF EInv
  <2>4. ASSUME NEW i \in 1..n PROVE \E c \in Measured : i \in Places(c)
    <3>1. trace[i].canary \in Canary /\ i \in Places(trace[i].canary)
      BY <1>1 DEF Attempt, Places
    <3>2. trace[i].canary \in Measured
      BY <2>3, <3>1, DoneTraced
    <3> QED  BY <3>1, <3>2
  <2>5. \A c : Places(c) \subseteq 1..n
    BY <1>1 DEF Places
  <2>6. places = UNION {Places(c) : c \in Measured}
    BY <2>1, <2>2, <2>3
  <2> QED  BY <2>4, <2>5, <2>6
<1>3. DOMAIN rank = (0 + 1)..(0 + n) /\ \A i \in DOMAIN rank : rank[i] = i - 0 - 1
  <2>1. ASSUME NEW i \in 1..n PROVE rank[i] = i - 0 - 1
    <3>1. i \in (0 + 1)..(0 + n) /\ 0 \in Nat
      BY <1>1
    <3>2. Cardinality({j \in (0 + 1)..(0 + n) : j < i}) = i - 0 - 1
      <4> HIDE DEF n
      <4> QED  BY <1>1, <3>1, RankOfInterval
    <3>3. {j \in places : WrittenBefore(j, i)} = {j \in (0 + 1)..(0 + n) : j < i}
      BY <1>1, <1>2, WrittenAsRun
    <3>4. rank[i] = Cardinality({j \in places : WrittenBefore(j, i)})
      BY <1>2
    <3> QED  BY <3>2, <3>3, <3>4
  <2>2. DOMAIN rank = places
    OBVIOUS
  <2>3. 0 + 1 = 1 /\ 0 + n = n
    BY <1>1
  <2> HIDE DEF rank, places, n
  <2> QED  BY <1>2, <2>1, <2>2, <2>3
<1> HIDE DEF rank, n
<1>4. InOrder(rank) = [k \in 1..n |-> 0 + k]
  BY <1>1, <1>3, InOrderOfInterval
<1>5. InOrder(rank) = [k \in 1..n |-> k]
  BY <1>1, <1>4
<1>6. ObservedOrder(Sidecar)
        = [k \in 1..n |-> <<trace[k].canary, trace[k].side, trace[k].repetition>>]
  <2>1. ObservedOrder(Sidecar) = LET written == InOrder(rank)
                                 IN  [k \in DOMAIN written |->
                                       LET t == trace[written[k]] IN <<t.canary, t.side, t.repetition>>]
    BY DEF ObservedOrder, rank
  <2> QED  BY <1>5, <2>1
<1>7. run_order = [k \in 1..n |-> <<trace[k].canary, trace[k].side, trace[k].repetition>>]
  <2>1. run_order \in Seq(Canary \X Sides \X (1..Repetitions)) /\ Len(run_order) = n
        /\ \A k \in 1..n : run_order[k] = <<trace[k].canary, trace[k].side, trace[k].repetition>>
    BY <1>1 DEF LayoutInv, OrderInv, IInv, TypeOK, n
  <2>2. run_order \in [1..n -> Canary \X Sides \X (1..Repetitions)]
    BY <2>1, SequenceIsFunction
  <2> QED  BY <2>1, <2>2
<1> QED  BY <1>6, <1>7

(* A completed run exports with its companion.                             *)
LEMMA DoneAccepted ==
  ASSUME IInv, ResultInv, EInv, LayoutInv, AttemptBudgetRespected
  PROVE  CompanionAccepted
<1> SUFFICES ASSUME phase = "done", RanInIdOrder PROVE Accepts(ExportedBundle)
  BY DEF CompanionAccepted, ExportAccepts
<1> DEFINE bundle == ExportedBundle
<1>1. Traced = Measured /\ Measured \subseteq Canary
  BY DoneTraced
<1>2. BuildAccepts
  BY <1>1, PairsBuilt DEF BuildAccepts, EInv
<1>3. VerifyBundle(bundle)
  BY DoneVerifies DEF BundleVerifies
<1>4. \A c \in Canary : bundle.executions[c].attempts = Attempts(c)
  BY BundleShape
<1>5. \A c \in DOMAIN Sidecar :
        /\ DOMAIN Sidecar[c] = 1..Repetitions
        /\ Joined(Sidecar[c]) = Attempts(c)
  BY <1>1, SidecarShape DEF Sidecar, EInv
<1>6. DOMAIN Sidecar = {c \in Canary : Count(bundle.executions[c].attempts) > 0}
  BY <1>4 DEF Sidecar, Traced
<1>7. ObservedOrder(Sidecar) = bundle.run_order
  BY BundleShape, SidecarInOrder
<1> HIDE DEF bundle
<1>8. LayoutAccepts(Sidecar, bundle)
  BY <1>4, <1>5, <1>6, <1>7 DEF LayoutAccepts
<1> QED  BY <1>2, <1>3, <1>8 DEF Accepts, bundle

-----------------------------------------------------------------------------
(* The conditions of a canary that was measured.                           *)

LEMMA PairShape ==
  ASSUME NEW first \in Sides, NEW r \in 1..Repetitions
  PROVE  LET leader == IF r % 2 = 1 THEN first ELSE OtherSide(first)
         IN  /\ SlotRepetition(2 * r - 1) = r /\ SlotRepetition(2 * r - 2) = r
             /\ SlotSide(first, 2 * r - 2) = leader
             /\ SlotSide(first, 2 * r - 1) = OtherSide(leader)
<1>1. r \in Nat /\ r >= 1
  BY SuiteAssumption
<1>2. (2 * r - 1) \div 2 = r - 1 /\ (2 * r - 2) \div 2 = r - 1
  BY <1>1
<1>3. (2 * r - 1) % 2 = 1 /\ (2 * r - 2) % 2 = 0
  BY <1>1
<1>4. SlotRepetition(2 * r - 1) = r /\ SlotRepetition(2 * r - 2) = r
  BY <1>1, <1>2 DEF SlotRepetition
<1> QED  BY <1>3, <1>4 DEF SlotSide

(* The order of a run is valid for every canary it measured.               *)
LEMMA OrderIsValid ==
  ASSUME IInv, EInv, LayoutInv, NEW c \in Canary, c \in Measured,
         NEW bundle, bundle.run_order = run_order
  PROVE  OrderValid(bundle, c) = "TRUE"
<1> DEFINE order == bundle.run_order
           places == {i \in DOMAIN order : order[i][1] = c}
           rank == [i \in places |-> Cardinality({j \in places : j < i})]
           positions == InOrder(rank)
           n == AttemptsPerCanary
<1>1. n = 2 * Repetitions /\ Repetitions \in Nat /\ Repetitions >= 1 /\ n \in Nat
  BY SuiteAssumption DEF AttemptsPerCanary
<1>2. PICK p \in Nat, first \in Sides : Block(c, p, first)
  BY DEF LayoutInv, BlockInv
<1>3. /\ Places(c) = (p + 1)..(p + n)
      /\ \A k \in 0..(n - 1) : /\ trace[p + 1 + k].side = SlotSide(first, k)
                               /\ trace[p + 1 + k].repetition = SlotRepetition(k)
  <2>1. Count(Attempts(c)) = n
    BY MeasuredSlots DEF EInv
  <2> HIDE DEF n
  <2> QED  BY <1>2, <2>1 DEF Block
<1>4. /\ DOMAIN order = DOMAIN trace
      /\ \A i \in DOMAIN trace :
           order[i] = <<trace[i].canary, trace[i].side, trace[i].repetition>>
  <2>1. Len(run_order) = Len(trace) /\ run_order \in Seq(Canary \X Sides \X (1..Repetitions))
    BY DEF LayoutInv, OrderInv, IInv, TypeOK
  <2>2. DOMAIN run_order = 1..Len(trace) /\ DOMAIN trace = 1..Len(trace)
    BY <2>1, TraceShape DEF EInv
  <2> QED  BY <2>2 DEF LayoutInv, OrderInv
<1>5. places = (p + 1)..(p + n)
  <2>1. places = Places(c)
    BY <1>4 DEF Places
  <2> HIDE DEF places
  <2> QED  BY <1>3, <2>1
<1>6. positions = [k \in 1..n |-> p + k]
  <2>1. ASSUME NEW i \in places PROVE rank[i] = i - p - 1
    <3>1. Cardinality({j \in (p + 1)..(p + n) : j < i}) = i - p - 1
      <4>1. i \in (p + 1)..(p + n)
        BY <1>5
      <4> HIDE DEF n, places
      <4> QED  BY <1>1, <4>1, RankOfInterval
    <3>2. rank[i] = Cardinality({j \in places : j < i})
      BY <2>1
    <3>3. {j \in places : j < i} = {j \in (p + 1)..(p + n) : j < i}
      BY <1>5
    <3> QED  BY <3>1, <3>2, <3>3
  <2>2. DOMAIN rank = places
    OBVIOUS
  <2> HIDE DEF rank, places, n
  <2> QED  BY <1>1, <1>5, <2>1, <2>2, InOrderOfInterval
<1>7. Cardinality(places) = n
  <2>1. p + 1 \in Int /\ p + n \in Int
    BY <1>1
  <2>2. Cardinality((p + 1)..(p + n)) = IF p + 1 > p + n THEN 0 ELSE (p + n) - (p + 1) + 1
    BY <2>1, FS_Interval
  <2> HIDE DEF places, n
  <2> QED  BY <1>1, <1>5, <2>2
<1>8. ASSUME NEW k \in 1..n
      PROVE  /\ order[positions[k]][2] = SlotSide(first, k - 1)
             /\ order[positions[k]][3] = SlotRepetition(k - 1)
             /\ positions[k] = p + k
  <2>1. positions[k] = p + k
    BY <1>6
  <2>2. k - 1 \in 0..(n - 1) /\ p + k = p + 1 + (k - 1)
    BY <1>1
  <2>3. p + k \in Places(c)
    BY <1>1, <1>3
  <2>4. p + k \in DOMAIN trace
    BY <2>3 DEF Places
  <2>5. trace[p + k].side = SlotSide(first, k - 1) /\ trace[p + k].repetition = SlotRepetition(k - 1)
    BY <1>3, <2>2
  <2> HIDE DEF positions, order, n
  <2> QED  BY <1>4, <2>1, <2>4, <2>5
<1> HIDE DEF positions
<1>9. ASSUME NEW r \in 1..Repetitions
      PROVE  LET leader == IF r % 2 = 1 THEN first ELSE OtherSide(first)
             IN  /\ positions[2 * r] = positions[2 * r - 1] + 1
                 /\ order[positions[2 * r]][3] = r /\ order[positions[2 * r - 1]][3] = r
                 /\ order[positions[2 * r]][2] = OtherSide(leader)
                 /\ order[positions[2 * r - 1]][2] = leader
  <2>1. 2 * r \in 1..n /\ 2 * r - 1 \in 1..n /\ (2 * r - 1) - 1 = 2 * r - 2 /\ r \in Nat
    BY <1>1
  <2>2. positions[2 * r] = p + 2 * r /\ positions[2 * r - 1] = p + (2 * r - 1)
    BY <1>8, <2>1
  <2>3. p + 2 * r = p + (2 * r - 1) + 1
    BY <2>1
  <2>4. /\ order[positions[2 * r]][2] = SlotSide(first, 2 * r - 1)
        /\ order[positions[2 * r]][3] = SlotRepetition(2 * r - 1)
        /\ order[positions[2 * r - 1]][2] = SlotSide(first, 2 * r - 2)
        /\ order[positions[2 * r - 1]][3] = SlotRepetition(2 * r - 2)
    <3> HIDE DEF order, n
    <3> QED  BY <1>8, <2>1
  <2> HIDE DEF order, n
  <2> QED  BY <2>2, <2>3, <2>4, PairShape
<1>10. \A s \in Sides : s # OtherSide(s) /\ OtherSide(s) \in Sides
  BY DEF Sides, OtherSide
<1>11. \A r \in 1..Repetitions :
         /\ positions[2 * r] = positions[2 * r - 1] + 1
         /\ order[positions[2 * r]][3] = r /\ order[positions[2 * r - 1]][3] = r
         /\ order[positions[2 * r]][2] # order[positions[2 * r - 1]][2]
  <2> HIDE DEF order, n
  <2> QED  BY <1>9, <1>10
<1>12. \A r \in 2..Repetitions :
         order[positions[2 * r]][2] # order[positions[2 * r - 2]][2]
  <2> TAKE r \in 2..Repetitions
  <2>1. r \in 1..Repetitions /\ r - 1 \in 1..Repetitions /\ 2 * (r - 1) = 2 * r - 2
    BY <1>1
  <2>2. r % 2 = 1 <=> ~((r - 1) % 2 = 1)
    BY <2>1
  <2>3. /\ order[positions[2 * r]][2] = OtherSide(IF r % 2 = 1 THEN first ELSE OtherSide(first))
        /\ order[positions[2 * r - 2]][2]
             = OtherSide(IF (r - 1) % 2 = 1 THEN first ELSE OtherSide(first))
    <3> HIDE DEF order, n
    <3> QED  BY <1>9, <2>1
  <2>4. OtherSide(first) # OtherSide(OtherSide(first))
    BY <1>10
  <2> HIDE DEF order
  <2> QED  BY <2>2, <2>3, <2>4
<1>13. places # {}
  <2>1. p + 1 \in (p + 1)..(p + n)
    BY <1>1
  <2> HIDE DEF places, n
  <2> QED  BY <1>5, <2>1
<1> QED  BY <1>7, <1>11, <1>12, <1>13 DEF OrderValid, positions, rank

(* The attempts of one side fill its slots; they are all valid, and all    *)
(* succeed, if their aggregate counts as many as there are repetitions.    *)
LEMMA SideShown ==
  ASSUME TraceInv, RecordInv, NEW c \in Canary, c \in Measured, NEW s \in Sides
  PROVE  LET items == OfSide(Attempts(c), s)
             shown == Aggregate(Attempts(c), s)
         IN  /\ Count(items) = Repetitions /\ FillsSide(items)
             /\ AllValid(items) <=> shown.valid = Repetitions
             /\ AllValid(items) /\ AllSucceed(items) <=> shown.successes = Repetitions
             /\ Range(items) = {t \in Range(Attempts(c)) : t.side = s}
<1> DEFINE all == Attempts(c)
           P == {i \in DOMAIN all : all[i].side = s}
           items == OfSide(all, s)
<1>1. Distinct(all) /\ SlotsOf(all) = Slots /\ all \in [DOMAIN all -> Attempt] /\ IsFiniteSet(DOMAIN all)
  BY MeasuredSlots, AttemptsShape DEF Distinct
<1> HIDE DEF all
<1>2. /\ Distinct(items) /\ DOMAIN items = P
      /\ SlotsOf(items) = {<<all[i].side, all[i].repetition>> : i \in P}
  BY <1>1, DistinctPart DEF OfSide
<1>3. \A i \in P : items[i] = all[i]
  BY DEF OfSide, Restrict
<1>4. {<<all[i].side, all[i].repetition>> : i \in P} = {s} \X (1..Repetitions)
  <2>1. Slots = {<<all[i].side, all[i].repetition>> : i \in DOMAIN all}
    BY <1>1 DEF SlotsOf, Range
  <2>2. \A i \in P : all[i].side = s /\ all[i].repetition \in 1..Repetitions
    BY <1>1 DEF Attempt
  <2>3. ASSUME NEW r \in 1..Repetitions PROVE \E i \in P : <<all[i].side, all[i].repetition>> = <<s, r>>
    <3>1. <<s, r>> \in Slots
      BY DEF Slots
    <3>2. PICK i \in DOMAIN all : <<all[i].side, all[i].repetition>> = <<s, r>>
      BY <2>1, <3>1
    <3> QED  BY <3>2
  <2> HIDE DEF P
  <2> QED  BY <2>2, <2>3
<1> HIDE DEF items, P
<1>5. Count(items) = Repetitions /\ Cardinality(P) = Repetitions /\ IsFiniteSet(P)
  BY <1>2, <1>4, SlotsCounted DEF Distinct, Count
<1>6. {t.repetition : t \in Range(items)} = 1..Repetitions
  <2>1. {<<t.side, t.repetition>> : t \in Range(items)} = {s} \X (1..Repetitions)
    BY <1>2, <1>4 DEF SlotsOf
  <2>2. \A t \in Range(items) : <<t.side, t.repetition>> \in {s} \X (1..Repetitions)
    BY <2>1
  <2>3. \A r \in 1..Repetitions : \E t \in Range(items) : <<t.side, t.repetition>> = <<s, r>>
    BY <2>1
  <2> QED  BY <2>2, <2>3
<1>7. Valid(all, s) = {i \in P : all[i].valid} /\ Won(all, s) = {i \in P : all[i].valid /\ all[i].success}
  BY DEF Valid, Won, P
<1>8. Valid(all, s) \in SUBSET P /\ Won(all, s) \in SUBSET P
  BY <1>7
<1>9. /\ Cardinality(Valid(all, s)) = Repetitions <=> Valid(all, s) = P
      /\ Cardinality(Won(all, s)) = Repetitions <=> Won(all, s) = P
  BY <1>5, <1>8, FS_Subset
<1>10. Range(items) = {all[i] : i \in P}
  BY <1>2, <1>3 DEF Range
<1>11. /\ AllValid(items) <=> Valid(all, s) = P
       /\ AllValid(items) /\ AllSucceed(items) <=> Won(all, s) = P
  BY <1>7, <1>10 DEF AllValid, AllSucceed
<1>12. /\ Aggregate(all, s).valid = Cardinality(Valid(all, s))
       /\ Aggregate(all, s).successes = Cardinality(Won(all, s))
  BY AggregateCounts
<1>13. Range(items) = {t \in Range(all) : t.side = s}
  BY <1>10 DEF Range, P
<1> QED  BY <1>5, <1>6, <1>9, <1>11, <1>12, <1>13 DEF FillsSide, items, all

(* No two attempts of a canary share a container.                          *)
LEMMA InstancesDiffer ==
  ASSUME TraceInv, RecordInv, NEW c \in Canary, c \in Measured
  PROVE  Cardinality({Instance(t) : t \in Range(Attempts(c))}) = Count(Attempts(c))
<1> DEFINE all == Attempts(c)
           T == {Instance(t) : t \in Range(all)}
           f == [i \in DOMAIN all |-> Instance(all[i])]
<1>1. Distinct(all) /\ IsFiniteSet(DOMAIN all)
  BY MeasuredSlots DEF Distinct
<1> HIDE DEF all
<1>2. f \in Surjection(DOMAIN all, T)
  BY DEF Surjection, Range
<1>3. f \in Injection(DOMAIN all, T)
  <2>1. \A i, j \in DOMAIN all : f[i] = f[j] => i = j
    BY <1>1, DistinctSlots DEF Instance
  <2> QED  BY <1>2, <2>1 DEF Surjection, Injection, IsInjective
<1>4. Cardinality(T) = Cardinality(DOMAIN all)
  <2> HIDE DEF f, T
  <2> QED  BY <1>1, <1>2, <1>3, FS_Surjection
<1> QED  BY <1>4 DEF Count, all

-----------------------------------------------------------------------------
(* The claims.                                                             *)

LEMMA EvidenceShape ==
  ASSUME IInv, ResultInv, EInv, phase = "done"
  PROVE  DOMAIN ProtocolEvidence = Measured /\ \A c \in Measured : ProtocolEvidence[c] = Attempts(c)
BY DoneTraced, SidecarShape DEF ProtocolEvidence, EInv

(* The slots of a canary are all there, or none is.                        *)
LEMMA SlotsShown ==
  ASSUME IInv, ResultInv, EInv, phase = "done"
  PROVE  \A c \in Canary : SlotEvidence(Attempts(c)) = IF c \in Measured THEN "TRUE" ELSE "UNKNOWN"
<1> TAKE c \in Canary
<1>1. CASE c \in Measured
  <2>1. SlotsOf(Attempts(c)) = Slots /\ Count(Attempts(c)) = AttemptsPerCanary
    BY <1>1, MeasuredSlots DEF EInv
  <2>2. Cardinality(Slots) = AttemptsPerCanary
    BY SlotsCounted
  <2> QED  BY <1>1, <2>1, <2>2 DEF SlotEvidence
<1>2. CASE c \notin Measured
  <2>1. SlotsOf(Attempts(c)) = {} /\ Count(Attempts(c)) = 0
    BY <1>2, DoneTraced, NothingShown
  <2>2. Cardinality(Slots) # 0
    BY SlotsCounted, SuiteAssumption DEF AttemptsPerCanary
  <2> QED  BY <1>2, <2>1, <2>2 DEF SlotEvidence
<1> QED  BY <1>1, <1>2

(* The design counts as frozen only when nothing was skipped.              *)
LEMMA FrozenWhenNoneSkipped ==
  ASSUME IInv, ResultInv, EInv, phase = "done"
  PROVE  DesignFrozen(ExportedBundle, ProtocolEvidence) = "TRUE" <=> Skipped = {}
<1> DEFINE bundle == ExportedBundle
           evidence == ProtocolEvidence
           statuses == {SlotEvidence(bundle.executions[c].attempts) : c \in Canary}
                         \cup {SlotEvidence(evidence[c]) : c \in DOMAIN evidence}
<1>1. \A c \in Canary : bundle.executions[c].attempts = Attempts(c)
  BY BundleShape
<1>2. DOMAIN evidence = Measured /\ \A c \in Measured : evidence[c] = Attempts(c)
  BY EvidenceShape
<1>3. \A c \in Canary : SlotEvidence(Attempts(c)) = IF c \in Measured THEN "TRUE" ELSE "UNKNOWN"
  BY SlotsShown
<1>4. Measured \subseteq Canary /\ (Skipped = {} <=> Measured = Canary)
  BY DoneTraced DEF Skipped
<1> HIDE DEF bundle, evidence
<1>5. Skipped = {} => \A x \in statuses : x = "TRUE"
  BY <1>1, <1>2, <1>3, <1>4
<1>6. Skipped = {} => "FALSE" \notin statuses /\ "UNKNOWN" \notin statuses
  BY <1>5
<1> HIDE DEF statuses
<1>7. DesignFrozen(bundle, evidence)
        = IF DOMAIN evidence # Canary \/ "UNKNOWN" \in statuses THEN "UNKNOWN"
          ELSE IF "FALSE" \in statuses THEN "FALSE" ELSE "TRUE"
  BY DEF DesignFrozen, statuses
<1>8. DesignFrozen(bundle, evidence) = "TRUE" <=> Skipped = {}
  BY <1>2, <1>4, <1>6, <1>7
<1> QED  BY <1>8 DEF bundle, evidence

(* What the environment leaves open.                                       *)
LEMMA DimensionsControlled ==
  ASSUME NEW control \in Controls, control.support # "missing", control.backend # "plain"
  PROVE  (\A dimension \in control.dimensions \ ChangedDimensions(control) :
            ControlledDimension(dimension, control) = "TRUE")
         <=> ("runtime" \in control.dimensions => control.backend = "docker")
<1>1. /\ control.backend \in {"docker", "host", "plain"}
      /\ control.dimensions \subseteq MaterialDimensions
  BY ControlAssumption
<1>2. "runtime" \notin ChangedDimensions(control)
  BY DEF ChangedDimensions
<1>3. ControlledDimension("runtime", control) = IF control.backend = "docker" THEN "TRUE" ELSE "UNKNOWN"
  <2>1. Knows(control, "runtime") <=> control.backend = "docker"
    BY <1>1 DEF Knows
  <2> QED  BY <2>1 DEF ControlledDimension, Profiles
<1>4. ASSUME NEW dimension \in MaterialDimensions, dimension # "runtime"
      PROVE  ControlledDimension(dimension, control) = "TRUE"
  <2>1. CASE dimension = "agent_support"
    BY <2>1 DEF ControlledDimension, Profiles
  <2>2. CASE dimension \in Profiles
    <3>1. Knows(control, dimension)
      BY <1>1, <1>4 DEF Knows
    <3>2. dimension # "agent_support"
      BY <2>2 DEF Profiles
    <3> QED  BY <2>2, <3>1, <3>2 DEF ControlledDimension
  <2>3. CASE dimension \notin Profiles /\ dimension # "agent_support"
    BY <2>3 DEF ControlledDimension
  <2> QED  BY <2>1, <2>2, <2>3
<1>5. CASE "runtime" \in control.dimensions
  BY <1>1, <1>2, <1>3, <1>4, <1>5
<1>6. CASE "runtime" \notin control.dimensions
  BY <1>1, <1>4, <1>6
<1> QED  BY <1>5, <1>6

(* The claim of a canary that was measured, in a run that skipped nothing. *)
LEMMA MeasuredClaim ==
  ASSUME IInv, ResultInv, EInv, LayoutInv, phase = "done", Skipped = {},
         NEW control \in Controls, NEW c \in Canary
  PROVE  LET late == \E t \in Range(trace) : t.canary = c /\ t.late
             controlled == /\ ~late /\ c \in control.declared
                           /\ control.backend # "plain" /\ control.support # "missing"
                           /\ "runtime" \in control.dimensions => control.backend = "docker"
             base == executions[c].baseline
             cand == executions[c].candidate
         IN  DeriveClaim(ExportedBundle, ProtocolEvidence, c, control)
               = IF /\ controlled
                    /\ base.valid = Repetitions /\ base.successes = Repetitions
                    /\ cand.valid = Repetitions
                 THEN IF cand.successes = Repetitions
                      THEN "NO_REGRESSION_OBSERVED" ELSE "ATTRIBUTABLE_CHANGESET"
                 ELSE "UNRESOLVED"
<1> DEFINE bundle == ExportedBundle
           evidence == ProtocolEvidence
           all == Attempts(c)
           baseline == OfSide(all, "baseline")
           candidate == OfSide(all, "candidate")
           base == executions[c].baseline
           cand == executions[c].candidate
           late == \E t \in Range(trace) : t.canary = c /\ t.late
           open == control.backend # "plain"
           R == Repetitions
<1>1. c \in Measured /\ TraceInv /\ RecordInv
  BY DoneTraced DEF EInv
<1>2. /\ bundle.executions[c].attempts = all /\ bundle.run_order = run_order
      /\ c \in DOMAIN evidence /\ evidence[c] = all
  BY <1>1, BundleShape, EvidenceShape
<1>3. SlotEvidence(all) = "TRUE"
  BY <1>1, SlotsShown
<1>4. DesignFrozen(bundle, evidence) = "TRUE"
  BY FrozenWhenNoneSkipped
<1>5. base = Aggregate(all, "baseline") /\ cand = Aggregate(all, "candidate")
  BY DoneShown
<1>6. /\ Count(baseline) = R /\ FillsSide(baseline)
      /\ AllValid(baseline) <=> base.valid = R
      /\ AllValid(baseline) /\ AllSucceed(baseline) <=> base.successes = R
      /\ Range(baseline) = {t \in Range(all) : t.side = "baseline"}
  <2>1. "baseline" \in Sides
    BY DEF Sides
  <2> HIDE DEF all, baseline, base
  <2> QED  BY <1>1, <1>5, <2>1, SideShown DEF all, baseline
<1>7. /\ Count(candidate) = R /\ FillsSide(candidate)
      /\ AllValid(candidate) <=> cand.valid = R
      /\ AllValid(candidate) /\ AllSucceed(candidate) <=> cand.successes = R
      /\ Range(candidate) = {t \in Range(all) : t.side = "candidate"}
  <2>1. "candidate" \in Sides
    BY DEF Sides
  <2> HIDE DEF all, candidate, cand
  <2> QED  BY <1>1, <1>5, <2>1, SideShown DEF all, candidate
<1>8. AllValid(all) <=> AllValid(baseline) /\ AllValid(candidate)
  <2>1. \A t \in Range(all) : t.side \in {"baseline", "candidate"}
    <3>1. all \in [DOMAIN all -> Attempt]
      BY <1>1, AttemptsShape
    <3> QED  BY <3>1 DEF Range, Attempt, Sides
  <2> HIDE DEF all, baseline, candidate
  <2> QED  BY <1>6, <1>7, <2>1 DEF AllValid
<1>9. Cardinality({Instance(t) : t \in Range(all)}) = Count(all)
  BY <1>1, InstancesDiffer
<1>10. OrderValid(bundle, c) = "TRUE"
  BY <1>1, <1>2, OrderIsValid
<1>11. late <=> \E t \in Range(all) : t.late
  <2>1. DOMAIN all = Places(c) /\ \A i \in Places(c) : all[i] = trace[i]
    BY <1>1, AttemptsShape
  <2>2. Range(all) = {t \in Range(trace) : t.canary = c}
    <3> HIDE DEF all
    <3> QED  BY <2>1 DEF Range, Places
  <2> QED  BY <2>2
<1>12. \A profile \in {"preparation", "isolation"} : Knows(control, profile) <=> open
  <2>1. control.backend \in {"docker", "host", "plain"}
    BY ControlAssumption
  <2> QED  BY <2>1 DEF Knows
<1> HIDE DEF bundle, evidence, all, baseline, candidate, base, cand, late, R
<1>13. QualificationGates(bundle, evidence, control) <=> control.support # "missing"
  BY <1>4 DEF QualificationGates, StateBound
<1>14. TracedInFull(evidence, c)
  BY <1>2, <1>3 DEF TracedInFull
<1>15. /\ PreparationEquivalent(evidence, c, control) = "TRUE" <=> open
       /\ AttemptsIsolated(evidence, c, control) = "TRUE" <=> open
  BY <1>2, <1>9, <1>12, <1>14 DEF PreparationEquivalent, AttemptsIsolated
<1>16. BaselineStable(bundle, c) = "TRUE" <=> base.successes = R
  <2>1. Baseline(bundle, c) = baseline
    BY <1>2 DEF Baseline, baseline
  <2> QED  BY <1>6, <2>1 DEF BaselineStable, R
<1>17. AttemptsComplete(bundle, evidence, c) = "TRUE" <=> base.valid = R /\ cand.valid = R
  BY <1>2, <1>3, <1>6, <1>7, <1>8 DEF AttemptsComplete
<1>18. TemporalPairValid(bundle, evidence, c, control) = "TRUE" <=> c \in control.declared /\ ~late
  BY <1>2, <1>10, <1>11, <1>14 DEF TemporalPairValid
<1>19. open /\ control.support # "missing" =>
         (MaterialDimensionsControlled(evidence, c, control) = "TRUE" <=>
            /\ c \in control.declared
            /\ "runtime" \in control.dimensions => control.backend = "docker")
  BY <1>14, DimensionsControlled DEF MaterialDimensionsControlled
<1> DEFINE controlled == /\ ~late /\ c \in control.declared /\ open /\ control.support # "missing"
                         /\ "runtime" \in control.dimensions => control.backend = "docker"
<1>20. QualificationGates(bundle, evidence, control) /\ CanaryGates(bundle, evidence, c, control)
         <=> controlled /\ base.valid = R /\ base.successes = R /\ cand.valid = R
  BY <1>10, <1>13, <1>15, <1>16, <1>17, <1>18, <1>19 DEF CanaryGates
<1>21. /\ Baseline(bundle, c) = baseline /\ Candidate(bundle, c) = candidate
  BY <1>2 DEF Baseline, Candidate, baseline, candidate
<1>22. DeriveClaim(bundle, evidence, c, control)
         = IF controlled /\ base.valid = R /\ base.successes = R /\ cand.valid = R
           THEN IF cand.successes = R THEN "NO_REGRESSION_OBSERVED" ELSE "ATTRIBUTABLE_CHANGESET"
           ELSE "UNRESOLVED"
  <2>1. CASE controlled /\ base.valid = R /\ base.successes = R /\ cand.valid = R
    <3>1. /\ QualificationGates(bundle, evidence, control)
          /\ CanaryGates(bundle, evidence, c, control)
      BY <1>20, <2>1
    <3>2. /\ AllValid(baseline) /\ AllSucceed(baseline) /\ AllValid(candidate)
          /\ AllSucceed(candidate) <=> cand.successes = R
      BY <1>6, <1>7, <2>1
    <3> HIDE DEF controlled
    <3> QED  BY <1>6, <1>7, <1>21, <2>1, <3>1, <3>2 DEF DeriveClaim
  <2>2. CASE ~(controlled /\ base.valid = R /\ base.successes = R /\ cand.valid = R)
    <3>1. ~(/\ QualificationGates(bundle, evidence, control)
            /\ CanaryGates(bundle, evidence, c, control))
      BY <1>20, <2>2
    <3> HIDE DEF controlled
    <3> QED  BY <2>2, <3>1 DEF DeriveClaim
  <2> HIDE DEF controlled
  <2> QED  BY <2>1, <2>2
<1> QED  BY <1>22 DEF bundle, evidence, base, cand, late, R

(* The claims of a completed run match its verdicts.                       *)
LEMMA DoneClaims ==
  ASSUME IInv, ResultInv, EInv, LayoutInv
  PROVE  ClaimsMatchVerdicts
<1> DEFINE stable(c) == executions[c].baseline.successes = Repetitions
           late(c) == \E t \in Range(trace) : t.canary = c /\ t.late
           controlled(c, control) ==
             /\ Skipped = {} /\ ~late(c) /\ c \in control.declared
             /\ control.backend # "plain" /\ control.support # "missing"
             /\ "runtime" \in control.dimensions => control.backend = "docker"
           claim(c, control) == DeriveClaim(ExportedBundle, ProtocolEvidence, c, control)
<1> SUFFICES ASSUME phase = "done", NEW control \in Controls, NEW c \in Canary
             PROVE  claim(c, control) =
                      IF ~controlled(c, control) \/ CanaryVerdict(c) = "INCOMPLETE" \/ ~stable(c)
                      THEN "UNRESOLVED"
                      ELSE IF CanaryVerdict(c) = "PASS" THEN "NO_REGRESSION_OBSERVED"
                      ELSE "ATTRIBUTABLE_CHANGESET"
  BY DEF ClaimsMatchVerdicts
<1>1. CASE Skipped # {}
  <2>1. ~QualificationGates(ExportedBundle, ProtocolEvidence, control)
    BY <1>1, FrozenWhenNoneSkipped DEF QualificationGates
  <2>2. claim(c, control) = "UNRESOLVED"
    BY <2>1 DEF DeriveClaim
  <2> HIDE DEF claim
  <2> QED  BY <1>1, <2>2
<1>2. CASE Skipped = {}
  <2> DEFINE base == executions[c].baseline
             cand == executions[c].candidate
             v == CanaryVerdict(c)
  <2>1. base \in Aggregates(Repetitions) /\ cand \in Aggregates(Repetitions)
    <3>1. executions[c] \in Execution \cup {None} /\ executions[c] # None
      BY DoneTraced DEF IInv, TypeOK, Measured, Skipped
    <3> QED  BY <3>1 DEF Execution
  <2>2. /\ v = "INCOMPLETE" <=> ~(base.valid = Repetitions /\ cand.valid = Repetitions)
        /\ v = "PASS" <=> /\ base = [valid |-> Repetitions, successes |-> Repetitions]
                          /\ cand = [valid |-> Repetitions, successes |-> Repetitions]
    BY <2>1, CanaryJudged DEF CanaryVerdict
  <2>3. /\ base = [valid |-> Repetitions, successes |-> Repetitions]
             <=> base.valid = Repetitions /\ base.successes = Repetitions
        /\ cand = [valid |-> Repetitions, successes |-> Repetitions]
             <=> cand.valid = Repetitions /\ cand.successes = Repetitions
    BY <2>1 DEF Aggregates
  <2>4. claim(c, control)
          = IF /\ controlled(c, control)
               /\ base.valid = Repetitions /\ base.successes = Repetitions
               /\ cand.valid = Repetitions
            THEN IF cand.successes = Repetitions
                 THEN "NO_REGRESSION_OBSERVED" ELSE "ATTRIBUTABLE_CHANGESET"
            ELSE "UNRESOLVED"
    BY <1>2, MeasuredClaim
  <2> HIDE DEF claim, controlled, base, cand, v
  <2>5. claim(c, control) =
          IF ~controlled(c, control) \/ v = "INCOMPLETE" \/ base.successes # Repetitions
          THEN "UNRESOLVED"
          ELSE IF v = "PASS" THEN "NO_REGRESSION_OBSERVED"
          ELSE "ATTRIBUTABLE_CHANGESET"
    BY <2>2, <2>3, <2>4
  <2> QED  BY <2>5 DEF base, v
<1> QED  BY <1>1, <1>2

(* The companion of a completed run is accepted, wherever the budgets cut  *)
(* the run short and whatever its attempts returned, if it took the        *)
(* canaries in the order of their ids: the sidecar that is written by id,  *)
(* the bundle and the run order are one layout (materialize.py:87-121,     *)
(* verify.py:140-215).                                                     *)
THEOREM CompanionsAccepted == EvidenceSpec => []CompanionAccepted
<1>1. RecordedInv /\ AttemptBudgetRespected => CompanionAccepted
  BY DoneAccepted DEF RecordedInv
<1> QED  BY <1>1, LayoutInductive, RecordedRuns, BudgetRespected, PTL

(* The claim of every canary is the one its verdict allows, in every       *)
(* environment: none of a run that skipped a canary, of a late pair or of  *)
(* an agent not fully identified, and no less than the verdict where the   *)
(* environment was controlled (claims.py:90-167, conditions.py against     *)
(* qualification/policy.py).                                               *)
THEOREM ClaimsFollowVerdicts == EvidenceSpec => []ClaimsMatchVerdicts
<1>1. RecordedInv => ClaimsMatchVerdicts
  BY DoneClaims DEF RecordedInv
<1> QED  BY <1>1, LayoutInductive, PTL

-----------------------------------------------------------------------------
(* The refinement.                                                         *)

(* What the state predicates of QualificationSpec say of the mapped state. *)
LEMMA MappedState ==
  ASSUME executions \in [Canary -> Execution \cup {None}]
  PROVE  /\ Promise!Canary = Canary
         /\ \A c \in Canary : Promise!Decided(c) <=> executions[c] # None
         /\ \A c \in Canary : executions[c] # None =>
              Promise!CanaryVerdict(c) = CanaryVerdict(c)
         /\ Promise!Undecided = Unvisited
         /\ Promise!Skipped = Skipped
<1>1. Promise!Canary = Canary
  BY DEF Promise!Canary, Canary
<1>2. \A e \in Execution \cup {None} : EvidenceOf(e) = None <=> e = None
  BY NoneAssumption DEF EvidenceOf, Execution, Evidence
<1>3. \A c \in Canary : Promise!Decided(c) <=> executions[c] # None
  BY <1>2 DEF Promise!Decided
<1>4. \A c \in Canary : executions[c] # None => Promise!CanaryVerdict(c) = CanaryVerdict(c)
  BY <1>1 DEF Promise!CanaryVerdict, CanaryVerdict, EvidenceOf,
              Promise!QualifyCanary, QualifyCanary
<1>5. Promise!Undecided = Unvisited
  BY <1>1, <1>3 DEF Promise!Undecided, Unvisited
<1>6. Promise!Skipped = Skipped
  BY <1>1, <1>3 DEF Promise!Skipped, Skipped, EvidenceOf
<1> QED BY <1>1, <1>3, <1>4, <1>5, <1>6

LEMMA InitRefines == Init => Promise!Init
BY DEF Init, Promise!Init, Promise!Canary, Canary, EvidenceOf

LEMMA SkipRefines ==
  ASSUME IInv, NEW c \in Canary, SkipCanary(c)
  PROVE  Promise!SkipCanary(c)
<1>1. executions \in [Canary -> Execution \cup {None}]
  BY DEF IInv, TypeOK
<1>2. result = None /\ executions[c] = None
  BY DEF IInv, VisitInv, SkipCanary, IsNext, Unvisited
<1>3. c \in Critical => \A d \in Canary \ Critical : executions[d] = None
  <2> SUFFICES ASSUME c \in Critical, NEW d \in Canary \ Critical, executions[d] # None
               PROVE  FALSE
    OBVIOUS
  <2>1. PrioritizeCritical
    BY DEF SkipCanary, OutOfAttempts, OutOfTokens, PrioritizeCritical
  <2>2. Before(c, d)
    BY <2>1 DEF Before
  <2> QED BY <1>2, <2>2 DEF IInv, VisitInv
<1>4. [x \in Canary |-> EvidenceOf(executions[x])]' =
        [[x \in Canary |-> EvidenceOf(executions[x])] EXCEPT ![c] = Promise!Skip]
  <2>1. SkippedExecution # None
    BY NoneAssumption, SkippedIsExecution
  <2>2. EvidenceOf(SkippedExecution) = Promise!Skip
    BY <2>1 DEF EvidenceOf, SkippedExecution, Promise!Skip, Promise!NoRuns, NoRuns
  <2>3. executions' = [executions EXCEPT ![c] = SkippedExecution]
    BY DEF SkipCanary
  <2> QED BY <1>1, <2>2, <2>3
<1> QED BY <1>1, <1>2, <1>3, <1>4, MappedState DEF Promise!SkipCanary, SkipCanary

LEMMA FinishRefines ==
  ASSUME IInv, FinishCanary
  PROVE  Promise!Measure(current)
<1> DEFINE m == [skipped |-> FALSE, baseline |-> tally["baseline"],
                 candidate |-> tally["candidate"]]
<1>1. executions \in [Canary -> Execution \cup {None}]
  BY DEF IInv, TypeOK
<1>2. /\ current \in Canary /\ executions[current] = None
      /\ result = None /\ Skipped = {}
  BY DEF IInv, TypeOK, RunInv, VisitInv, FinishCanary, IsNext, Unvisited
<1>3. /\ tally["baseline"] \in Aggregates(Repetitions)
      /\ tally["candidate"] \in Aggregates(Repetitions)
      /\ usage \in Nat \cup {None}
  BY TallyIsAggregate DEF FinishCanary, IInv, TypeOK, Sides
<1>4. m \in Promise!Measurement
  BY <1>3 DEF Promise!Measurement, Promise!Aggregates, Aggregates
<1>5. [skipped |-> FALSE, baseline |-> tally["baseline"],
       candidate |-> tally["candidate"], tokens |-> usage] \in Execution
  BY <1>3 DEF Execution
<1>6. [x \in Canary |-> EvidenceOf(executions[x])]' =
        [[x \in Canary |-> EvidenceOf(executions[x])] EXCEPT ![current] = m]
  BY <1>1, <1>2, <1>5, NoneAssumption DEF FinishCanary, EvidenceOf
<1> QED BY <1>1, <1>2, <1>4, <1>6, MappedState DEF Promise!Measure, FinishCanary

LEMMA ReturnRefines ==
  ASSUME IInv, Return
  PROVE  Promise!Publish
<1>1. executions \in [Canary -> Execution \cup {None}]
  BY DEF IInv, TypeOK
<1>2. result = None /\ Unvisited = {}
  BY DEF IInv, VisitInv, Return
<1>3. {Promise!CanaryVerdict(c) : c \in Promise!Canary} = {CanaryVerdict(c) : c \in Canary}
  BY <1>1, <1>2, MappedState DEF Unvisited
<1>4. result' = Promise!QualifySuite({Promise!CanaryVerdict(c) : c \in Promise!Canary})
  BY <1>3 DEF Return, QualifySuite, Promise!QualifySuite
<1>5. UNCHANGED [x \in Canary |-> EvidenceOf(executions[x])]
  BY DEF Return
<1> QED BY <1>1, <1>2, <1>4, <1>5, MappedState DEF Promise!Publish

(* Every behaviour of the executor is, canary by canary, one the promise   *)
(* allows: starting a canary and running its attempts are stutters.        *)
THEOREM ExecutorKeepsPromise == Spec => KeepsPromise
<1>1. Init => Promise!Init
  BY InitRefines
<1>2. IInv /\ [Next]_vars => [Promise!Next]_Promise!vars
  <2> SUFFICES ASSUME IInv, [Next]_vars
               PROVE  Promise!Next \/ UNCHANGED Promise!vars
    OBVIOUS
  <2>1. Promise!Canary = Canary
    BY DEF Promise!Canary, Canary
  <2>2. ASSUME NEW c \in Canary, SkipCanary(c) PROVE Promise!Next
    BY <2>1, <2>2, SkipRefines DEF Promise!Next
  <2>3. CASE FinishCanary
    <3>1. current \in Canary
      BY <2>3 DEF IInv, TypeOK, RunInv, FinishCanary
    <3> QED BY <2>1, <2>3, <3>1, FinishRefines DEF Promise!Next
  <2>4. CASE Return
    BY <2>4, ReturnRefines DEF Promise!Next
  <2>5. ASSUME UNCHANGED <<executions, result>>
        PROVE  UNCHANGED Promise!vars
    BY <2>5 DEF Promise!vars
  <2>6. CASE UNCHANGED vars
    BY <2>5, <2>6 DEF vars
  <2>7. ASSUME NEW c \in Canary, StartCanary(c) PROVE UNCHANGED Promise!vars
    BY <2>5, <2>7 DEF StartCanary
  <2>8. CASE AttemptReturns
    BY <2>5, <2>8 DEF AttemptReturns, RunAttempt
  <2>9. CASE BackendRaises
    BY <2>5, <2>9 DEF BackendRaises
  <2> QED BY <2>2, <2>3, <2>4, <2>6, <2>7, <2>8, <2>9 DEF Next
<1> QED BY <1>1, <1>2, Inductive, PTL DEF Spec, KeepsPromise, Promise!Spec
=============================================================================
