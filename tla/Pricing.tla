------------------------------- MODULE Pricing -------------------------------
(***************************************************************************)
(* The reference cost estimate: the pricing sidecar that a check leaves    *)
(* beside its report (pricing/resolve.py, pricing/catalog.py,              *)
(* pricing/sidecar.py) and `qualock cost', which reads the whole history   *)
(* back (pricing/analysis.py, pricing/calculate.py).  Between two checks   *)
(* the program may be upgraded, with another rate catalog, the             *)
(* configuration changed, files damaged, and the clock set back.           *)
(*                                                                         *)
(* Time is a day.  A cost is tokens times rate, without the division by a  *)
(* million.  What an attempt's event stream says is a record: whether a    *)
(* line is malformed, the models it names, its number of final events      *)
(* (completed turns, results), and whether they carry valid cache counts.  *)
(***************************************************************************)
EXTENDS Naturals, Sequences, FiniteSets, SequencesExt, QualificationPolicy

CONSTANTS
  Catalogs,  \* rate catalogs, sets of cards, of the versions of the program
  Configs,   \* [agent, model]: configurations of the project
  Results,   \* agent -> what its checks may have as executions
  Suites,    \* sets of canaries that `cost' may be asked about
  MaxDay, MaxRuns,
  Nothing, Damaged

Agents == {"codex", "claude", "antigravity", "gemini"}

Maybe(S) == S \cup {Nothing}

CardRates == [uncached : Nat, cached : Maybe(Nat), output : Nat,
              write_lower : Maybe(Nat), write_upper : Maybe(Nat)]
Usage == [input : Nat, cached : Nat, write : Nat, output : Nat, reasoning : Nat]
Bounds == [lower : Nat, upper : Nat]

ASSUME CatalogsAssumption ==
  \A catalog \in Catalogs :
    IsFiniteSet(catalog) /\ \A c \in catalog : c.rates \in CardRates

(* An execution is of one canary; each attempt has one stream.             *)
ASSUME ResultsAssumption ==
  \A config \in Configs :
    /\ config.agent \in Agents
    /\ \A result \in Results[config.agent] :
         /\ IsFiniteSet(DOMAIN result)
         /\ \A i, j \in DOMAIN result : result[i].canary = result[j].canary => i = j
         /\ \A e \in ToSet(result) :
              /\ IsFiniteSet(DOMAIN e.attempts)
              /\ \A a \in ToSet(e.attempts) :
                   a.side \in Sides /\ a.usage \in Maybe(Usage) /\ IsFiniteSet(a.events.models)

ASSUME SuitesAssumption == \A suite \in Suites : IsFiniteSet(suite)

(* Why a check has no price.                                               *)
ModelReasons ==
  {"malformed_model_evidence", "inconsistent_observed_model", "unknown_model",
   "missing_observed_model", "invalid_capture_time"}
RateReasons == {"no_rate_card", "rate_boundary_crossed"}

ASSUME NothingAssumption ==
  Nothing \notin Nat /\ Nothing \notin ModelReasons \cup RateReasons /\ Nothing \notin Bounds

VARIABLES
  day,      \* what the clock shows
  cards,    \* the catalog of the installed program
  run,      \* the check under way, or Nothing
  history   \* the reports, each with its sidecar: a payload, Nothing or Damaged

costVars == <<day, cards, run, history>>

-----------------------------------------------------------------------------
(* The rate catalog.                                                       *)

ValidRates(r) ==
  /\ (r.write_lower = Nothing) = (r.write_upper = Nothing)
  /\ r.write_lower # Nothing => r.write_lower <= r.write_upper

ValidInterval(card) == card.until = Nothing \/ card.from <= card.until

(* A program whose catalog has an id twice, or cards of one model that     *)
(* overlap, does not start.                                                *)
ValidCatalog(catalog) ==
  /\ \A c \in catalog : ValidRates(c.rates) /\ ValidInterval(c)
  /\ \A c, d \in catalog : c # d =>
       /\ c.id # d.id
       /\ c.provider = d.provider /\ c.model = d.model /\ c.from <= d.from =>
            c.until # Nothing /\ c.until < d.from

InEffect(card, when) == card.from <= when /\ (card.until # Nothing => when <= card.until)

RateCardOn(catalog, provider, model, when) ==
  LET matches == {c \in catalog :
                    c.provider = provider /\ c.model = model /\ InEffect(c, when)}
  IN  IF Cardinality(matches) = 1 THEN CHOOSE c \in matches : TRUE ELSE Nothing

-----------------------------------------------------------------------------
(* Which model a check ran.                                                *)

Provider(agent) ==
  [codex |-> "openai", claude |-> "anthropic",
   antigravity |-> "google", gemini |-> "google"][agent]

CanonicalModels(catalog, provider) ==
  {c.model : c \in {d \in catalog : d.provider = provider}}

Streams(result) ==
  UNION {{a.events : a \in ToSet(e.attempts)} : e \in ToSet(result)}

(* The one model all streams name, as a set of none or one, or a failure.  *)
ScanObservations(result) ==
  LET seen == UNION {s.models : s \in Streams(result)}
      Failed(reason) == [seen |-> {}, failure |-> reason]
  IN  IF \E s \in Streams(result) : s.malformed THEN Failed("malformed_model_evidence")
      ELSE IF Cardinality(seen) > 1 THEN Failed("inconsistent_observed_model")
      ELSE [seen |-> seen, failure |-> Nothing]

Identified(model) == [model |-> model, reason |-> Nothing]
Unidentified(reason) == [model |-> Nothing, reason |-> reason]

(* Claude and Gemini: the model that was observed, if it is a known one    *)
(* and no other known one was asked for; what a run without an observation *)
(* ran is only known for Claude, and if a known model was asked for.       *)
ResolveObserved(known, configured, result, unobserved) ==
  LET scan == ScanObservations(result)
      observed == CHOOSE m \in scan.seen : TRUE
  IN  IF scan.failure # Nothing THEN Unidentified(scan.failure)
      ELSE IF scan.seen = {} THEN unobserved
      ELSE IF observed \notin known THEN Unidentified("unknown_model")
      ELSE IF configured \in known \ {observed} THEN Unidentified("inconsistent_observed_model")
      ELSE Identified(observed)

ResolveClaude(known, configured, result) ==
  ResolveObserved(known, configured, result,
    IF configured \in known THEN Identified(configured)
    ELSE Unidentified("missing_observed_model"))

ResolveGemini(known, configured, result) ==
  ResolveObserved(known, configured, result, Unidentified("missing_observed_model"))

(* Codex: the configured model, or the one its documented alias stands     *)
(* for, whether the catalog has it or not.                                 *)
ResolveOpenAI(known, configured) ==
  IF configured \in known THEN Identified(configured)
  ELSE IF configured = "gpt-alias" THEN Identified("gpt")
  ELSE Unidentified("unknown_model")

(* Antigravity: a fixed table of its tiers.                                *)
ResolveAntigravity(configured) ==
  IF configured = "flash-low" THEN Identified("flash") ELSE Unidentified("unknown_model")

ResolveModel(catalog, config, result) ==
  LET known == CanonicalModels(catalog, Provider(config.agent))
  IN  CASE config.agent = "gemini" -> ResolveGemini(known, config.model, result)
        [] config.agent = "claude" -> ResolveClaude(known, config.model, result)
        [] config.agent = "codex" -> ResolveOpenAI(known, config.model)
        [] config.agent = "antigravity" -> ResolveAntigravity(config.model)

-----------------------------------------------------------------------------
(* How far an attempt's cache counts can be trusted.                       *)

IfValid(valid) == IF valid THEN "observed" ELSE "unobserved"

(* Codex says nothing of cache writes.                                     *)
CodexTrust(s) == [read |-> IfValid(s.finals > 0 /\ s.read), write |-> "unobserved"]

ClaudeTrust(s) ==
  [read |-> IfValid(s.finals = 1 /\ s.read), write |-> IfValid(s.finals = 1 /\ s.write)]

AntigravityTrust(s) ==
  IF s.finals = 1 /\ s.read THEN [read |-> "observed", write |-> "known_zero"]
  ELSE [read |-> "unobserved", write |-> "unobserved"]

GeminiTrust(s) == [read |-> IfValid(s.finals = 1 /\ s.read), write |-> "unobserved"]

Trust(agent, s) ==
  CASE agent = "codex" -> CodexTrust(s)
    [] agent = "claude" -> ClaudeTrust(s)
    [] agent = "antigravity" -> AntigravityTrust(s)
    [] agent = "gemini" -> GeminiTrust(s)

Identity(execution, attempt) == <<execution.canary, attempt.side, attempt.repetition>>

(* One record for each attempt of each execution.                          *)
UsageTrust(agent, result) ==
  UNION {{[attempt |-> Identity(e, a), trust |-> Trust(agent, a.events)] :
             a \in ToSet(e.attempts)} : e \in ToSet(result)}

-----------------------------------------------------------------------------
(* The sidecar.                                                            *)

(* What is written beside the report: priced under the one card that was   *)
(* in effect when the run started and when it finished, or not, and why.   *)
BuildPayload(r, finished, result) ==
  LET identity == ResolveModel(r.cards, r.config, result)
      CardOn(when) ==
        RateCardOn(r.cards, Provider(r.config.agent), identity.model, when)
      reason ==
        IF r.started > finished THEN "invalid_capture_time"
        ELSE IF identity.reason # Nothing THEN identity.reason
        ELSE IF CardOn(r.started) = Nothing /\ CardOn(finished) = Nothing THEN "no_rate_card"
        ELSE IF CardOn(r.started) # CardOn(finished) THEN "rate_boundary_crossed"
        ELSE Nothing
  IN  [config |-> r.config, started |-> r.started, finished |-> finished,
       model |-> IF reason = "invalid_capture_time" THEN Nothing ELSE identity.model,
       reason |-> reason,
       card |-> IF reason = Nothing THEN CardOn(r.started) ELSE Nothing,
       trust |-> UsageTrust(r.config.agent, result)]

Priced(payload) == payload.reason = Nothing

ValidSemantics(payload) ==
  IF Priced(payload) THEN payload.model # Nothing /\ payload.card # Nothing
  ELSE payload.card = Nothing /\ (payload.model # Nothing <=> payload.reason \in RateReasons)

(* What a reader accepts: a sidecar of a run whose clock went back is      *)
(* written and then refused by every reader.                               *)
ParsePayload(payload, result) ==
  /\ payload # Damaged
  /\ payload.started <= payload.finished
  /\ ValidSemantics(payload)
  /\ {t.attempt : t \in payload.trust} =
       UNION {{Identity(e, a) : a \in ToSet(e.attempts)} : e \in ToSet(result)}

-----------------------------------------------------------------------------
(* Reading the history back.  Reports are their indices in it.             *)

Reports == 1..Len(history)
Sidecar(i) == history[i].sidecar

OlderUnpinned == {i \in Reports : Sidecar(i) = Nothing}
Parsed == {i \in Reports \ OlderUnpinned : ParsePayload(Sidecar(i), history[i].result)}

(* Defect: one snapshot of a card id is as good as another.                *)
ResolveSnapshotConflictsNever(records) == records

(* The records whose card id always stands for the same card.              *)
ResolveSnapshotConflicts(records) ==
  {i \in records : \A j \in records :
     /\ Priced(Sidecar(i)) /\ Priced(Sidecar(j))
     /\ Sidecar(i).card.id = Sidecar(j).card.id => Sidecar(i).card = Sidecar(j).card}

(* scan_pricing: the records to use; what is neither older nor a record is *)
(* a failure.                                                              *)
Records == ResolveSnapshotConflicts(Parsed)
Failures == Reports \ (OlderUnpinned \cup Records)

-----------------------------------------------------------------------------
(* The cost of an execution.                                               *)

(* Each repetition once on each side, and at least one.                    *)
UsablePairing(attempts) ==
  LET Of(side) == {k \in DOMAIN attempts : attempts[k].side = side}
      Repetitions(side) == {attempts[k].repetition : k \in Of(side)}
  IN  /\ Repetitions("baseline") = Repetitions("candidate")
      /\ Repetitions("baseline") # {}
      /\ \A side \in Sides : Cardinality(Repetitions(side)) = Cardinality(Of(side))

(* No tokens cost nothing, also where there is no rate.                    *)
HasTerm(count, rate) == count = 0 \/ rate # Nothing
Term(count, rate) == IF count = 0 THEN 0 ELSE count * rate

Trusted(level, count) == level = "observed" \/ (level = "known_zero" /\ count = 0)

Priceable(usage, trust, rates) ==
  /\ usage # Nothing
  /\ Trusted(trust.read, usage.cached) /\ Trusted(trust.write, usage.write)
  /\ usage.reasoning <= usage.output
  /\ usage.cached + usage.write <= usage.input
  /\ HasTerm(usage.cached, rates.cached) /\ HasTerm(usage.write, rates.write_lower)

AttemptCost(usage, rates, write_rate) ==
  Term(usage.input - usage.cached - usage.write, rates.uncached)
    + Term(usage.cached, rates.cached) + Term(usage.write, write_rate)
    + Term(usage.output, rates.output)

(* All attempts of the execution, or no sample.                            *)
PriceExecution(execution, payload) ==
  LET rates == payload.card.rates
      TrustOf(a) == (CHOOSE t \in payload.trust : t.attempt = Identity(execution, a)).trust
      Total(write_rate) ==
        SumFunction([k \in DOMAIN execution.attempts |->
                       AttemptCost(execution.attempts[k].usage, rates, write_rate)])
  IN  IF /\ UsablePairing(execution.attempts)
         /\ \A a \in ToSet(execution.attempts) : Priceable(a.usage, TrustOf(a), rates)
      THEN [lower |-> Total(rates.write_lower), upper |-> Total(rates.write_upper)]
      ELSE Nothing

-----------------------------------------------------------------------------
(* analyze_cost.                                                           *)

Cohort(i) == <<Sidecar(i).model, Sidecar(i).card.id>>

Comparable(config) ==
  {i \in Records : Priced(Sidecar(i)) /\ Sidecar(i).config = config}

(* The cohort of the run that finished last, one of them if several did.   *)
SelectCohort(config) ==
  LET latest == {i \in Comparable(config) : \A j \in Comparable(config) :
                   Sidecar(j).finished <= Sidecar(i).finished}
  IN  IF latest = {} THEN Nothing ELSE CHOOSE key \in {Cohort(i) : i \in latest} : TRUE

Selected(config) == {i \in Comparable(config) : Cohort(i) = SelectCohort(config)}

(* The samples of a canary, each at the place of its execution.            *)
Samples(config, canary) ==
  LET Sample(p) == PriceExecution(history[p[1]].result[p[2]], Sidecar(p[1]))
      places == UNION {{i} \X DOMAIN history[i].result : i \in Selected(config)}
  IN  [p \in {q \in places : /\ history[q[1]].result[q[2]].canary = canary
                             /\ Sample(q) # Nothing} |-> Sample(p)]

(* The value at place n of the sorted values.                              *)
NthSmallest(values, n) ==
  CHOOSE v \in Range(values) :
    /\ Cardinality({p \in DOMAIN values : values[p] < v}) < n
    /\ Cardinality({p \in DOMAIN values : values[p] <= v}) >= n

(* Twice the median of one or more values: the sum of the two middle ones. *)
TwiceMedian(values) ==
  LET n == Cardinality(DOMAIN values)
  IN  NthSmallest(values, (n + 1) \div 2) + NthSmallest(values, n \div 2 + 1)

(* The lower and the upper bounds are sorted each for themselves.          *)
Estimate(samples) ==
  IF DOMAIN samples = {} THEN Nothing
  ELSE [lower |-> TwiceMedian([p \in DOMAIN samples |-> samples[p].lower]),
        upper |-> TwiceMedian([p \in DOMAIN samples |-> samples[p].upper])]

Analyze(config, suite) ==
  LET estimates == [c \in suite |-> Estimate(Samples(config, c))]
      ofConfig == {i \in Records : Sidecar(i).config = config}
  IN  [excluded_config |-> Records \ ofConfig,
       unavailable |-> {i \in ofConfig : ~Priced(Sidecar(i))},
       excluded_cohort |-> Comparable(config) \ Selected(config),
       selected |-> Selected(config),
       estimates |-> estimates,
       suite |-> IF \E c \in suite : estimates[c] = Nothing THEN Nothing
                 ELSE [lower |-> SumFunction([c \in suite |-> estimates[c].lower]),
                       upper |-> SumFunction([c \in suite |-> estimates[c].upper])]]

-----------------------------------------------------------------------------
(* Time, the program, checks and their files.                              *)

CostInit ==
  /\ day = 1
  /\ cards \in {c \in Catalogs : ValidCatalog(c)}
  /\ run = Nothing
  /\ history = <<>>

(* What happens after the last check that is modelled does not matter.     *)
MoreChecks == Len(history) < MaxRuns

NextDay ==
  /\ MoreChecks /\ day < MaxDay
  /\ day' = day + 1
  /\ UNCHANGED <<cards, run, history>>

ClockBack ==
  /\ MoreChecks /\ day > 1
  /\ day' = day - 1
  /\ UNCHANGED <<cards, run, history>>

Upgrade ==
  /\ MoreChecks
  /\ cards' \in {c \in Catalogs : ValidCatalog(c)} \ {cards}
  /\ UNCHANGED <<day, run, history>>

(* A check, by the configuration and the program there are.                *)
StartCheck(config) ==
  /\ run = Nothing /\ MoreChecks
  /\ run' = [config |-> config, cards |-> cards, started |-> day]
  /\ UNCHANGED <<day, cards, history>>

(* The check raises before its report is written.                          *)
AbortCheck ==
  /\ run # Nothing
  /\ run' = Nothing
  /\ UNCHANGED <<day, cards, history>>

(* The payload, or, whatever goes wrong, nothing: the file appears whole.  *)
WriteSidecar(result) == {BuildPayload(run, day, result), Nothing}

(* The report is written, and then its sidecar.                            *)
FinishCheck ==
  /\ run # Nothing
  /\ \E result \in Results[run.config.agent] : \E sidecar \in WriteSidecar(result) :
       history' = Append(history,
         [config |-> run.config, started |-> run.started, finished |-> day,
          result |-> result, sidecar |-> sidecar])
  /\ run' = Nothing
  /\ UNCHANGED <<day, cards>>

(* The newest sidecar is damaged.                                          *)
Damage ==
  /\ history # <<>> /\ Last(history).sidecar # Nothing
  /\ history' = [history EXCEPT ![Len(history)].sidecar = Damaged]
  /\ UNCHANGED <<day, cards, run>>

CostNext ==
  \/ NextDay \/ ClockBack \/ Upgrade
  \/ \E config \in Configs : StartCheck(config)
  \/ AbortCheck \/ FinishCheck \/ Damage

CostSpec == CostInit /\ [][CostNext]_costVars

-----------------------------------------------------------------------------
(* Properties.                                                             *)

(* A sample is honest: both sides of an attempt reported what they used,   *)
(* and where cache counts are not known to be zero the stream showed them. *)
HonestSample(i, execution) ==
  \A a \in ToSet(execution.attempts) :
    /\ a.usage # Nothing
    /\ a.events.read /\ a.events.finals = 1
    /\ a.events.write \/ a.usage.write = 0

(* What is priced ran under the configuration, named no two models, and    *)
(* was priced by rates in effect when it started and finished; each sample *)
(* is of an execution all of whose attempts were observed.                 *)
OwnPrice(config, i) ==
  /\ history[i].config = config
  /\ \A when \in {history[i].started, history[i].finished} : InEffect(Sidecar(i).card, when)
  /\ config.agent = "claude" =>
       \A s \in Streams(history[i].result) : s.models \subseteq {Sidecar(i).model}
  /\ \A e \in ToSet(history[i].result) :
       PriceExecution(e, Sidecar(i)) # Nothing => HonestSample(i, e)

Classes(cost) ==
  <<OlderUnpinned, Failures, cost.excluded_config, cost.unavailable,
    cost.excluded_cohort, cost.selected>>

CountedOnce(i, classes) == Cardinality({k \in DOMAIN classes : i \in classes[k]}) = 1

(* Whatever happened between the checks, for every configuration and suite *)
(* that `cost' is asked about: each report is counted exactly once; what   *)
(* is priced is priced as its check ran, and all by the same card; and     *)
(* there is an estimate for the suite, not below itself, if and only if    *)
(* there is one for each canary (pricing/analysis.py:50-181).              *)
EstimateIsHonest ==
  \A config \in Configs, suite \in Suites :
    LET cost == Analyze(config, suite)
    IN  /\ \A i \in Reports : CountedOnce(i, Classes(cost))
        /\ \A i, j \in cost.selected :
             OwnPrice(config, i) /\ Sidecar(i).card = Sidecar(j).card
        /\ \A c \in suite : cost.estimates[c] # Nothing =>
             cost.estimates[c].lower <= cost.estimates[c].upper
        /\ cost.suite # Nothing <=> \A c \in suite : cost.estimates[c] # Nothing
        /\ cost.suite # Nothing => cost.suite.lower <= cost.suite.upper
=============================================================================
