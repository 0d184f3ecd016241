---------------------------- MODULE PairedChange ----------------------------
(***************************************************************************)
(* The paired-change protocol (protocols/paired_change): the sidecar a     *)
(* check writes beside its report, its binding to the public bundle, the   *)
(* conditions evaluated on both and the claim they allow for each canary.  *)
(*                                                                         *)
(* A control is what the run knew of its own environment: the profiles the *)
(* backend reports, the canaries that declare a paired change, with which  *)
(* material dimensions, and the support files of the agent.  Digests are   *)
(* left out: profiles, states and targets are either known, and then equal *)
(* to what the design froze, or unknown.                                   *)
(***************************************************************************)
EXTENDS EvidenceBundle

Profiles == {"preparation", "isolation", "resource", "runtime"}

MaterialDimensions == {"agent_binary", "agent_support", "model_declaration",
                       "project_config", "prepared_target"} \cup Profiles

CONSTANTS Controls   \* the environments of ControlAssumption to look at

ASSUME ControlAssumption ==
  Controls \subseteq [backend : {"docker", "host", "plain"},
                      declared : SUBSET Canary,
                      dimensions : SUBSET MaterialDimensions,
                      support : {"same", "changed", "missing"}]

Slots == Sides \X (1..Repetitions)

-----------------------------------------------------------------------------
(* build_paired_change_run: the trace grouped by canary and by repetition. *)

Traced == {c \in Canary : Count(Attempts(c)) > 0}

PairsOf(c) ==
  [r \in 1..Repetitions |->
     LET items == Attempts(c)
     IN  Restrict(items, {i \in DOMAIN items : items[i].repetition = r})]

Sidecar == [c \in Traced |-> PairsOf(c)]

(* The attempts of some pairs, as one list.                                *)
Joined(pairs) == Restrict(trace, UNION {DOMAIN pairs[r] : r \in DOMAIN pairs})

(* Its refusals: every repetition is one baseline and one candidate.       *)
BuildAccepts ==
  \A c \in Traced :
    LET pairs == PairsOf(c)
    IN  \A r \in 1..Repetitions : Count(pairs[r]) = 2 /\ SlotsOf(pairs[r]) = Sides \X {r}

(* Defect: the baseline attempt of every pair is written first.            *)
WrittenBaselineFirst(i, j) ==
  LET s == trace[i]
      t == trace[j]
  IN  IF s.canary # t.canary THEN Id[s.canary] < Id[t.canary]
      ELSE IF s.repetition # t.repetition THEN s.repetition < t.repetition
      ELSE s.side = "baseline" /\ t.side = "candidate"

(* The order in which the sidecar has the attempts of the trace: by the id *)
(* of their canary, by repetition, and within a pair as they ran.          *)
WrittenBefore(i, j) ==
  LET s == trace[i]
      t == trace[j]
  IN  IF s.canary # t.canary THEN Id[s.canary] < Id[t.canary]
      ELSE IF s.repetition # t.repetition THEN s.repetition < t.repetition
      ELSE i < j

(* Ranked things as a sequence: first the one of rank 0.                   *)
InOrder(rank) ==
  [n \in 1..Cardinality(DOMAIN rank) |-> CHOOSE i \in DOMAIN rank : rank[i] = n - 1]

(* The attempts of a sidecar in its own order.                             *)
ObservedOrder(sidecar) ==
  LET places == UNION {DOMAIN Joined(sidecar[c]) : c \in DOMAIN sidecar}
      written == InOrder([i \in places |-> Cardinality({j \in places : WrittenBefore(j, i)})])
  IN  [n \in DOMAIN written |->
         LET t == trace[written[n]] IN <<t.canary, t.side, t.repetition>>]

(* materialize_protocol_evidence, and again _verify_pair_layout of the     *)
(* verifier: the sidecar has the canaries, the slots and the order of the  *)
(* public bundle.                                                          *)
LayoutAccepts(sidecar, bundle) ==
  /\ DOMAIN sidecar = {c \in Canary : Count(bundle.executions[c].attempts) > 0}
  /\ \A c \in DOMAIN sidecar :
       /\ DOMAIN sidecar[c] = 1..Repetitions
       /\ SlotsOf(Joined(sidecar[c])) = SlotsOf(bundle.executions[c].attempts)
  /\ ObservedOrder(sidecar) = bundle.run_order

Accepts(bundle) ==
  /\ BuildAccepts
  /\ VerifyBundle(bundle)
  /\ LayoutAccepts(Sidecar, bundle)

ExportAccepts == LET bundle == ExportedBundle IN Accepts(bundle)

(* The protocol evidence of the canaries that ran.                         *)
ProtocolEvidence == [c \in Traced |-> Joined(PairsOf(c))]

-----------------------------------------------------------------------------
(* build_protocol_design and the contexts of the attempts.                 *)

(* The profiles a backend reports: the Docker backend all, the host        *)
(* backend none for the runtime, a backend without contexts none.          *)
Knows(control, profile) ==
  CASE control.backend = "docker" -> TRUE
    [] control.backend = "host" -> profile # "runtime"
    [] OTHER -> FALSE

(* Defect: the container is named for the side alone.                      *)
InstanceOfSide(t) == <<t.canary, t.side>>

(* isolation_instance_sha256: the container, or the directory, of the      *)
(* attempt.                                                                *)
Instance(t) == <<t.canary, t.side, t.repetition>>

(* derive_changeset: the binaries differ in any qualification of an        *)
(* upgrade; the support files may.  The model declaration never does.      *)
ChangedDimensions(control) ==
  {"agent_binary"} \cup (IF control.support = "changed" THEN {"agent_support"} ELSE {})

-----------------------------------------------------------------------------
(* evaluate_qualification_conditions.                                      *)

(* _slot_evidence_status and _public_slot_evidence_status.                 *)
SlotEvidence(items) ==
  IF ~(SlotsOf(items) \subseteq Slots) THEN "FALSE"
  ELSE IF SlotsOf(items) = Slots /\ Count(items) = Cardinality(Slots) THEN "TRUE"
  ELSE "UNKNOWN"

(* _design_frozen: unknown as soon as one canary of the design did not run *)
(* in full, false when a slot is none of the layout.                       *)
DesignFrozen(bundle, evidence) ==
  LET statuses == {SlotEvidence(bundle.executions[c].attempts) : c \in Canary}
                    \cup {SlotEvidence(evidence[c]) : c \in DOMAIN evidence}
  IN  IF DOMAIN evidence # Canary \/ "UNKNOWN" \in statuses THEN "UNKNOWN"
      ELSE IF "FALSE" \in statuses THEN "FALSE"
      ELSE "TRUE"

TracedInFull(evidence, c) == c \in DOMAIN evidence /\ SlotEvidence(evidence[c]) = "TRUE"

(* _state_bound: the codex and gemini agents are known only with the       *)
(* fingerprint of their support files.                                     *)
StateBound(control) == IF control.support = "missing" THEN "UNKNOWN" ELSE "TRUE"

QualificationGates(bundle, evidence, control) ==
  StateBound(control) = "TRUE" /\ DesignFrozen(bundle, evidence) = "TRUE"

-----------------------------------------------------------------------------
(* evaluate_canary_conditions.                                             *)

PreparationEquivalent(evidence, c, control) ==
  IF Knows(control, "preparation") /\ TracedInFull(evidence, c)
  THEN "TRUE" ELSE "UNKNOWN"

OfSide(items, side) == Restrict(items, {i \in DOMAIN items : items[i].side = side})

Baseline(bundle, c) == OfSide(bundle.executions[c].attempts, "baseline")
Candidate(bundle, c) == OfSide(bundle.executions[c].attempts, "candidate")

AllValid(items) == \A t \in Range(items) : t.valid
AllSucceed(items) == \A t \in Range(items) : t.success

(* A side with one attempt of every repetition.                            *)
FillsSide(items) ==
  Count(items) = Repetitions /\ {t.repetition : t \in Range(items)} = 1..Repetitions

BaselineStable(bundle, c) ==
  LET baseline == Baseline(bundle, c)
  IN  IF ~FillsSide(baseline) \/ ~AllValid(baseline) THEN "UNKNOWN"
      ELSE IF AllSucceed(baseline) THEN "TRUE" ELSE "FALSE"

AttemptsComplete(bundle, evidence, c) ==
  IF c \notin DOMAIN evidence THEN "UNKNOWN"
  ELSE IF /\ SlotEvidence(bundle.executions[c].attempts) = "TRUE"
          /\ AllValid(bundle.executions[c].attempts)
  THEN "TRUE" ELSE "FALSE"

AttemptsIsolated(evidence, c, control) ==
  IF ~Knows(control, "isolation") \/ c \notin DOMAIN evidence THEN "UNKNOWN"
  ELSE IF Cardinality({Instance(t) : t \in Range(evidence[c])}) = Count(evidence[c])
  THEN "TRUE" ELSE "FALSE"

(* _order_valid: pairs back to back, in the order of the repetitions, the  *)
(* leader alternating.                                                     *)
OrderValid(bundle, c) ==
  LET places == {i \in DOMAIN bundle.run_order : bundle.run_order[i][1] = c}
      positions == InOrder([i \in places |-> Cardinality({j \in places : j < i})])
      side(i) == bundle.run_order[positions[i]][2]
      repetition(i) == bundle.run_order[positions[i]][3]
  IN  IF places = {} THEN "UNKNOWN"
      ELSE IF /\ Cardinality(places) = AttemptsPerCanary
              /\ \A r \in 1..Repetitions :
                   /\ positions[2 * r] = positions[2 * r - 1] + 1
                   /\ repetition(2 * r) = r /\ repetition(2 * r - 1) = r
                   /\ side(2 * r) # side(2 * r - 1)
              /\ \A r \in 2..Repetitions : side(2 * r) # side(2 * r - 2)
      THEN "TRUE" ELSE "FALSE"

(* _temporal_pair_valid, over the gap between the attempts of a pair.      *)
TemporalPairValid(bundle, evidence, c, control) ==
  IF c \notin control.declared \/ ~TracedInFull(evidence, c) THEN "UNKNOWN"
  ELSE IF OrderValid(bundle, c) = "TRUE" /\ \A t \in Range(evidence[c]) : ~t.late
  THEN "TRUE" ELSE "FALSE"

(* _controlled_dimension_status for the dimensions a run can leave open;   *)
(* the others are equal on both sides by the way a run is made.            *)
ControlledDimension(dimension, control) ==
  CASE dimension = "agent_support" ->
         IF control.support = "missing" THEN "UNKNOWN" ELSE "TRUE"
    [] dimension \in Profiles -> IF Knows(control, dimension) THEN "TRUE" ELSE "UNKNOWN"
    [] OTHER -> "TRUE"

MaterialDimensionsControlled(evidence, c, control) ==
  IF c \notin control.declared \/ ~TracedInFull(evidence, c) THEN "UNKNOWN"
  ELSE IF \A dimension \in control.dimensions \ ChangedDimensions(control) :
            ControlledDimension(dimension, control) = "TRUE"
  THEN "TRUE" ELSE "UNKNOWN"

CanaryGates(bundle, evidence, c, control) ==
  /\ PreparationEquivalent(evidence, c, control) = "TRUE"
  /\ BaselineStable(bundle, c) = "TRUE"
  /\ AttemptsComplete(bundle, evidence, c) = "TRUE"
  /\ AttemptsIsolated(evidence, c, control) = "TRUE"
  /\ TemporalPairValid(bundle, evidence, c, control) = "TRUE"
  /\ MaterialDimensionsControlled(evidence, c, control) = "TRUE"
  /\ OrderValid(bundle, c) = "TRUE"

-----------------------------------------------------------------------------
(* derive_canary_claim.                                                    *)

DeriveClaim(bundle, evidence, c, control) ==
  LET baseline == Baseline(bundle, c)
      candidate == Candidate(bundle, c)
  IN  IF /\ QualificationGates(bundle, evidence, control)
         /\ CanaryGates(bundle, evidence, c, control)
         /\ FillsSide(baseline) /\ AllValid(baseline) /\ AllSucceed(baseline)
         /\ FillsSide(candidate) /\ AllValid(candidate)
      THEN IF AllSucceed(candidate) THEN "NO_REGRESSION_OBSERVED" ELSE "ATTRIBUTABLE_CHANGESET"
      ELSE "UNRESOLVED"

-----------------------------------------------------------------------------
(* Properties.                                                             *)

(* The canaries ran in the order of their ids.                             *)
RanInIdOrder == \A c, d \in Canary : Before(c, d) => Id[c] < Id[d]

(* A completed run exports with its protocol companion, whatever was       *)
(* skipped, as long as it took the canaries in the order of their ids: the *)
(* sidecar, the bundle and the run order were built in three places and    *)
(* are compared slot by slot (materialize.py:87-121, verify.py:140-215).   *)
CompanionAccepted == phase = "done" /\ RanInIdOrder => ExportAccepts

(* What the README promises of export (README.md:150): a completed         *)
(* qualification can be exported.                                          *)
CompletedRunExports == phase = "done" => ExportAccepts

(* A claim never says more than the verdict of the run: "no regression"    *)
(* only of a canary that passed, "attributable" only of one that regressed *)
(* from a stable baseline; and neither of a run with a skipped canary, a   *)
(* late pair or an agent that is not fully identified.  And no less: where *)
(* the environment was controlled and every canary ran, a canary goes      *)
(* unresolved only for its own attempts, because one was invalid or its    *)
(* baseline unstable (claims.py:90-167 and conditions.py, against          *)
(* qualification/policy.py).                                               *)
ClaimsMatchVerdicts ==
  phase = "done" =>
    LET bundle == ExportedBundle
        evidence == ProtocolEvidence
        stable(c) == executions[c].baseline.successes = Repetitions
        late(c) == \E t \in Range(trace) : t.canary = c /\ t.late
        controlled(c, control) ==
          /\ Skipped = {} /\ ~late(c) /\ c \in control.declared
          /\ control.backend # "plain" /\ control.support # "missing"
          /\ "runtime" \in control.dimensions => control.backend = "docker"
    IN  Accepts(bundle) =>
          \A control \in Controls, c \in Canary :
            DeriveClaim(bundle, evidence, c, control) =
              IF ~controlled(c, control) \/ CanaryVerdict(c) = "INCOMPLETE" \/ ~stable(c)
              THEN "UNRESOLVED"
              ELSE IF CanaryVerdict(c) = "PASS" THEN "NO_REGRESSION_OBSERVED"
              ELSE "ATTRIBUTABLE_CHANGESET"
=============================================================================
