--------------------------- MODULE ChangeTargeting ---------------------------
(***************************************************************************)
(* Change targeting (change_targeting/): which canaries have to run for a  *)
(* change of the agent, by what is known of the target.                    *)
(*                                                                         *)
(* A signal is a set of impacts: a contract the change may break, where    *)
(* the scope requirements hold.  A canary declares which contracts it      *)
(* covers, and where.  Requirements and facts are functions on a part of   *)
(* the context keys; values of different types are different values        *)
(* (_scalar_equal).  Sources are numbered in the order of the canary ids.  *)
(***************************************************************************)
EXTENDS Naturals, FiniteSets, FiniteSetsExt

CONSTANTS
  Keys, Values,  \* the context keys, and the values they can have
  Signals        \* the signals looked at: sets of [contract, scope]

Facts == UNION {[keys -> Values] : keys \in SUBSET Keys}

ASSUME SignalsAssumption ==
  \A signal \in Signals : signal # {} /\ \A impact \in signal : impact.scope \in Facts

(* Defect: what is not known does not hold.                                *)
MatchKnownOnly(required, facts) ==
  IF \A k \in DOMAIN required : k \in DOMAIN facts /\ facts[k] = required[k]
  THEN "MATCH" ELSE "MISMATCH"

(* match_requirements: a mismatch beats what is unknown.                   *)
MatchRequirements(required, facts) ==
  IF \E k \in DOMAIN required \cap DOMAIN facts : facts[k] # required[k] THEN "MISMATCH"
  ELSE IF DOMAIN required \subseteq DOMAIN facts THEN "MATCH" ELSE "UNKNOWN"

(* normalize_coverage refuses declarations of one source for one contract  *)
(* that require different values of a key.                                 *)
Conflicting(coverage) ==
  \E d1, d2 \in coverage :
    /\ d1.source = d2.source /\ d1.contract = d2.contract
    /\ \E k \in DOMAIN d1.requires \cap DOMAIN d2.requires : d1.requires[k] # d2.requires[k]

(* The contracts of the impacts, the sources of the declarations, that     *)
(* match in one way.                                                       *)
Contracts(signal, facts, match) ==
  {impact.contract : impact \in {i \in signal : MatchRequirements(i.scope, facts) = match}}
Sources(coverage, contract, facts, match) ==
  {d.source : d \in {d \in coverage : /\ d.contract = contract
                                      /\ MatchRequirements(d.requires, facts) = match}}

Covers(sources, contracts, coverage, facts) ==
  \A c \in contracts : sources \cap Sources(coverage, c, facts, "MATCH") # {}

(* _select_minimum_sources: of the smallest sets that cover, the first in  *)
(* lexical order.                                                          *)
SelectMinimum(contracts, coverage, facts) ==
  LET all == UNION {Sources(coverage, c, facts, "MATCH") : c \in contracts}
      covering == {s \in SUBSET all : Covers(s, contracts, coverage, facts)}
      smallest == {s \in covering : \A t \in covering : Cardinality(s) <= Cardinality(t)}
  IN  CHOOSE s \in smallest :
        \A t \in smallest \ {s} : Min((s \ t) \cup (t \ s)) \in s

Assessment(status, relevant, selected) ==
  [status |-> status, relevant |-> relevant, selected |-> selected]

(* assess_change: incomplete if a contract may be relevant, or is and has  *)
(* no source that surely covers it (a gap, or a source that may).          *)
Assess(signal, facts, coverage) ==
  LET relevant == Contracts(signal, facts, "MATCH")
      unresolved == Contracts(signal, facts, "UNKNOWN")
  IN  IF relevant = {} /\ unresolved = {} THEN Assessment("NOT_APPLICABLE", {}, {})
      ELSE IF unresolved # {} \/ \E c \in relevant : Sources(coverage, c, facts, "MATCH") = {}
      THEN Assessment("INCOMPLETE", relevant, {})
      ELSE Assessment("READY", relevant, SelectMinimum(relevant, coverage, facts))

-----------------------------------------------------------------------------
(* What a target can turn out to be, given some facts.                     *)
Completions(facts) == {full \in [Keys -> Values] : \A k \in DOMAIN facts : full[k] = facts[k]}

(* The sources are enough, whatever the target turns out to be.            *)
Suffices(sources, signal, facts, coverage) ==
  \A full \in Completions(facts) :
    \A impact \in signal :
      (\A k \in DOMAIN impact.scope : full[k] = impact.scope[k]) =>
        \E d \in coverage :
          /\ d.source \in sources /\ d.contract = impact.contract
          /\ \A k \in DOMAIN d.requires : full[k] = d.requires[k]
=============================================================================
