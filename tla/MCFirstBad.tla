----------------------------- MODULE MCFirstBad -----------------------------
(* The commands that leave evidence: a check that is exported while the    *)
(* project is edited and its baseline written again; two exporters among   *)
(* other programs; a check-target while more is learnt of the target; a    *)
(* first-bad scan while the project is edited and releases are republished.*)
EXTENDS FirstBad, TLC

CONSTANTS e1, e2, f1

MCTogether ==
  {{"check", "user", "baseline", e1}, {"check", "others", e1, e2},
   {"check-target", "survey"}, {"first-bad", "user"}}

Requirements == {<<>>, [os |-> "a"], [os |-> "a", shell |-> "x"]}
Impacts == [contract : {1, 2}, scope : Requirements]
Declarations == [source : {1, 2}, contract : {1, 2}, requires : Requirements]
OneOrTwo(S) == {s \in SUBSET S : Cardinality(s) \in 1..2}

MCSignals == OneOrTwo(Impacts)
MCSuites == [content : {1}, coverage : OneOrTwo(Declarations), protocol : {"short gap"}]
MCEdits == {[content |-> content, coverage |-> {}, protocol |-> protocol] :
              <<content, protocol>> \in {<<1, "short gap">>, <<2, "short gap">>, <<1, "long gap">>}}
=============================================================================
