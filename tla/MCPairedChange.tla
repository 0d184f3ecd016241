--------------------------- MODULE MCPairedChange ---------------------------
(* A suite of two canaries, one critical, in pairs of repetitions.         *)
EXTENDS PairedChange

MCCritical == {2}
MCAttemptBudgets == {4, 7}
MCTokenBudgets == {3}
MCTokenCosts == {1}
MCMayBeLate == {<<1, 2>>}
MCNoneLate == {}
MCId == [c \in Canary |-> c]

(* Invalid attempts lose their usage (an unreadable event stream); a valid *)
(* one succeeds or fails.                                                  *)
MCResults ==
  {[valid |-> FALSE, success |-> FALSE, tokens |-> None],
   [valid |-> TRUE, success |-> FALSE, tokens |-> 1],
   [valid |-> TRUE, success |-> TRUE, tokens |-> 1]}

Control(backend, declared, dimensions, support) ==
  [backend |-> backend, declared |-> declared, dimensions |-> dimensions, support |-> support]

MCControls ==
  {Control("docker", Canary, MaterialDimensions, "changed"),
   Control("docker", {1}, {"agent_support", "runtime"}, "same"),
   Control("docker", Canary, {"agent_support"}, "missing"),
   Control("host", Canary, MaterialDimensions, "same"),
   Control("host", Canary, {"agent_binary"}, "same"),
   Control("plain", Canary, {}, "same")}
=============================================================================
