--------------------------- MODULE MCProjectWatch ---------------------------
(* Two uses of a project of two files: three terminals that protect, set   *)
(* up and start it, and a watch session while its files are edited and one *)
(* terminal gives commands.                                                *)
EXTENDS ProjectWatch

CONSTANTS s1, WatchCommands

VARIABLE use

MCVars == <<watchVars, use>>

Used ==
  IF use = "terminals" THEN UNCHANGED <<project, watch>>
  ELSE /\ begun' <= WatchCommands
       /\ \A s \in Sessions \ {s1} : frame'[s] = frame[s]

MCInit == WatchInit /\ use \in {"terminals", "watch"}

MCNext == WatchNext /\ Used /\ UNCHANGED use

MCSpec ==
  /\ MCInit /\ [][MCNext]_MCVars
  /\ WF_MCVars(WatchStep /\ UNCHANGED use)
=============================================================================
