-------------------------- MODULE VersionBisectSpec --------------------------
(***************************************************************************)
(* What `qualock bisect' promises (README.md, "Find the first bad release",*)
(* and the section on the definition of first bad of docs/superpowers/     *)
(* specs/2026-09-03-version-bisect-design.md): releases are judged oldest  *)
(* first, one is judged only after every older one passed, and what is     *)
(* claimed follows from the verdicts given.                                *)
(***************************************************************************)
EXTENDS Sequences, Naturals, QualificationPolicy

CONSTANTS Candidates,  \* the possible lists of releases, oldest first
          None

VARIABLES candidates,  \* the list of this scan
          verdicts,    \* the verdicts given so far, in that order
          claim        \* what the scan concluded, or None

vars == <<candidates, verdicts, claim>>

Claims == {"NO_BAD_FOUND", "FIRST_BAD_FOUND", "WARN_UNRESOLVED", "INCOMPLETE"}

(* What a verdict ends the scan with; after PASS it goes on.               *)
ClaimOf == [PASS |-> None, BLOCK |-> "FIRST_BAD_FOUND", WARN |-> "WARN_UNRESOLVED",
            INCOMPLETE |-> "INCOMPLETE"]

Init == candidates \in Candidates /\ verdicts = <<>> /\ claim = None

Judge ==
  /\ claim = None /\ Len(verdicts) < Len(candidates)
  /\ \E v \in Verdicts : verdicts' = Append(verdicts, v) /\ claim' = ClaimOf[v]
  /\ UNCHANGED candidates

Conclude ==
  /\ claim = None /\ Len(verdicts) = Len(candidates)
  /\ claim' = "NO_BAD_FOUND"
  /\ UNCHANGED <<candidates, verdicts>>

Next == Judge \/ Conclude

Spec == Init /\ [][Next]_vars
=============================================================================
