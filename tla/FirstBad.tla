------------------------------ MODULE FirstBad ------------------------------
(***************************************************************************)
(* `qualock first-bad' (protocols/first_bad): the releases from the        *)
(* baseline to an upper bound are checked edge by edge, each release       *)
(* against the one before it, each edge in a workspace of its own made     *)
(* from the live project; the verified edges become a package with a       *)
(* receipt, which a rename publishes.                                      *)
(*                                                                         *)
(* The project and its user are those of EvidenceExport.  Within an edge   *)
(* the check, its export and its verification work on private directories  *)
(* and are one step; what they can find is a set of canary claims (module  *)
(* PairedChange).  A release is a number; its identity is the number and   *)
(* the build that the registry hands out at the time.                      *)
(***************************************************************************)
EXTENDS EvidenceExport, SequencesExt

CONSTANTS
  MaxReleases,  \* bound: releases in the range, the baseline's included
  Builds        \* bound: the builds a release can have

ASSUME ReleasesAssumption == MaxReleases \in Nat /\ MaxReleases >= 2

VARIABLES
  catalog,  \* the number of releases in the range
  build,    \* release -> the build the registry hands out now
  scan,     \* the orchestrator: step, frozen inputs, workspace and edges
  staged    \* the package in the staging directory; None: no chain file yet

scanVars == <<catalog, build, scan, staged>>
firstBadVars == <<exportVars, scanVars>>

Identity(version, b) == [version |-> version, build |-> b]

Claims == {"UNRESOLVED", "ATTRIBUTABLE_CHANGESET", "NO_REGRESSION_OBSERVED"}

(* derive_edge_classification.                                             *)
Classification(claims) ==
  IF "UNRESOLVED" \in claims THEN "UNRESOLVED"
  ELSE IF "ATTRIBUTABLE_CHANGESET" \in claims THEN "ATTRIBUTABLE_CHANGESET"
  ELSE "NO_REGRESSION_OBSERVED"

Clean(edge) == edge.class = "NO_REGRESSION_OBSERVED"

-----------------------------------------------------------------------------
(* The scan.  lock: of the workspace; expected: the candidate of the edge  *)
(* before; ended: the prefix ended at a baseline.                          *)

ScanInit ==
  /\ catalog \in IF "first-bad" \in actors THEN 2..MaxReleases ELSE {2}
  /\ build \in [1..catalog -> {CHOOSE b \in Builds : TRUE}]
  /\ scan = [pc |-> "idle", frozen |-> None, config |-> None, canaries |-> None,
             lock |-> None, edges |-> <<>>, ended |-> FALSE]
  /\ staged = None

Republish(v) ==
  /\ "first-bad" \in actors
  /\ \E b \in Builds : build' = [build EXCEPT ![v] = b]
  /\ UNCHANGED <<exportVars, catalog, scan, staged>>

ScanGoes(from, to) ==
  /\ scan.pc = from
  /\ scan' = [scan EXCEPT !.pc = to]
  /\ UNCHANGED <<exportVars, catalog, build>>

Abort == ScanGoes(scan.pc, "aborted") /\ UNCHANGED staged

(* first_bad_preflight and _snapshot_project_inputs read the configuration *)
(* and then the canaries.                                                  *)
ReadConfig ==
  /\ scan.pc \in {"idle", "snapshot"} /\ "first-bad" \in actors
  /\ scan' = [scan EXCEPT !.pc = IF scan.pc = "idle" THEN "preflight canaries"
                                 ELSE "snapshot canaries",
                          !.config = config]
  /\ UNCHANGED <<exportVars, catalog, build, staged>>

ReadCanaries ==
  /\ scan.pc \in {"preflight canaries", "snapshot canaries"}
  /\ scan' = [scan EXCEPT !.pc = IF scan.pc = "preflight canaries" THEN "preflight lock"
                                 ELSE "anchor",
                          !.canaries = canaries]
  /\ UNCHANGED <<exportVars, catalog, build, staged>>

(* The lock is frozen, with the build it was made of.                      *)
FreezeLock ==
  /\ scan.pc = "preflight lock"
  /\ \E b \in Builds :
       scan' = IF Fresh(lock, scan.config, scan.canaries)
               THEN [scan EXCEPT !.pc = "snapshot",
                       !.frozen = [config |-> lock.config, content |-> lock.content,
                                   agent |-> Identity(1, b)]]
               ELSE [scan EXCEPT !.pc = "aborted"]
  /\ UNCHANGED <<exportVars, catalog, build, staged>>

Expected == Last(scan.edges).candidate

(* Defect: the release is trusted to be the one checked before.            *)
SameRelease(actual) == TRUE

MatchesExpected(actual) == actual = Expected

(* The first edge takes the frozen lock into its workspace; a later one    *)
(* writes a baseline there, of the release the edge before ended with.  It *)
(* ends the prefix if it is unstable, or another build of that release.    *)
Anchor ==
  /\ scan.pc = "anchor"
  /\ LET version == Len(scan.edges) + 1
         fresh == [config |-> scan.config, content |-> scan.canaries.content,
                   agent |-> Identity(version, build[version])]
     IN  IF scan.edges = <<>>
         THEN scan' = [scan EXCEPT !.pc = "check", !.lock = scan.frozen]
         ELSE \/ /\ MatchesExpected(fresh.agent)
                 /\ scan' = [scan EXCEPT !.pc = "check", !.lock = fresh]
              \/ scan' = [scan EXCEPT !.pc = "chain", !.ended = TRUE]
  /\ UNCHANGED <<exportVars, catalog, build, staged>>

(* execute_check wants the workspace fresh under its lock, and the build   *)
(* of the lock.  The edge is exported with its companion and verified.     *)
CheckEdge(claims) ==
  /\ scan.pc = "check"
  /\ LET version == Len(scan.edges) + 1
         edge == [baseline |-> scan.lock.agent,
                  candidate |-> Identity(version + 1, build[version + 1]),
                  config |-> scan.config, content |-> scan.canaries.content,
                  protocol |-> scan.canaries.protocol,
                  class |-> Classification(claims)]
     IN  scan' = IF /\ Fresh(scan.lock, scan.config, scan.canaries)
                    /\ build[version] = scan.lock.agent.build
                 THEN [scan EXCEPT !.pc = IF Clean(edge) /\ version + 1 < catalog
                                          THEN "snapshot" ELSE "chain",
                                   !.edges = Append(scan.edges, edge)]
                 ELSE [scan EXCEPT !.pc = "aborted"]
  /\ UNCHANGED <<exportVars, catalog, build, staged>>

(* Defect: the designs of the edges are not compared.                      *)
AnyDesign == scan.edges # <<>>

(* The protocol design of an edge holds the fingerprints of its suite and  *)
(* configuration, and what the canaries declare of a paired change.        *)
Design(edge) == <<edge.config, edge.content, edge.protocol>>

OneDesign ==
  /\ scan.edges # <<>>
  /\ \A edge \in Range(scan.edges) : Design(edge) = Design(scan.edges[1])

(* _build_chain_evidence; the chain file is written.                       *)
BuildChain ==
  /\ scan.pc = "chain"
  /\ IF OneDesign
     THEN /\ staged' = [config |-> scan.frozen.config, content |-> scan.frozen.content,
                        design |-> Design(scan.edges[1]), anchor |-> scan.edges[1].baseline, catalog |-> catalog,
                        edges |-> scan.edges, receipt |-> None]
          /\ ScanGoes("chain", "verify")
     ELSE Abort

-----------------------------------------------------------------------------
(* verify_first_bad.                                                       *)

(* Defect: a clean prefix is taken for the whole range.                    *)
ChainClaimOfPrefix(package) ==
  LET dirty == {i \in DOMAIN package.edges : ~Clean(package.edges[i])}
  IN  IF dirty = {} THEN [claim |-> "NO_ATTRIBUTABLE_BAD_FOUND", boundary |-> None]
      ELSE LET edge == package.edges[Min(dirty)]
           IN  IF edge.class = "UNRESOLVED" THEN [claim |-> "UNRESOLVED", boundary |-> None]
               ELSE [claim |-> "FIRST_ATTRIBUTABLE_BAD", boundary |-> edge.candidate.version]

(* derive_chain_claim: the first edge that is not clean decides.           *)
ChainClaim(package) ==
  LET dirty == {i \in DOMAIN package.edges : ~Clean(package.edges[i])}
      unresolved == [claim |-> "UNRESOLVED", boundary |-> None]
  IN  IF dirty # {}
      THEN LET edge == package.edges[Min(dirty)]
           IN  IF edge.class = "UNRESOLVED" THEN unresolved
               ELSE [claim |-> "FIRST_ATTRIBUTABLE_BAD", boundary |-> edge.candidate.version]
      ELSE IF Len(package.edges) = package.catalog - 1
      THEN [claim |-> "NO_ATTRIBUTABLE_BAD_FOUND", boundary |-> None]
      ELSE unresolved

(* The edges are a prefix of the range, each release next to the one       *)
(* before it, from the anchor on, one identity where two edges meet.       *)
Contiguous(package) ==
  /\ Len(package.edges) \in 1..(package.catalog - 1)
  /\ package.edges[1].baseline = package.anchor
  /\ \A i \in DOMAIN package.edges :
       /\ package.edges[i].baseline.version = i
       /\ package.edges[i].candidate.version = i + 1
       /\ i > 1 => package.edges[i].baseline = package.edges[i - 1].candidate

(* Every edge ran the frozen suite under the frozen configuration, by one  *)
(* design.                                                                 *)
Frozen(package) ==
  \A edge \in Range(package.edges) :
    /\ edge.config = package.config /\ edge.content = package.content
    /\ Design(edge) = package.design

VerifyPackage(package) ==
  /\ Contiguous(package) /\ Frozen(package)
  /\ \A i \in DOMAIN package.edges :
       package.edges[i].class = "ATTRIBUTABLE_CHANGESET" =>
         \/ i = Len(package.edges)
         \/ \E j \in 1..(i - 1) : package.edges[j].class = "ATTRIBUTABLE_CHANGESET"
  /\ package.receipt # None => package.receipt = ChainClaim(package)

(* The package is verified, the receipt written, and all verified again.   *)
WriteReceipt ==
  /\ scan.pc = "verify" /\ staged.receipt = None
  /\ IF VerifyPackage(staged)
     THEN staged' = [staged EXCEPT !.receipt = ChainClaim(staged)] /\ ScanGoes("verify", "verify")
     ELSE Abort

VerifyAgain ==
  /\ scan.pc = "verify" /\ staged.receipt # None
  /\ IF VerifyPackage(staged) THEN ScanGoes("verify", "publish") /\ UNCHANGED staged ELSE Abort

(* The name of the package is new; the rename replaces nothing.            *)
PublishPackage == ScanGoes("publish", "published") /\ UNCHANGED staged

(* A step fails, or the user interrupts: the staging directory stays.      *)
AbortScan ==
  /\ scan.pc \notin {"idle", "published", "aborted"}
  /\ Abort

ScanStep ==
  \/ ReadConfig \/ ReadCanaries \/ FreezeLock \/ Anchor
  \/ \E claims \in SUBSET Claims \ {{}} : CheckEdge(claims)
  \/ BuildChain \/ WriteReceipt \/ VerifyAgain \/ PublishPackage \/ AbortScan

FirstBadInit == ExportInit /\ ScanInit

FirstBadNext ==
  \/ ExportNext /\ UNCHANGED scanVars
  \/ \E v \in 1..catalog : Republish(v)
  \/ ScanStep

FirstBadSpec == FirstBadInit /\ [][FirstBadNext]_firstBadVars

-----------------------------------------------------------------------------
(* Properties.                                                             *)

(* The verifier never refuses what the orchestrator staged: however the    *)
(* project is edited and the releases are republished during the scan, a   *)
(* drift is noticed where it is still the scan's to end, by the lock of    *)
(* the first edge, the identity asked of every later baseline and the one  *)
(* design of all edges (orchestrate.py:228-391, verify.py:110-190).        *)
SelfVerifyAccepts == scan.pc \in {"verify", "publish"} => VerifyPackage(staged)

(* A published package tells the truth about the releases it names: an     *)
(* attributable boundary is the candidate of an edge whose older edges all *)
(* came out clean under the same suite, "no bad" covers the whole range,   *)
(* and neither is said of a scan that a baseline or a claim left open      *)
(* (claims.py:44-64, orchestrate.py:330-440).                              *)
PublishedIsJustified ==
  scan.pc = "published" =>
    LET clean == {v \in 2..catalog : v - 1 \in DOMAIN scan.edges /\ Clean(scan.edges[v - 1])}
        receipt == staged.receipt
    IN  /\ \A edge \in Range(scan.edges) :
             /\ edge.config = scan.frozen.config /\ edge.content = scan.frozen.content
             /\ edge.protocol = scan.edges[1].protocol
        /\ receipt.claim = "FIRST_ATTRIBUTABLE_BAD" <=>
             Last(scan.edges).class = "ATTRIBUTABLE_CHANGESET"
        /\ receipt.claim = "FIRST_ATTRIBUTABLE_BAD" => clean = 2..(receipt.boundary - 1)
        /\ receipt.claim = "NO_ATTRIBUTABLE_BAD_FOUND" <=> clean = 2..catalog

(* A scan keeps the promise of a bisection, one release at a time: an edge *)
(* is judged only after every older one came out clean, and the receipt    *)
(* says "no bad" only once all were judged.                                *)
EdgeVerdict == [NO_REGRESSION_OBSERVED |-> "PASS", ATTRIBUTABLE_CHANGESET |-> "BLOCK",
                UNRESOLVED |-> "WARN"]

ScanVerdicts ==
  [i \in DOMAIN scan.edges |-> EdgeVerdict[scan.edges[i].class]] \o
  (IF scan.ended THEN <<"INCOMPLETE">> ELSE <<>>)

ScanPromise == INSTANCE VersionBisectSpec WITH
  Candidates <- {[i \in 1..(n - 1) |-> i + 1] : n \in 2..MaxReleases},
  candidates <- [i \in 1..(catalog - 1) |-> i + 1],
  verdicts <- ScanVerdicts,
  claim <- IF staged # None /\ staged.receipt # None
             /\ staged.receipt.claim = "NO_ATTRIBUTABLE_BAD_FOUND"
           THEN "NO_BAD_FOUND"
           ELSE IF ScanVerdicts = <<>> THEN None
           ELSE [PASS |-> None, BLOCK |-> "FIRST_BAD_FOUND", WARN |-> "WARN_UNRESOLVED",
                 INCOMPLETE |-> "INCOMPLETE"][Last(ScanVerdicts)]

ScanKeepsPromise == ScanPromise!Spec
=============================================================================
