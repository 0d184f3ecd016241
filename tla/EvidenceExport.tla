--------------------------- MODULE EvidenceExport ---------------------------
(***************************************************************************)
(* The evidence of one qualification on disk: `qualock check', or `qualock *)
(* check-target', writes its artifacts one after the other; `qualock       *)
(* evidence export' reads them beside the live project and publishes a     *)
(* bundle, and its protocol companion, by two renames.                     *)
(*                                                                         *)
(* Meanwhile the project is edited, its baseline written again, other      *)
(* exports go to the same destination and other programs use its name.     *)
(* What the payloads say is in EvidenceBundle and PairedChange; here the   *)
(* configuration is a version of its content; the canaries are their       *)
(* content, which the suite fingerprint covers, and the two declarations   *)
(* that _canary_fingerprint_payload leaves out of it: coverage and paired  *)
(* change; a directory is its identity (the inode), and an artifact is     *)
(* absent, partial or whole.                                               *)
(***************************************************************************)
EXTENDS ChangeTargeting, Sequences

CONSTANTS
  Configs,    \* what the configuration can contain
  Suites,     \* what the canaries can be: [content, coverage, protocol]
  Edits,      \* bound: the suites the user goes back and forth between
  Together,   \* bound: the sets of actors to look at together
  Exporter,   \* the processes of `qualock evidence export'
  Foreign,    \* directories of other programs
  MaxLocks,   \* bound: how often the baseline is written
  None

ASSUME TogetherAssumption ==
  Together \subseteq
    SUBSET ({"check", "check-target", "first-bad", "user", "baseline", "survey", "others"}
              \cup Exporter)
ASSUME SuitesAssumption ==
  \A suite \in Suites \cup Edits :
    /\ IsFiniteSet(suite.coverage)
    /\ \A d \in suite.coverage : d.source \in Nat /\ d.requires \in Facts
ASSUME LocksAssumption == MaxLocks \in Nat \ {0}
ASSUME DirectoriesAssumption ==
  /\ Foreign \cap (Exporter \X {"bundle", "protocol"}) = {} /\ "published" \notin Exporter
  /\ None \notin Foreign \cup (({"published"} \cup Exporter) \X {"bundle", "protocol"})

VARIABLES
  config, canaries,  \* the project's files
  facts, signal,     \* the context and the signal given to check-target
  lock,              \* baseline.lock: its number, and what it is the baseline of
  run,               \* the qualifying command: step, and what it ran with
  files,             \* its artifacts: "absent", "partial" or "whole"
  export,            \* the exporters: step, and what they read
  place,             \* the name each directory has; None: none of those below
  disturbed,         \* history: another program took part in the destination
  actors             \* bound: who acts in this behaviour

project == <<config, canaries, lock, facts, signal>>
exports == <<export, place, disturbed>>
exportVars == <<project, run, files, exports, actors>>

(* assert_suite_fresh: the fingerprints of the lock are those of the       *)
(* project.                                                                *)
Fresh(l, conf, suite) == l.config = conf /\ l.content = suite.content

-----------------------------------------------------------------------------
(* The project's files change under the commands.                          *)

Edit ==
  /\ "user" \in actors
  /\ \/ config' \in Configs /\ UNCHANGED canaries
     \/ canaries' \in Edits /\ UNCHANGED config
  /\ UNCHANGED <<lock, facts, signal, run, files, exports>>

(* execute_baseline: of the files it had read when it started.             *)
WriteBaseline ==
  /\ "baseline" \in actors /\ lock.number < MaxLocks
  /\ \E conf \in Configs, suite \in Edits :
       lock' = [number |-> lock.number + 1, config |-> conf, content |-> suite.content]
  /\ UNCHANGED <<config, canaries, facts, signal, run, files, exports>>

(* More becomes known of the target.                                       *)
Learn(k, value) ==
  /\ "survey" \in actors /\ k \notin DOMAIN facts
  /\ facts' = [key \in DOMAIN facts \cup {k} |-> IF key = k THEN value ELSE facts[key]]
  /\ UNCHANGED <<config, canaries, lock, signal, run, files, exports>>

-----------------------------------------------------------------------------
(* execute_check and execute_targeted_check.                               *)

Artifacts == {"report", "qualification", "provenance", "paired", "pricing", "receipt"}

(* Defect: the receipt is written before the evidence it vouches for.      *)
ArtifactsReceiptEarly(command) ==
  IF command = "check" THEN <<"report", "qualification", "provenance", "pricing", "paired">>
  ELSE <<"report", "qualification", "receipt", "provenance", "paired", "pricing">>

(* The artifacts of a command, in the order they are written.              *)
ArtifactsOf(command) ==
  <<"report", "qualification", "provenance", "paired", "pricing">> \o
  (IF command = "check-target" THEN <<"receipt">> ELSE <<>>)

Qualifying == {"check", "check-target"}

IdleRun == [pc |-> "idle", command |-> None, config |-> None, canaries |-> None,
            lock |-> None, facts |-> None, selected |-> None, next |-> 0]

(* The signal and the context of a check-target, then the project: the     *)
(* configuration, then the canaries.                                       *)
StartRun(command) ==
  /\ run.pc = "idle" /\ command \in actors
  /\ run' = [run EXCEPT !.pc = "canaries", !.command = command, !.facts = facts,
                         !.config = config]
  /\ UNCHANGED <<project, files, exports>>

LoadCanaries ==
  /\ run.pc = "canaries"
  /\ run' = [run EXCEPT !.pc = "lock", !.canaries = canaries]
  /\ UNCHANGED <<project, files, exports>>

(* What a check-target would run; a check takes every canary.              *)
Plan == Assess(signal, run.facts, run.canaries.coverage)

(* The lock is read and the project fresh under it; a check-target goes on *)
(* only with an assessment that is ready.                                  *)
ReadLock ==
  /\ run.pc = "lock"
  /\ run' = IF /\ Fresh(lock, run.config, run.canaries)
               /\ run.command = "check-target" =>
                    ~Conflicting(run.canaries.coverage) /\ Plan.status = "READY"
            THEN [run EXCEPT !.pc = "run", !.lock = lock.number,
                    !.selected = IF run.command = "check-target" THEN Plan.selected ELSE None]
            ELSE [run EXCEPT !.pc = "stopped"]
  /\ UNCHANGED <<project, files, exports>>

(* The result is there; its directory is made (mkdir, exclusive).          *)
Qualify ==
  /\ run.pc = "run"
  /\ run' = [run EXCEPT !.pc = "write", !.next = 1]
  /\ UNCHANGED <<project, files, exports>>

NextArtifact == ArtifactsOf(run.command)[run.next]

Advance ==
  run' = IF run.next = Len(ArtifactsOf(run.command))
         THEN [run EXCEPT !.pc = "returned"]
         ELSE [run EXCEPT !.next = run.next + 1]

OpenArtifact ==
  /\ run.pc = "write" /\ files[NextArtifact] = "absent"
  /\ files' = [files EXCEPT ![NextArtifact] = "partial"]
  /\ UNCHANGED <<project, run, exports>>

CloseArtifact ==
  /\ run.pc = "write" /\ files[NextArtifact] = "partial"
  /\ files' = [files EXCEPT ![NextArtifact] = "whole"]
  /\ Advance
  /\ UNCHANGED <<project, exports>>

(* Pricing is written by the best effort: any failure is passed over.      *)
GiveUpPricing ==
  /\ run.pc = "write" /\ NextArtifact = "pricing"
  /\ Advance
  /\ UNCHANGED <<project, files, exports>>

(* A write fails, the evidence is refused, or the process ends: what is    *)
(* on disk stays.                                                          *)
StopRun ==
  /\ run.pc \in {"canaries", "lock", "run", "write"}
  /\ run' = [run EXCEPT !.pc = "stopped"]
  /\ UNCHANGED <<project, files, exports>>

RunStep ==
  \/ (\E command \in Qualifying : StartRun(command)) \/ LoadCanaries \/ ReadLock
  \/ Qualify \/ OpenArtifact \/ CloseArtifact \/ GiveUpPricing \/ StopRun

-----------------------------------------------------------------------------
(* Directories: the two published names, and a staging name of each        *)
(* exporter for each.  An exporter's directory is called by the staging    *)
(* name it was made under.                                                 *)

Kinds == {"bundle", "protocol"}
Staging == Exporter \X Kinds
Directories == Staging \cup Foreign

Dest(kind) == <<"published", kind>>
Names == {Dest(kind) : kind \in Kinds} \cup Staging

At(name) == {d \in Directories : place[d] = name}

(* Defect: a plain rename, which replaces what has the name.               *)
RenameReplacing(from, to) ==
  /\ At(from) # {}
  /\ place' = [d \in Directories |->
                 IF place[d] = from THEN to
                 ELSE IF place[d] = to THEN <<"destroyed", to[2]>> ELSE place[d]]

(* _rename_noreplace.                                                      *)
RenameNoReplace(from, to) ==
  /\ At(from) # {} /\ At(to) = {}
  /\ place' = [d \in Directories |-> IF place[d] = from THEN to ELSE place[d]]

(* Other programs and the user move what has a published name away, and    *)
(* put directories of their own there.                                     *)
MoveAway(d) ==
  /\ \E kind \in Kinds : place[d] = Dest(kind)
  /\ place' = [place EXCEPT ![d] = None]
  /\ disturbed' = TRUE
  /\ UNCHANGED <<project, run, files, export>>

PutForeign(f, kind) ==
  /\ place[f] = None /\ At(Dest(kind)) = {}
  /\ place' = [place EXCEPT ![f] = Dest(kind)]
  /\ disturbed' = TRUE
  /\ UNCHANGED <<project, run, files, export>>

-----------------------------------------------------------------------------
(* export_evidence_bundle.                                                 *)

(* sidecar: the qualification had one; claimed: the directory a rollback   *)
(* took back; late: the command had returned when the export began.        *)
IdleExport ==
  [pc |-> "idle", sidecar |-> FALSE, config |-> None, canaries |-> None, lock |-> None,
   claimed |-> None, late |-> FALSE]

ExportGoes(e, from, to) ==
  /\ export[e].pc = from
  /\ export' = [export EXCEPT ![e].pc = to]
  /\ UNCHANGED <<project, run, files, disturbed>>

Refuse(e, pc) == ExportGoes(e, pc, "refused") /\ UNCHANGED place

(* The results of a check exist (those of a check-target are elsewhere);   *)
(* an existing destination is refused.                                     *)
CheckDestination(e) ==
  /\ e \in actors /\ export[e].pc = "idle" /\ run.pc \in {"write", "returned", "stopped"} /\ run.next > 0
  /\ export' = [export EXCEPT
       ![e].pc = IF run.command = "check" /\ At(Dest("bundle")) = {}
                 THEN "sidecar" ELSE "refused",
       ![e].late = run.pc = "returned"]
  /\ UNCHANGED <<project, run, files, place, disturbed>>

(* A qualification with a sidecar needs the name of the companion too.     *)
LookForSidecar(e) ==
  LET has == files["paired"] # "absent"
  IN  /\ export[e].pc = "sidecar"
      /\ export' = [export EXCEPT
           ![e].pc = IF has /\ At(Dest("protocol")) # {} THEN "refused" ELSE "artifacts",
           ![e].sidecar = has]
      /\ UNCHANGED <<project, run, files, place, disturbed>>

(* As a file once whole stays so, the three reads are one step.            *)
ReadArtifacts(e) ==
  IF \A artifact \in {"report", "qualification", "provenance"} : files[artifact] = "whole"
  THEN ExportGoes(e, "artifacts", "config") /\ UNCHANGED place
  ELSE Refuse(e, "artifacts")

LoadExportConfig(e) ==
  /\ export[e].pc = "config"
  /\ export' = [export EXCEPT ![e].pc = "canaries", ![e].config = config]
  /\ UNCHANGED <<project, run, files, place, disturbed>>

LoadExportCanaries(e) ==
  /\ export[e].pc = "canaries"
  /\ export' = [export EXCEPT ![e].pc = "lock", ![e].canaries = canaries]
  /\ UNCHANGED <<project, run, files, place, disturbed>>

(* Defect: the project is compared with its lock, not with the run.        *)
SameIdentitiesUnrecorded(e) == Fresh(lock, export[e].config, export[e].canaries)

(* The project is fresh under its lock, and the lock and the canaries are  *)
(* those of the provenance the run recorded.                               *)
SameIdentities(e) ==
  /\ Fresh(lock, export[e].config, export[e].canaries)
  /\ lock.number = run.lock
  /\ export[e].canaries.content = run.canaries.content

CompareIdentities(e) ==
  /\ export[e].pc = "lock"
  /\ export' = [export EXCEPT ![e].pc = IF SameIdentities(e) THEN "stage" ELSE "refused",
                              ![e].lock = lock.number]
  /\ UNCHANGED <<project, run, files, place, disturbed>>

(* The bundle is staged and verified, then its companion; a sidecar that   *)
(* is not whole fails the export, and so may any verification or write.    *)
Stage(e) ==
  \/ ExportGoes(e, "stage", "publish") /\ (export[e].sidecar => files["paired"] = "whole")
     /\ place' = [d \in Directories |->
                    IF d = <<e, "bundle">> \/ (d = <<e, "protocol">> /\ export[e].sidecar)
                    THEN d ELSE place[d]]
  \/ ExportGoes(e, "stage", "failed")
     /\ place' = [place EXCEPT ![<<e, "bundle">>] = <<e, "bundle">>]

PublishBundle(e) ==
  \/ ExportGoes(e, "publish", IF export[e].sidecar THEN "companion" ELSE "done")
     /\ RenameNoReplace(<<e, "bundle">>, Dest("bundle"))
  \/ ExportGoes(e, "publish", "failed")
     /\ At(Dest("bundle")) # {} /\ UNCHANGED place

(* Defect: the bundle is left behind when the companion cannot follow.     *)
PublishCompanionOrLeave(e) ==
  \/ ExportGoes(e, "companion", "done")
     /\ RenameNoReplace(<<e, "protocol">>, Dest("protocol"))
  \/ ExportGoes(e, "companion", "failed")
     /\ At(Dest("protocol")) # {} /\ UNCHANGED place

PublishCompanion(e) ==
  \/ ExportGoes(e, "companion", "done")
     /\ RenameNoReplace(<<e, "protocol">>, Dest("protocol"))
  \/ ExportGoes(e, "companion", "rollback")
     /\ At(Dest("protocol")) # {} /\ UNCHANGED place

(* _rollback_published_directory: whatever has the published name is       *)
(* claimed by a rename, then looked at; what is not ours is put back.      *)
Claim(e) ==
  \/ /\ export[e].pc = "rollback" /\ RenameNoReplace(Dest("bundle"), <<e, "bundle">>)
     /\ \E d \in At(Dest("bundle")) :
          export' = [export EXCEPT
            ![e].pc = IF d = <<e, "bundle">> THEN "failed" ELSE "restore",
            ![e].claimed = d]
     /\ UNCHANGED <<project, run, files, disturbed>>
  \/ ExportGoes(e, "rollback", "failed")
     /\ (At(Dest("bundle")) = {} \/ At(<<e, "bundle">>) # {}) /\ UNCHANGED place

Restore(e) ==
  \/ ExportGoes(e, "restore", "failed")
     /\ RenameNoReplace(<<e, "bundle">>, Dest("bundle"))
  \/ ExportGoes(e, "restore", "failed")
     /\ At(Dest("bundle")) # {} /\ UNCHANGED place

(* Ctrl-C, or the process is killed: nothing is rolled back.               *)
InterruptExport(e) ==
  /\ export[e].pc \notin {"idle", "refused", "failed", "done", "interrupted"}
  /\ export' = [export EXCEPT ![e].pc = "interrupted"]
  /\ UNCHANGED <<project, run, files, place, disturbed>>

ExportStep(e) ==
  \/ CheckDestination(e) \/ LookForSidecar(e) \/ ReadArtifacts(e)
  \/ LoadExportConfig(e) \/ LoadExportCanaries(e) \/ CompareIdentities(e)
  \/ Stage(e) \/ PublishBundle(e) \/ PublishCompanion(e) \/ Claim(e) \/ Restore(e)
  \/ InterruptExport(e)

-----------------------------------------------------------------------------
(* Suites and signals matter to check-target alone, the configuration only *)
(* where it is edited.                                                     *)
ExportInit ==
  /\ actors \in Together
  /\ config \in IF "user" \in actors THEN Configs ELSE {CHOOSE c \in Configs : TRUE}
  /\ canaries \in IF "check-target" \in actors THEN Suites ELSE Edits
  /\ signal \in IF "check-target" \in actors THEN Signals ELSE {{}}
  /\ facts = [k \in {} |-> None]
  /\ lock = [number |-> 1, config |-> config, content |-> canaries.content]
  /\ run = IdleRun
  /\ export = [e \in Exporter |-> IdleExport]
  /\ files = [artifact \in Artifacts |-> "absent"]
  /\ place = [d \in Directories |-> None]
  /\ disturbed = FALSE

OthersStep ==
  /\ "others" \in actors
  /\ \/ \E d \in Directories : MoveAway(d)
     \/ \E f \in Foreign, kind \in Kinds : PutForeign(f, kind)

ExportNext ==
  /\ \/ Edit \/ WriteBaseline \/ RunStep \/ OthersStep
     \/ \E k \in Keys, value \in Values : Learn(k, value)
     \/ \E e \in Exporter : ExportStep(e)
  /\ UNCHANGED actors

ExportSpec == ExportInit /\ [][ExportNext]_exportVars

-----------------------------------------------------------------------------
(* Properties.                                                             *)

Own(e) == {<<e, kind>> : kind \in Kinds}

(* What is staged or published is the evidence of the run: the             *)
(* configuration and the canaries the exporter read from the live project  *)
(* are those the run had read, though the project may have been edited and *)
(* its baseline written again before, between and after the reads; and     *)
(* every payload is whole (export.py:217-395).                             *)
PublishedIsTheRun ==
  \A e \in Exporter : \A d \in Own(e) :
    place[d] # None /\ export[e].pc # "failed" =>
      /\ export[e].config = run.config
      /\ export[e].canaries.content = run.canaries.content
      /\ export[e].lock = run.lock
      /\ \A artifact \in {"report", "qualification", "provenance"} : files[artifact] = "whole"
      /\ d[2] = "protocol" => files["paired"] = "whole"

(* What stands at the destination: after an export that failed nothing of  *)
(* it, unless another exporter's rollback had it in hand meanwhile; and,   *)
(* as long as no other program took part, the bundle and the companion of  *)
(* one exporter, both of them once it returned, if it had seen a sidecar   *)
(* or had begun after the check had returned (export.py:707-762).          *)
DestinationIsOneExport ==
  /\ \A e \in Exporter : export[e].pc \in {"refused", "failed"} =>
       \A d \in Own(e) :
         \/ place[d] \notin {Dest(kind) : kind \in Kinds}
         \/ \E other \in Exporter \ {e} : export[other].claimed = d
  /\ ~disturbed =>
       /\ \A d1, d2 \in Directories :
            place[d1] = Dest("bundle") /\ place[d2] = Dest("protocol") => d1[1] = d2[1]
       /\ \A e \in Exporter : export[e].pc = "done" =>
            /\ place[<<e, "bundle">>] = Dest("bundle")
            /\ export[e].sidecar \/ export[e].late =>
                 place[<<e, "protocol">>] = Dest("protocol")

(* Directories of other programs, and the bundles of other exporters, are  *)
(* never replaced; they leave a published name only at the hand of their   *)
(* owner, or claimed by a rollback, which gives them back unless the name  *)
(* was taken again or it was interrupted (export.py:104-136).              *)
OthersAreKept ==
  \A d \in Directories :
    /\ place[d] \in Names \cup {None}
    /\ \A e \in Exporter :
         place[d] \in Own(e) /\ d \notin Own(e) =>
           /\ export[e].claimed = d
           /\ export[e].pc = "failed" => disturbed

(* What the two commands may say of their artifacts: a receipt stands only *)
(* beside the four artifacts it hashes, and a command that returned left   *)
(* everything but the pricing whole (commands.py:404-468,                  *)
(* targeted_execution/commands.py:81-180).                                 *)
ReceiptVouches ==
  /\ files["receipt"] # "absent" =>
       \A artifact \in {"report", "qualification", "provenance", "paired"} :
         files[artifact] = "whole"
  /\ run.pc = "returned" =>
       \A artifact \in Artifacts \ {"pricing"} :
         (artifact = "receipt" /\ run.command = "check") \/ files[artifact] = "whole"

(* What a check-target ran is enough for whatever the target turns out to  *)
(* be, given the facts it was planned with and all that is learnt while it *)
(* runs and after; what it is judged by never changes under it             *)
(* (planner.py:72-165, matching.py:20-42, planning.py:68-125).             *)
TargetedRunSuffices ==
  run.command = "check-target" /\ run.pc \in {"run", "write", "returned"} =>
    /\ Suffices(run.selected, signal, run.facts, run.canaries.coverage)
    /\ Suffices(run.selected, signal, facts, run.canaries.coverage)
    /\ Assess(signal, facts, run.canaries.coverage).status = "READY"
=============================================================================
