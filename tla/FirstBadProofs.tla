------------------------ MODULE FirstBadProofs ---------------------------
(***************************************************************************)
(* Proofs about the evidence on disk, for every number of exporters, other *)
(* programs and edits: what the artifacts of a command vouch for, what is  *)
(* published, and whose directories a publication and its rollback touch;  *)
(* and about a first-bad scan of any length beside them: what it stages    *)
(* verifies, and what it publishes is true.                                *)
(***************************************************************************)
EXTENDS FirstBad, SequenceTheorems, FiniteSetTheorems, WellFoundedInduction, TLAPS

(* The steps of an exporter: before it compared the identities it has no   *)
(* directory; after, what it read is what the run had read.                *)
Early == {"idle", "sidecar", "artifacts", "config", "canaries", "lock", "refused"}
Compared == {"stage", "publish", "companion", "rollback", "restore", "failed", "done"}
Points == Early \cup Compared \cup {"interrupted"}

Frame(f) ==
  [pc : Points, sidecar : BOOLEAN, config : {f.config}, canaries : {f.canaries},
   lock : {f.lock}, claimed : Directories \cup {None}, late : BOOLEAN]

RunFrame ==
  [pc : {"idle", "canaries", "lock", "run", "write", "returned", "stopped"},
   command : Qualifying \cup {None}, config : {run.config}, canaries : {run.canaries},
   lock : {run.lock}, facts : {run.facts}, selected : {run.selected}, next : 0..6]

Types ==
  /\ run \in RunFrame
  /\ files \in [Artifacts -> {"absent", "partial", "whole"}]
  /\ DOMAIN export = Exporter /\ \A e \in Exporter : export[e] \in Frame(export[e])
  /\ place \in [Directories -> Names \cup {None}]
  /\ disturbed \in BOOLEAN
  /\ lock.number \in Nat

(* The place of an artifact in the order of writing.                       *)
Index(artifact) ==
  CASE artifact = "report" -> 1 [] artifact = "qualification" -> 2
    [] artifact = "provenance" -> 3 [] artifact = "paired" -> 4
    [] artifact = "pricing" -> 5 [] artifact = "receipt" -> 6

LastIndex(command) == IF command = "check" THEN 5 ELSE 6

(* The artifacts before the next one are whole, those after it absent.     *)
FilesInv ==
  \A artifact \in Artifacts :
    /\ run.next = 0 \/ Index(artifact) > run.next => files[artifact] = "absent"
    /\ /\ artifact # "pricing" /\ run.next > 0
       /\ Index(artifact) < run.next \/ (Index(artifact) = run.next /\ run.pc = "returned")
       => files[artifact] = "whole"

RunInv ==
  /\ run.pc \in {"write", "returned"} => run.next > 0
  /\ run.pc \in {"idle", "canaries", "lock", "run"} => run.next = 0
  /\ run.pc # "idle" => run.command \in Qualifying
  /\ run.next > 0 => run.next <= LastIndex(run.command)
  /\ run.pc = "returned" => run.next = LastIndex(run.command)

(* The lock a run has read, as long as it is not replaced, is of the       *)
(* project that the run has read.                                          *)
LockInv ==
  run.pc = "run" \/ run.next > 0 =>
    /\ run.lock \in Nat /\ run.lock <= lock.number
    /\ lock.number = run.lock =>
         lock.config = run.config /\ lock.content = run.canaries.content

-----------------------------------------------------------------------------
Bundle(e) == <<e, "bundle">>
Companion(e) == <<e, "protocol">>
Has(e) == place[Bundle(e)] # None \/ place[Companion(e)] # None

(* What an exporter read is what the run had read, and whole.              *)
Same(e) ==
  /\ export[e].config = run.config
  /\ export[e].canaries.content = run.canaries.content
  /\ export[e].lock = run.lock

Whole == \A artifact \in {"report", "qualification", "provenance"} : files[artifact] = "whole"

EvidenceInv ==
  \A e \in Exporter :
    /\ export[e].pc # "idle" => run.next > 0
    /\ export[e].late => run.pc = "returned"
    /\ export[e].late /\ export[e].pc \notin {"idle", "sidecar", "refused", "interrupted"} =>
         export[e].sidecar
    /\ export[e].pc \in {"config", "canaries", "lock"} \cup Compared \/ Has(e) => Whole
    /\ export[e].pc \in Compared \/ Has(e) => Same(e)
    /\ place[Companion(e)] # None => files["paired"] = "whole"

(* One directory has a name.  A staging name has the directory made under  *)
(* it, or one that its exporter claimed in a rollback.                     *)
PlaceInv ==
  /\ \A d1, d2 \in Directories : place[d1] # None /\ place[d1] = place[d2] => d1 = d2
  /\ \A e \in Exporter : \A d \in Directories :
       /\ place[d] = Companion(e) => d = Companion(e)
       /\ place[d] = Bundle(e) /\ d # Bundle(e) =>
            /\ export[e].claimed = d /\ export[e].pc \in {"restore", "failed", "interrupted"}
            /\ export[e].pc = "failed" => disturbed
  /\ \A e \in Exporter :
       /\ place[Companion(e)] \in {None, Dest("protocol"), Companion(e)}
       /\ place[Bundle(e)] # Dest("protocol")

ClaimedByOther(e) == \E other \in Exporter \ {e} : export[other].claimed = Bundle(e)

(* Where an exporter's own directories are at each step.                   *)
StepInv ==
  \A e \in Exporter :
    /\ export[e].pc \notin {"restore", "failed", "interrupted"} => export[e].claimed = None
    /\ export[e].pc \in Early \cup {"stage"} =>
         place[Bundle(e)] = None /\ place[Companion(e)] = None
    /\ export[e].pc = "publish" =>
         /\ place[Bundle(e)] = Bundle(e)
         /\ place[Companion(e)] = IF export[e].sidecar THEN Companion(e) ELSE None
    /\ export[e].pc \in {"companion", "rollback"} =>
         export[e].sidecar /\ place[Bundle(e)] # Bundle(e) /\ place[Companion(e)] = Companion(e)
    /\ export[e].pc = "restore" => place[Bundle(e)] # Bundle(e)
    /\ export[e].pc \in {"restore", "failed"} =>
         /\ place[Companion(e)] # Dest("protocol")
         /\ place[Bundle(e)] # Dest("bundle") \/ ClaimedByOther(e)

(* Among exporters alone, whoever has published stays where it is, and a   *)
(* rollback finds its own bundle.                                          *)
QuietInv ==
  ~disturbed =>
    /\ \A f \in Foreign : place[f] = None
    /\ \A e \in Exporter :
         /\ export[e].pc # "restore"
         /\ export[e].pc \in {"companion", "rollback", "done"} =>
              place[Bundle(e)] = Dest("bundle")
         /\ place[Companion(e)] = Dest("protocol") => place[Bundle(e)] = Dest("bundle")
         /\ export[e].pc = "done" /\ export[e].sidecar => place[Companion(e)] = Dest("protocol")

IInv ==
  /\ Types /\ FilesInv /\ RunInv /\ LockInv
  /\ EvidenceInv /\ PlaceInv /\ StepInv /\ QuietInv

-----------------------------------------------------------------------------
(* The names: a published one, and two of each exporter, are different.    *)
LEMMA NamesDiffer ==
  /\ \A e \in Exporter : Bundle(e) \in Directories /\ Companion(e) \in Directories
  /\ \A e \in Exporter : Bundle(e) \in Names /\ Companion(e) \in Names
  /\ Dest("bundle") \in Names /\ Dest("protocol") \in Names
  /\ None \notin Names /\ None \notin Directories
  /\ Dest("bundle") # Dest("protocol")
  /\ \A e, o \in Exporter :
       /\ Bundle(e) = Bundle(o) \/ Companion(e) = Companion(o) => e = o
       /\ Bundle(e) # Companion(o)
       /\ Bundle(e) \notin {Dest("bundle"), Dest("protocol")}
       /\ Companion(e) \notin {Dest("bundle"), Dest("protocol")}
       /\ Bundle(e) \notin Foreign /\ Companion(e) \notin Foreign
  /\ \A d \in Directories : d \in Foreign \/ \E e \in Exporter : d \in {Bundle(e), Companion(e)}
BY DirectoriesAssumption DEF Bundle, Companion, Directories, Staging, Kinds, Names, Dest

LEMMA OwnNames == \A e \in Exporter : Own(e) = {Bundle(e), Companion(e)}
BY DEF Own, Kinds, Bundle, Companion

LEMMA ArtifactOrder ==
  ASSUME NEW command \in Qualifying
  PROVE  /\ Len(ArtifactsOf(command)) = LastIndex(command)
         /\ \A i \in 1..LastIndex(command) :
              ArtifactsOf(command)[i] \in Artifacts /\ Index(ArtifactsOf(command)[i]) = i
<1>1. CASE command = "check"
  <2>1. ArtifactsOf(command) = <<"report", "qualification", "provenance", "paired", "pricing">>
    BY <1>1 DEF ArtifactsOf
  <2> QED BY <1>1, <2>1 DEF LastIndex, Index, Artifacts
<1>2. CASE command = "check-target"
  <2> DEFINE first == <<"report", "qualification", "provenance", "paired", "pricing">>
         second == <<"receipt">>
  <2>1. ArtifactsOf(command) = first \o second
    BY <1>2 DEF ArtifactsOf
  <2>2. first \in Seq(Artifacts) /\ second \in Seq(Artifacts)
        /\ Len(first) = 5 /\ Len(second) = 1
    BY DEF Artifacts
  <2>3. \A i \in 1..5 : first[i] \in Artifacts /\ Index(first[i]) = i
    BY DEF Index, Artifacts
  <2>4. second[1] \in Artifacts /\ Index(second[1]) = 6
    BY DEF Index, Artifacts
  <2> HIDE DEF first, second
  <2>5. /\ Len(ArtifactsOf(command)) = 6
        /\ \A i \in 1..6 : ArtifactsOf(command)[i] = IF i <= 5 THEN first[i]
                                                     ELSE second[i - 5]
    <3>1. /\ Len(first \o second) = Len(first) + Len(second)
          /\ \A i \in 1..(Len(first) + Len(second)) : (first \o second)[i] =
               IF i <= Len(first) THEN first[i] ELSE second[i - Len(first)]
      BY <2>2, ConcatProperties
    <3> QED BY <2>1, <2>2, <3>1
  <2> QED BY <1>2, <2>3, <2>4, <2>5 DEF LastIndex
<1> QED BY <1>1, <1>2 DEF Qualifying

LEMMA InitInv == ASSUME ExportInit PROVE IInv
<1>1. Types
  <2>1. run \in RunFrame
    BY DEF ExportInit, IdleRun, RunFrame
  <2>2. IdleExport \in Frame(IdleExport)
    BY DEF IdleExport, Frame, Points, Early
  <2>3. files \in [Artifacts -> {"absent", "partial", "whole"}]
    BY DEF ExportInit
  <2>4. place \in [Directories -> Names \cup {None}]
    BY DEF ExportInit
  <2>5. disturbed \in BOOLEAN /\ lock.number \in Nat
    BY DEF ExportInit
  <2>6. DOMAIN export = Exporter /\ \A e \in Exporter : export[e] = IdleExport
    BY DEF ExportInit
  <2> QED BY <2>1, <2>2, <2>3, <2>4, <2>5, <2>6 DEF Types
<1>2. FilesInv /\ RunInv /\ LockInv
  BY DEF ExportInit, FilesInv, RunInv, LockInv, IdleRun
<1>3. \A d \in Directories : place[d] = None
  BY DEF ExportInit
<1>4. \A e \in Exporter : export[e] = IdleExport
  BY DEF ExportInit
<1>5. EvidenceInv
  BY <1>3, <1>4, NamesDiffer DEF EvidenceInv, IdleExport, Has, Compared
<1>6. PlaceInv
  BY <1>3, NamesDiffer DEF PlaceInv
<1>7. StepInv
  BY <1>3, <1>4, NamesDiffer DEF StepInv, IdleExport
<1>8. QuietInv
  BY <1>3, <1>4, NamesDiffer DEF QuietInv, IdleExport, Directories
<1> QED BY <1>1, <1>2, <1>5, <1>6, <1>7, <1>8 DEF IInv

-----------------------------------------------------------------------------
(* The project and the command that writes.  What the exporters know of    *)
(* the command stays true: what is whole stays whole, and what a command   *)
(* has read it keeps.                                                      *)
LEMMA CommandStep ==
  ASSUME IInv, UNCHANGED exports, (run \in RunFrame)', FilesInv', RunInv', LockInv',
         lock'.number \in Nat,
         files' \in [Artifacts -> {"absent", "partial", "whole"}],
         \A artifact \in Artifacts : files[artifact] = "whole" => files'[artifact] = "whole",
         run.next > 0 =>
           /\ run'.next > 0 /\ run'.config = run.config
           /\ run'.canaries = run.canaries /\ run'.lock = run.lock,
         run.pc = "returned" => run'.pc = "returned"
  PROVE  IInv'
<1>1. export' = export /\ place' = place /\ disturbed' = disturbed
  BY DEF exports
<1>2. Types'
  BY <1>1 DEF IInv, Types, Frame
<1>3. {"report", "qualification", "provenance", "paired"} \subseteq Artifacts
  BY DEF Artifacts
<1>4. Whole => Whole'
  BY <1>3 DEF Whole
<1>5. \A e \in Exporter : (Has(e)' <=> Has(e)) /\ (run.next > 0 /\ Same(e) => Same(e)')
  BY <1>1 DEF Has, Same
<1>6. \A e \in Exporter : export[e].pc \in Compared \/ Has(e) => run.next > 0
  BY NamesDiffer DEF IInv, EvidenceInv, StepInv, Has, Early, Compared
<1>7. EvidenceInv'
  BY <1>1, <1>3, <1>4, <1>5, <1>6 DEF IInv, EvidenceInv
<1>8. PlaceInv'
  BY <1>1 DEF IInv, PlaceInv
<1>9. StepInv'
  BY <1>1 DEF IInv, StepInv, ClaimedByOther
<1>10. QuietInv'
  BY <1>1 DEF IInv, QuietInv
<1> QED BY <1>2, <1>7, <1>8, <1>9, <1>10 DEF IInv

(* The files of the project change, its lock is replaced by a newer one.   *)
LEMMA ProjectInv ==
  ASSUME IInv, Edit \/ WriteBaseline \/ \E k \in Keys, value \in Values : Learn(k, value)
  PROVE  IInv'
<1>1. UNCHANGED <<run, files, exports>>
  BY DEF Edit, WriteBaseline, Learn
<1>2. lock'.number \in Nat /\ LockInv'
  <2>1. CASE lock' = lock
    BY <1>1, <2>1 DEF IInv, Types, LockInv
  <2>2. CASE WriteBaseline
    <3>1. lock'.number = lock.number + 1
      BY <2>2 DEF WriteBaseline
    <3> QED BY <1>1, <3>1 DEF IInv, Types, LockInv
  <2> QED BY <2>1, <2>2 DEF Edit, Learn
<1>3. (run \in RunFrame)' /\ FilesInv' /\ RunInv'
  BY <1>1 DEF IInv, Types, RunFrame, FilesInv, RunInv
<1> QED BY <1>1, <1>2, <1>3, CommandStep DEF IInv, Types

(* The steps of a command before it writes, and its end.                   *)
LEMMA ReadStep ==
  ASSUME IInv, UNCHANGED <<project, files, exports>>, (run \in RunFrame)', RunInv', LockInv',
         run.pc # "returned", run'.pc # "returned",
         run'.next = run.next \/ (run.next = 0 /\ run'.next = 1),
         run.next > 0 => /\ run'.config = run.config /\ run'.canaries = run.canaries
                         /\ run'.lock = run.lock
  PROVE  IInv'
<1>1. \A artifact \in Artifacts : Index(artifact) \in 1..6
  BY DEF Artifacts, Index
<1>2. run.next \in 0..6 /\ lock' = lock
  BY DEF IInv, Types, RunFrame, project
<1>3. FilesInv'
  BY <1>1, <1>2 DEF IInv, FilesInv
<1>4. run.next > 0 => run'.next > 0
  BY <1>2
<1> QED BY <1>2, <1>3, <1>4, CommandStep DEF IInv, Types

LEMMA StartRunInv ==
  ASSUME IInv, NEW command \in Qualifying, StartRun(command) PROVE IInv'
<1>1. /\ run \in RunFrame /\ run.pc = "idle" /\ run.next = 0
      /\ run' = [run EXCEPT !.pc = "canaries", !.command = command, !.facts = facts,
                             !.config = config]
  BY DEF StartRun, IInv, Types, RunInv
<1>2. /\ (run \in RunFrame)' /\ run'.pc = "canaries" /\ run'.next = 0
      /\ run'.command = command
  BY <1>1 DEF RunFrame
<1>3. RunInv' /\ LockInv'
  BY <1>2 DEF RunInv, LockInv
<1> QED BY <1>1, <1>2, <1>3, ReadStep DEF StartRun

LEMMA LoadCanariesInv == ASSUME IInv, LoadCanaries PROVE IInv'
<1>1. /\ run \in RunFrame /\ run.pc = "canaries" /\ run.next = 0 /\ run.command \in Qualifying
      /\ run' = [run EXCEPT !.pc = "lock", !.canaries = canaries]
  BY DEF LoadCanaries, IInv, Types, RunInv
<1>2. /\ (run \in RunFrame)' /\ run'.pc = "lock" /\ run'.next = 0
      /\ run'.command = run.command
  BY <1>1 DEF RunFrame
<1>3. RunInv' /\ LockInv'
  BY <1>1, <1>2 DEF RunInv, LockInv
<1> QED BY <1>1, <1>2, <1>3, ReadStep DEF LoadCanaries

(* The run goes on only under a lock of what it has read.                  *)
LEMMA ReadLockInv == ASSUME IInv, ReadLock PROVE IInv'
<1>1. /\ run \in RunFrame /\ run.pc = "lock" /\ run.next = 0 /\ run.command \in Qualifying
      /\ lock' = lock /\ lock.number \in Nat
      /\ UNCHANGED <<project, files, exports>>
  BY DEF ReadLock, IInv, Types, RunInv, project
<1>2. CASE run' = [run EXCEPT !.pc = "stopped"]
  <2>1. (run \in RunFrame)' /\ run'.pc = "stopped" /\ run'.next = 0 /\ run'.command = run.command
    BY <1>1, <1>2 DEF RunFrame
  <2>2. RunInv' /\ LockInv'
    BY <1>1, <2>1 DEF RunInv, LockInv
  <2> QED BY <1>1, <2>1, <2>2, ReadStep
<1>3. CASE /\ Fresh(lock, run.config, run.canaries)
           /\ \E selected : run' = [run EXCEPT !.pc = "run", !.lock = lock.number,
                                              !.selected = selected]
  <2>1. /\ (run \in RunFrame)' /\ run'.pc = "run" /\ run'.next = 0 /\ run'.command = run.command
        /\ run'.lock = lock.number /\ run'.config = run.config /\ run'.canaries = run.canaries
    BY <1>1, <1>3 DEF RunFrame
  <2>2. RunInv' /\ LockInv'
    BY <1>1, <1>3, <2>1 DEF RunInv, LockInv, Fresh
  <2> QED BY <1>1, <2>1, <2>2, ReadStep
<1> QED BY <1>2, <1>3 DEF ReadLock

LEMMA QualifyInv == ASSUME IInv, Qualify PROVE IInv'
<1>1. /\ run \in RunFrame /\ run.pc = "run" /\ run.next = 0 /\ run.command \in Qualifying
      /\ run' = [run EXCEPT !.pc = "write", !.next = 1] /\ lock' = lock
  BY DEF Qualify, IInv, Types, RunInv, project
<1>2. /\ (run \in RunFrame)' /\ run'.pc = "write" /\ run'.next = 1
      /\ run'.command = run.command /\ run'.lock = run.lock
      /\ run'.config = run.config /\ run'.canaries = run.canaries
  <2>1. PICK one \in 0..6 : one = 1
    OBVIOUS
  <2>2. run' = [run EXCEPT !.pc = "write", !.next = one]
    BY <1>1, <2>1
  <2> QED BY <1>1, <2>1, <2>2 DEF RunFrame
<1>3. RunInv' /\ LockInv'
  BY <1>1, <1>2 DEF RunInv, LockInv, IInv, LastIndex
<1> QED BY <1>1, <1>2, <1>3, ReadStep DEF Qualify

LEMMA StopRunInv == ASSUME IInv, StopRun PROVE IInv'
<1>1. /\ run \in RunFrame /\ run.pc \notin {"idle", "returned"} /\ run.command \in Qualifying
      /\ run' = [run EXCEPT !.pc = "stopped"] /\ lock' = lock
  BY DEF StopRun, IInv, Types, RunInv, project
<1>2. /\ (run \in RunFrame)' /\ run'.pc = "stopped" /\ run'.next = run.next
      /\ run'.command = run.command /\ run'.lock = run.lock
      /\ run'.config = run.config /\ run'.canaries = run.canaries
  BY <1>1 DEF RunFrame
<1>3. RunInv' /\ LockInv'
  BY <1>1, <1>2 DEF RunInv, LockInv, IInv
<1> QED BY <1>1, <1>2, <1>3, ReadStep DEF StopRun

(* The artifact that is written next has the index of the step.            *)
LEMMA NextIndex ==
  ASSUME IInv, run.pc = "write"
  PROVE  /\ run \in RunFrame /\ run.command \in Qualifying /\ run.next > 0
         /\ run.next <= LastIndex(run.command) /\ LastIndex(run.command) \in {5, 6}
         /\ Len(ArtifactsOf(run.command)) = LastIndex(run.command)
         /\ NextArtifact \in Artifacts /\ Index(NextArtifact) = run.next
         /\ \A artifact \in Artifacts :
              Index(artifact) \in 1..6 /\ (Index(artifact) = run.next => artifact = NextArtifact)
<1>1. /\ run \in RunFrame /\ run.command \in Qualifying /\ run.next > 0
      /\ run.next <= LastIndex(run.command) /\ LastIndex(run.command) \in {5, 6}
      /\ run.next \in 1..LastIndex(run.command)
  BY DEF IInv, Types, RunInv, RunFrame, LastIndex
<1>2. /\ Len(ArtifactsOf(run.command)) = LastIndex(run.command)
      /\ NextArtifact \in Artifacts /\ Index(NextArtifact) = run.next
  BY <1>1, ArtifactOrder DEF NextArtifact
<1>3. \A a, b \in Artifacts : Index(a) \in 1..6 /\ (Index(a) = Index(b) => a = b)
  BY DEF Artifacts, Index
<1> QED BY <1>1, <1>2, <1>3

LEMMA OpenArtifactInv == ASSUME IInv, OpenArtifact PROVE IInv'
<1>1. /\ run.pc = "write" /\ files[NextArtifact] = "absent"
      /\ files' = [files EXCEPT ![NextArtifact] = "partial"]
      /\ run' = run /\ lock' = lock /\ UNCHANGED exports
  BY DEF OpenArtifact, project
<1>2. /\ files' \in [Artifacts -> {"absent", "partial", "whole"}]
      /\ \A artifact \in Artifacts :
           files'[artifact] = IF artifact = NextArtifact THEN "partial" ELSE files[artifact]
  BY <1>1, NextIndex DEF IInv, Types
<1>3. FilesInv'
  BY <1>1, <1>2, NextIndex DEF IInv, FilesInv, RunFrame
<1>4. (run \in RunFrame)' /\ RunInv' /\ LockInv'
  BY <1>1 DEF IInv, Types, RunFrame, RunInv, LockInv
<1> QED BY <1>1, <1>2, <1>3, <1>4, CommandStep DEF IInv, Types

(* Going on to the next artifact, or returning after the last.             *)
LEMMA Advances ==
  ASSUME IInv, run.pc = "write", Advance, lock' = lock
  PROVE  /\ (run \in RunFrame)' /\ RunInv' /\ LockInv' /\ run'.next > 0
         /\ run'.config = run.config /\ run'.canaries = run.canaries /\ run'.lock = run.lock
         /\ \/ run'.pc = "returned" /\ run'.next = run.next
            \/ run'.pc = "write" /\ run'.next = run.next + 1
<1>1. CASE run.next = Len(ArtifactsOf(run.command))
  <2>1. run' = [run EXCEPT !.pc = "returned"]
    BY <1>1 DEF Advance
  <2>2. /\ (run \in RunFrame)' /\ run'.pc = "returned" /\ run'.next = run.next
        /\ run'.command = run.command /\ run'.lock = run.lock
        /\ run'.config = run.config /\ run'.canaries = run.canaries
    BY <2>1, NextIndex DEF RunFrame
  <2>3. RunInv' /\ LockInv'
    BY <1>1, <2>2, NextIndex DEF RunInv, LockInv, IInv
  <2> QED BY <2>2, <2>3, NextIndex
<1>2. CASE run.next # Len(ArtifactsOf(run.command))
  <2>1. run' = [run EXCEPT !.next = run.next + 1]
    BY <1>2 DEF Advance
  <2>2. run.next \in 0..6 /\ run.next < LastIndex(run.command) /\ run.next + 1 \in 0..6
    BY <1>2, NextIndex DEF RunFrame
  <2>3. /\ (run \in RunFrame)' /\ run'.pc = "write" /\ run'.next = run.next + 1
        /\ run'.command = run.command /\ run'.lock = run.lock
        /\ run'.config = run.config /\ run'.canaries = run.canaries
    BY <2>1, <2>2, NextIndex DEF RunFrame
  <2>4. RunInv' /\ LockInv'
    BY <2>2, <2>3, NextIndex DEF RunInv, LockInv, IInv
  <2> QED BY <2>2, <2>3, <2>4
<1> QED BY <1>1, <1>2

LEMMA CloseArtifactInv == ASSUME IInv, CloseArtifact PROVE IInv'
<1>1. /\ run.pc = "write" /\ Advance /\ lock' = lock /\ UNCHANGED exports
      /\ files' = [files EXCEPT ![NextArtifact] = "whole"]
  BY DEF CloseArtifact, project
<1>2. /\ files' \in [Artifacts -> {"absent", "partial", "whole"}]
      /\ \A artifact \in Artifacts :
           files'[artifact] = IF artifact = NextArtifact THEN "whole" ELSE files[artifact]
  BY <1>1, NextIndex DEF IInv, Types
<1>3. FilesInv'
  <2>1. run.next \in 0..6
    BY <1>1, NextIndex DEF RunFrame
  <2> QED BY <1>1, <1>2, <2>1, NextIndex, Advances DEF IInv, FilesInv
<1> QED BY <1>1, <1>2, <1>3, Advances, CommandStep DEF IInv, Types

LEMMA GiveUpPricingInv == ASSUME IInv, GiveUpPricing PROVE IInv'
<1>1. /\ run.pc = "write" /\ NextArtifact = "pricing" /\ Advance
      /\ files' = files /\ lock' = lock /\ UNCHANGED exports
  BY DEF GiveUpPricing, project
<1>2. FilesInv'
  <2>1. run.next \in 0..6
    BY <1>1, NextIndex DEF RunFrame
  <2> QED BY <1>1, <2>1, NextIndex, Advances DEF IInv, FilesInv
<1> QED BY <1>1, <1>2, Advances, CommandStep DEF IInv, Types

-----------------------------------------------------------------------------
(* An exporter while it reads: it has no directories yet.                  *)
LEMMA FrameFacts ==
  ASSUME IInv, NEW e \in Exporter, NEW f, f \in Frame(f), export' = [export EXCEPT ![e] = f]
  PROVE  /\ DOMAIN export' = Exporter
         /\ \A o \in Exporter : export'[o] = IF o = e THEN f ELSE export[o]
         /\ (\A o \in Exporter : export[o] \in Frame(export[o]))'
<1>1. /\ DOMAIN export' = Exporter
      /\ \A o \in Exporter : export'[o] = IF o = e THEN f ELSE export[o]
  BY DEF IInv, Types
<1>2. ASSUME NEW o \in Exporter PROVE (export[o] \in Frame(export[o]))'
  BY <1>1 DEF IInv, Types, Frame
<1> QED BY <1>1, <1>2

(* An exporter that goes to another step, and has claimed a directory.     *)
Moved(e, pc, claimed) == [export[e] EXCEPT !.pc = pc, !.claimed = claimed]

LEMMA MovedFrame ==
  ASSUME IInv, NEW e \in Exporter, NEW pc \in Points, NEW claimed \in Directories \cup {None}
  PROVE  /\ Moved(e, pc, claimed) \in Frame(Moved(e, pc, claimed))
         /\ Moved(e, pc, claimed).pc = pc /\ Moved(e, pc, claimed).claimed = claimed
         /\ Moved(e, pc, claimed).config = export[e].config
         /\ Moved(e, pc, claimed).canaries = export[e].canaries
         /\ Moved(e, pc, claimed).lock = export[e].lock
         /\ Moved(e, pc, claimed).sidecar = export[e].sidecar
         /\ Moved(e, pc, claimed).late = export[e].late
<1>1. export[e] \in Frame(export[e])
  BY DEF IInv, Types
<1> QED BY <1>1 DEF Frame, Moved

LEMMA ReadsOn ==
  ASSUME IInv, NEW e \in Exporter, NEW f, f \in Frame(f), export' = [export EXCEPT ![e] = f],
         UNCHANGED <<project, run, files, place, disturbed>>,
         export[e].pc \in Early, f.pc \in Early \cup {"stage"}, f.claimed = export[e].claimed,
         f.pc # "idle" => run.next > 0, f.late => run.pc = "returned",
         f.late /\ f.pc \notin {"idle", "sidecar", "refused"} => f.sidecar,
         f.pc \in {"config", "canaries", "lock", "stage"} => Whole,
         f.pc = "stage" =>
           /\ f.config = run.config /\ f.canaries.content = run.canaries.content
           /\ f.lock = run.lock
  PROVE  IInv'
<1>1. \A o \in Exporter : export'[o] = IF o = e THEN f ELSE export[o]
  BY FrameFacts
<1>2. Types'
  BY FrameFacts DEF IInv, Types, RunFrame, project
<1>3. FilesInv' /\ RunInv' /\ LockInv'
  BY DEF IInv, FilesInv, RunInv, LockInv, project
<1>4. ~Has(e) /\ (Whole' <=> Whole)
  BY DEF IInv, StepInv, Has, Whole
<1>5. \A o \in Exporter : (Has(o)' <=> Has(o)) /\ (o # e => (Same(o)' <=> Same(o)))
  BY <1>1 DEF Has, Same
<1>6. f.pc = "stage" => Same(e)'
  BY <1>1 DEF Same
<1>7. EvidenceInv'
  BY <1>1, <1>4, <1>5, <1>6, NamesDiffer DEF IInv, EvidenceInv, Early, Compared, Has
<1>8. PlaceInv'
  BY <1>1 DEF IInv, PlaceInv, Early
<1>9. StepInv'
  BY <1>1 DEF IInv, StepInv, Early, ClaimedByOther
<1>10. QuietInv'
  BY <1>1 DEF IInv, QuietInv, Early
<1> QED BY <1>2, <1>3, <1>7, <1>8, <1>9, <1>10 DEF IInv

LEMMA Reading ==
  ASSUME IInv, NEW e \in Exporter, export[e].pc \in Early
  PROVE  /\ export[e] \in Frame(export[e]) /\ export[e].claimed \in Directories \cup {None}
         /\ run \in RunFrame
         /\ export[e].pc # "idle" => run.next > 0
         /\ export[e].late => run.pc = "returned"
         /\ export[e].late /\ export[e].pc \notin {"idle", "sidecar", "refused"} =>
              export[e].sidecar
         /\ export[e].pc \in {"config", "canaries", "lock"} => Whole
BY DEF IInv, Types, Frame, EvidenceInv, Early

LEMMA CheckDestinationInv ==
  ASSUME IInv, NEW e \in Exporter, CheckDestination(e) PROVE IInv'
<1>1. PICK f : /\ \E pc \in {"sidecar", "refused"} :
                    f = [export[e] EXCEPT !.pc = pc, !.late = run.pc = "returned"]
               /\ export' = [export EXCEPT ![e] = f]
  BY DEF CheckDestination, IInv, Types, Frame
<1>2. export[e].pc = "idle" /\ run.next > 0 /\ UNCHANGED <<project, run, files, place, disturbed>>
  BY DEF CheckDestination
<1>3. /\ f \in Frame(f) /\ f.pc \in {"sidecar", "refused"} /\ f.claimed = export[e].claimed
      /\ f.late => run.pc = "returned"
  BY <1>1, <1>2, Reading DEF Frame, Points, Early
<1> QED BY <1>1, <1>2, <1>3, ReadsOn DEF Early

(* A command that has returned has left the sidecar whole.                 *)
LEMMA LookForSidecarInv ==
  ASSUME IInv, NEW e \in Exporter, LookForSidecar(e) PROVE IInv'
<1>1. PICK f : /\ \E pc \in {"artifacts", "refused"} :
                    f = [export[e] EXCEPT !.pc = pc, !.sidecar = files["paired"] # "absent"]
               /\ export' = [export EXCEPT ![e] = f]
  BY DEF LookForSidecar, IInv, Types, Frame
<1>2. export[e].pc = "sidecar" /\ UNCHANGED <<project, run, files, place, disturbed>>
  BY DEF LookForSidecar
<1>3. /\ f \in Frame(f) /\ f.pc \in {"artifacts", "refused"} /\ f.claimed = export[e].claimed
      /\ f.late = export[e].late /\ f.sidecar = (files["paired"] # "absent")
  BY <1>1, <1>2, Reading DEF Frame, Points, Early
<1>4. run.pc = "returned" => files["paired"] = "whole"
  BY DEF IInv, FilesInv, RunInv, Artifacts, Index, LastIndex
<1>5. run.next > 0 /\ (export[e].late => run.pc = "returned")
  BY <1>2, Reading DEF Early
<1> QED BY <1>1, <1>2, <1>3, <1>4, <1>5, ReadsOn DEF Early

LEMMA ClaimedTyped ==
  ASSUME IInv, NEW e \in Exporter PROVE export[e].claimed \in Directories \cup {None}
BY DEF IInv, Types, Frame

LEMMA MovesOn ==
  ASSUME IInv, NEW e \in Exporter, NEW pc \in Points,
         export' = [export EXCEPT ![e].pc = pc]
  PROVE  export' = [export EXCEPT ![e] = Moved(e, pc, export[e].claimed)]
BY DEF IInv, Types, Frame, Moved

LEMMA ReadArtifactsInv ==
  ASSUME IInv, NEW e \in Exporter, ReadArtifacts(e) PROVE IInv'
<1>1. /\ export[e].pc = "artifacts" /\ UNCHANGED <<project, run, files, place, disturbed>>
      /\ \E pc \in {"config", "refused"} :
           export' = [export EXCEPT ![e].pc = pc] /\ (pc = "config" => Whole)
  BY DEF ReadArtifacts, ExportGoes, Refuse, Whole
<1>2. PICK pc \in {"config", "refused"} :
        export' = [export EXCEPT ![e].pc = pc] /\ (pc = "config" => Whole)
  BY <1>1
<1>3. pc \in Points /\ export[e].pc \in Early /\ pc \in Early
  BY <1>1 DEF Points, Early
<1> DEFINE f == Moved(e, pc, export[e].claimed)
<1>4. export' = [export EXCEPT ![e] = f]
  BY <1>2, <1>3, MovesOn
<1>5. /\ f \in Frame(f) /\ f.pc = pc /\ f.claimed = export[e].claimed
      /\ f.sidecar = export[e].sidecar /\ f.late = export[e].late
  BY <1>3, ClaimedTyped, MovedFrame
<1> HIDE DEF f
<1> QED BY <1>1, <1>2, <1>3, <1>4, <1>5, Reading, ReadsOn

LEMMA LoadExportConfigInv ==
  ASSUME IInv, NEW e \in Exporter, LoadExportConfig(e) PROVE IInv'
<1>1. PICK f : /\ f = [export[e] EXCEPT !.pc = "canaries", !.config = config]
               /\ export' = [export EXCEPT ![e] = f]
  BY DEF LoadExportConfig, IInv, Types, Frame
<1>2. /\ export[e].pc = "config" /\ export[e].pc \in Early
      /\ UNCHANGED <<project, run, files, place, disturbed>>
  BY DEF LoadExportConfig, Early
<1>3. /\ f \in Frame(f) /\ f.pc = "canaries" /\ f.claimed = export[e].claimed
      /\ f.late = export[e].late /\ f.sidecar = export[e].sidecar
  BY <1>1, <1>2, Reading DEF Frame, Points, Early
<1> QED BY <1>1, <1>2, <1>3, Reading, ReadsOn DEF Early

LEMMA LoadExportCanariesInv ==
  ASSUME IInv, NEW e \in Exporter, LoadExportCanaries(e) PROVE IInv'
<1>1. PICK f : /\ f = [export[e] EXCEPT !.pc = "lock", !.canaries = canaries]
               /\ export' = [export EXCEPT ![e] = f]
  BY DEF LoadExportCanaries, IInv, Types, Frame
<1>2. /\ export[e].pc = "canaries" /\ export[e].pc \in Early
      /\ UNCHANGED <<project, run, files, place, disturbed>>
  BY DEF LoadExportCanaries, Early
<1>3. /\ f \in Frame(f) /\ f.pc = "lock" /\ f.claimed = export[e].claimed
      /\ f.late = export[e].late /\ f.sidecar = export[e].sidecar
  BY <1>1, <1>2, Reading DEF Frame, Points, Early
<1> QED BY <1>1, <1>2, <1>3, Reading, ReadsOn DEF Early

(* A project that is fresh under the lock of the run is the run's.         *)
LEMMA CompareIdentitiesInv ==
  ASSUME IInv, NEW e \in Exporter, CompareIdentities(e) PROVE IInv'
<1>1. PICK f : /\ f = [export[e] EXCEPT !.pc = IF SameIdentities(e) THEN "stage" ELSE "refused",
                                        !.lock = lock.number]
               /\ export' = [export EXCEPT ![e] = f]
  BY DEF CompareIdentities, IInv, Types, Frame
<1>2. /\ export[e].pc = "lock" /\ export[e].pc \in Early
      /\ UNCHANGED <<project, run, files, place, disturbed>>
  BY DEF CompareIdentities, Early
<1>3. /\ f \in Frame(f) /\ f.pc = (IF SameIdentities(e) THEN "stage" ELSE "refused")
      /\ f.claimed = export[e].claimed /\ f.lock = lock.number
      /\ f.config = export[e].config /\ f.canaries = export[e].canaries
      /\ f.late = export[e].late /\ f.sidecar = export[e].sidecar
  BY ZenonT(40), <1>1, <1>2, Reading DEF Frame, Points, Early, Compared
<1>4. f.pc = "stage" =>
        /\ f.config = run.config /\ f.canaries.content = run.canaries.content
        /\ f.lock = run.lock
  BY <1>2, <1>3, Reading DEF SameIdentities, Fresh, IInv, LockInv
<1> QED BY ZenonT(40), <1>1, <1>2, <1>3, <1>4, Reading, ReadsOn DEF Early

-----------------------------------------------------------------------------
(* An exporter with directories of its own: of what it knows of the run    *)
(* nothing changes, so that it is left to see where directories go.        *)
LEMMA Places ==
  ASSUME IInv, NEW e \in Exporter, NEW pc \in Compared \cup {"interrupted"},
         NEW claimed \in Directories \cup {None},
         export' = [export EXCEPT ![e] = Moved(e, pc, claimed)],
         export[e].pc # "idle", pc = "interrupted" \/ export[e].pc \in Compared,
         UNCHANGED <<project, run, files, disturbed>>,
         place' \in [Directories -> Names \cup {None}],
         \A o \in Exporter : Has(o)' => Has(o) \/ (o = e /\ export[e].pc \in Compared),
         \A o \in Exporter :
           place'[Companion(o)] # None => place[Companion(o)] # None \/ files["paired"] = "whole",
         PlaceInv', StepInv', QuietInv'
  PROVE  IInv'
<1> DEFINE f == Moved(e, pc, claimed)
<1>1. pc \in Points
  BY DEF Points
<1>2. /\ f \in Frame(f) /\ f.pc = pc
      /\ f.config = export[e].config /\ f.canaries = export[e].canaries
      /\ f.lock = export[e].lock /\ f.sidecar = export[e].sidecar /\ f.late = export[e].late
  BY <1>1, MovedFrame
<1> HIDE DEF f
<1>3. export' = [export EXCEPT ![e] = f]
  BY DEF f
<1>4. \A o \in Exporter : export'[o] = IF o = e THEN f ELSE export[o]
  BY <1>2, <1>3, FrameFacts
<1>5. Types'
  BY <1>2, <1>3, FrameFacts DEF IInv, Types, RunFrame, project
<1>6. FilesInv' /\ RunInv' /\ LockInv'
  BY DEF IInv, FilesInv, RunInv, LockInv, project
<1>7. (Whole' <=> Whole) /\ \A o \in Exporter : Same(o)' <=> Same(o)
  BY <1>2, <1>4 DEF Whole, Same
<1>8. EvidenceInv'
  <2> SUFFICES ASSUME NEW o \in Exporter
               PROVE
      (/\ export[o].pc # "idle" => run.next > 0
       /\ export[o].late => run.pc = "returned"
       /\ export[o].late /\ export[o].pc \notin {"idle", "sidecar", "refused", "interrupted"} =>
            export[o].sidecar
       /\ export[o].pc \in {"config", "canaries", "lock"} \cup Compared \/ Has(o) => Whole
       /\ export[o].pc \in Compared \/ Has(o) => Same(o)
       /\ place[Companion(o)] # None => files["paired"] = "whole")'
    BY DEF EvidenceInv
  <2>1. CASE o = e
    BY <1>2, <1>4, <1>7, <2>1 DEF IInv, EvidenceInv, Compared
  <2>2. CASE o # e
    BY <1>4, <1>7, <2>2 DEF IInv, EvidenceInv
  <2> QED BY <2>1, <2>2
<1> QED BY <1>5, <1>6, <1>8 DEF IInv

(* The exporters after such a step.                                        *)
LEMMA ClaimsDirectory ==
  ASSUME IInv, NEW e \in Exporter, NEW pc \in Points, NEW claimed \in Directories \cup {None},
         export' = [export EXCEPT ![e] = Moved(e, pc, claimed)]
  PROVE  /\ export'[e].pc = pc /\ export'[e].claimed = claimed
         /\ export'[e].sidecar = export[e].sidecar
         /\ \A o \in Exporter \ {e} : export'[o] = export[o]
<1>1. DOMAIN export = Exporter
  BY DEF IInv, Types
<1> QED BY <1>1, MovedFrame

LEMMA Goes ==
  ASSUME IInv, NEW e \in Exporter, NEW pc \in Points, export' = [export EXCEPT ![e].pc = pc]
  PROVE  /\ export' = [export EXCEPT ![e] = Moved(e, pc, export[e].claimed)]
         /\ export'[e].pc = pc /\ export'[e].claimed = export[e].claimed
         /\ export'[e].sidecar = export[e].sidecar
         /\ \A o \in Exporter \ {e} : export'[o] = export[o]
<1> DEFINE claimed == export[e].claimed
<1>1. export' = [export EXCEPT ![e] = Moved(e, pc, claimed)]
  BY MovesOn
<1>2. claimed \in Directories \cup {None}
  BY ClaimedTyped
<1> HIDE DEF claimed
<1>3. /\ export'[e].pc = pc /\ export'[e].claimed = claimed
      /\ export'[e].sidecar = export[e].sidecar
      /\ \A o \in Exporter \ {e} : export'[o] = export[o]
  BY <1>1, <1>2, ClaimsDirectory
<1> QED BY <1>1, <1>3 DEF claimed

LEMMA InterruptExportInv ==
  ASSUME IInv, NEW e \in Exporter, InterruptExport(e) PROVE IInv'
<1>1. /\ export[e].pc # "idle" /\ UNCHANGED <<project, run, files, place, disturbed>>
      /\ export' = [export EXCEPT ![e].pc = "interrupted"]
  BY DEF InterruptExport
<1>2. "interrupted" \in Points
  BY DEF Points
<1>3. /\ export' = [export EXCEPT ![e] = Moved(e, "interrupted", export[e].claimed)]
      /\ export'[e].pc = "interrupted" /\ export'[e].claimed = export[e].claimed
      /\ \A o \in Exporter \ {e} : export'[o] = export[o]
  BY <1>1, <1>2, Goes
<1>4. PlaceInv'
  BY <1>1, <1>3 DEF IInv, PlaceInv
<1>5. StepInv'
  BY <1>1, <1>3 DEF IInv, StepInv, ClaimedByOther, Early
<1>6. QuietInv'
  BY <1>1, <1>3 DEF IInv, QuietInv
<1>7. \A o \in Exporter : Has(o)' <=> Has(o)
  BY <1>1 DEF Has
<1>8. place' \in [Directories -> Names \cup {None}]
  BY <1>1 DEF IInv, Types
<1>9. export[e].claimed \in Directories \cup {None}
  BY ClaimedTyped
<1> QED BY <1>1, <1>3, <1>4, <1>5, <1>6, <1>7, <1>8, <1>9, Places

(* A step that claims nothing, between two points after the comparison.    *)
LEMMA GoesInv ==
  ASSUME IInv, NEW e \in Exporter, NEW to \in Compared, export[e].pc \in Compared,
         export' = [export EXCEPT ![e].pc = to],
         UNCHANGED <<project, run, files, disturbed>>,
         place' \in [Directories -> Names \cup {None}],
         \A o \in Exporter : Has(o)' => Has(o) \/ o = e,
         \A o \in Exporter :
           place'[Companion(o)] # None => place[Companion(o)] # None \/ files["paired"] = "whole",
         PlaceInv', StepInv', QuietInv'
  PROVE  IInv'
<1> DEFINE claimed == export[e].claimed
<1>1. to \in Points /\ export[e].pc # "idle"
  BY DEF Points, Compared
<1>2. export' = [export EXCEPT ![e] = Moved(e, to, claimed)]
  BY <1>1, Goes
<1>3. claimed \in Directories \cup {None}
  BY ClaimedTyped
<1> HIDE DEF claimed
<1> QED BY <1>1, <1>2, <1>3, Places

(* The bundle, and the companion where there was a sidecar, are staged     *)
(* under their own names, which no other directory has.                    *)
LEMMA StageInv ==
  ASSUME IInv, NEW e \in Exporter, Stage(e) PROVE IInv'
<1>1. /\ export[e].pc = "stage" /\ UNCHANGED <<project, run, files, disturbed>>
      /\ place[Bundle(e)] = None /\ place[Companion(e)] = None
  BY DEF Stage, ExportGoes, IInv, StepInv
<1>2. \A d \in Directories : place[d] # Bundle(e) /\ place[d] # Companion(e)
  BY <1>1, NamesDiffer DEF IInv, PlaceInv
<1>3. PICK to \in {"publish", "failed"}, companion \in BOOLEAN :
        /\ export' = [export EXCEPT ![e].pc = to]
        /\ place' = [d \in Directories |-> place'[d]]
        /\ \A d \in Directories :
             place'[d] = IF d = Bundle(e) \/ (d = Companion(e) /\ companion) THEN d ELSE place[d]
        /\ to = "publish" => companion = export[e].sidecar
        /\ to = "failed" => ~companion
        /\ companion => files["paired"] = "whole"
  <2>1. export[e].sidecar \in BOOLEAN /\ DOMAIN place = Directories
    BY DEF IInv, Types, Frame
  <2>2. CASE /\ ExportGoes(e, "stage", "publish") /\ (export[e].sidecar => files["paired"] = "whole")
             /\ place' = [d \in Directories |->
                            IF d = <<e, "bundle">> \/ (d = <<e, "protocol">> /\ export[e].sidecar)
                            THEN d ELSE place[d]]
    <3>1. /\ place' = [d \in Directories |-> place'[d]]
          /\ \A d \in Directories :
               place'[d] = IF d = Bundle(e) \/ (d = Companion(e) /\ export[e].sidecar)
                           THEN d ELSE place[d]
      BY <2>2 DEF Bundle, Companion
    <3> QED BY <2>1, <2>2, <3>1 DEF ExportGoes
  <2>3. CASE /\ ExportGoes(e, "stage", "failed")
             /\ place' = [place EXCEPT ![<<e, "bundle">>] = <<e, "bundle">>]
    <3>1. /\ place' = [d \in Directories |-> place'[d]]
          /\ \A d \in Directories : place'[d] = IF d = Bundle(e) THEN d ELSE place[d]
      BY <2>1, <2>3 DEF Bundle
    <3> QED BY <2>3, <3>1 DEF ExportGoes
  <2> QED BY <2>2, <2>3 DEF Stage
<1>4. to \in Points /\ to \in Compared /\ export[e].pc \in Compared
  BY <1>1 DEF Points, Compared
<1>5. /\ export'[e].pc = to /\ export'[e].claimed = export[e].claimed
      /\ export'[e].sidecar = export[e].sidecar
      /\ \A o \in Exporter \ {e} : export'[o] = export[o]
  BY <1>3, <1>4, Goes
<1>6. export[e].claimed = None
  BY <1>1 DEF IInv, StepInv
<1>7. place' \in [Directories -> Names \cup {None}]
  <2>1. \A d \in Directories : place[d] \in Names \cup {None}
    BY DEF IInv, Types
  <2>2. \A d \in Directories : place'[d] \in Names \cup {None}
    BY <1>3, <2>1, NamesDiffer
  <2> QED BY <1>3, <2>2
<1>8. PlaceInv'
  <2>1. ASSUME NEW d1 \in Directories, NEW d2 \in Directories,
               place'[d1] # None, place'[d1] = place'[d2]
        PROVE  d1 = d2
    BY <1>2, <1>3, <2>1, NamesDiffer DEF IInv, PlaceInv
  <2>2. ASSUME NEW o \in Exporter, NEW d \in Directories
        PROVE  /\ place'[d] = Companion(o) => d = Companion(o)
               /\ place'[d] = Bundle(o) /\ d # Bundle(o) =>
                    place[d] = Bundle(o) /\ o # e
    BY <1>2, <1>3, <2>2, NamesDiffer DEF IInv, PlaceInv
  <2>3. ASSUME NEW o \in Exporter
        PROVE  /\ place'[Companion(o)] \in {None, Dest("protocol"), Companion(o)}
               /\ place'[Bundle(o)] # Dest("protocol")
    BY <1>3, <2>3, NamesDiffer DEF IInv, PlaceInv
  <2> QED BY <1>1, <1>5, <2>1, <2>2, <2>3 DEF IInv, PlaceInv
<1>9. /\ place'[Bundle(e)] = Bundle(e)
      /\ place'[Companion(e)] = IF companion THEN Companion(e) ELSE None
      /\ \A o \in Exporter \ {e} :
           place'[Bundle(o)] = place[Bundle(o)] /\ place'[Companion(o)] = place[Companion(o)]
      /\ \A f \in Foreign : place'[f] = place[f]
  BY <1>1, <1>3, NamesDiffer DEF Directories
<1>10. StepInv'
  <2>1. \A o \in Exporter \ {e} : ClaimedByOther(o) => ClaimedByOther(o)'
    BY <1>5, <1>6, NamesDiffer DEF ClaimedByOther
  <2> QED BY <1>3, <1>5, <1>6, <1>9, <2>1, NamesDiffer DEF IInv, StepInv, Early
<1>11. QuietInv'
  BY <1>1, <1>3, <1>5, <1>9, NamesDiffer DEF IInv, QuietInv
<1>12. \A o \in Exporter : Has(o)' => Has(o) \/ o = e
  BY <1>9 DEF Has
<1>13. \A o \in Exporter :
         place'[Companion(o)] # None => place[Companion(o)] # None \/ files["paired"] = "whole"
  BY <1>3, <1>9
<1> QED BY <1>1, <1>3, <1>4, <1>7, <1>8, <1>10, <1>11, <1>12, <1>13, GoesInv

(* A rename moves the one directory that has the name to a name that       *)
(* nobody has.                                                             *)
LEMMA Renamed ==
  ASSUME IInv, NEW from \in Names, NEW to \in Names, RenameNoReplace(from, to)
  PROVE  \E d0 \in Directories :
           /\ place[d0] = from /\ \A d \in Directories : place[d] # to
           /\ \A d \in Directories : place[d] = from => d = d0
           /\ \A d \in Directories : place'[d] = IF d = d0 THEN to ELSE place[d]
           /\ place' \in [Directories -> Names \cup {None}]
           /\ \A d1, d2 \in Directories :
                place'[d1] # None /\ place'[d1] = place'[d2] => d1 = d2
           /\ \A o \in Exporter :
                (Has(o)' => Has(o)) /\ (place'[Companion(o)] # None => place[Companion(o)] # None)
<1>1. PICK d0 \in Directories : place[d0] = from
  BY DEF RenameNoReplace, At
<1>2. /\ from # None /\ to # None
      /\ \A d1, d2 \in Directories : place[d1] # None /\ place[d1] = place[d2] => d1 = d2
      /\ place \in [Directories -> Names \cup {None}]
  BY NamesDiffer DEF IInv, PlaceInv, Types
<1>3. \A d \in Directories : place[d] = from => d = d0
  BY <1>1, <1>2
<1>4. \A d \in Directories : place[d] # to
  BY DEF RenameNoReplace, At
<1>5. place' = [d \in Directories |-> IF d = d0 THEN to ELSE place[d]]
  BY <1>1, <1>3 DEF RenameNoReplace
<1>6. place' \in [Directories -> Names \cup {None}]
  BY <1>2, <1>5
<1>7. \A o \in Exporter :
        (Has(o)' => Has(o)) /\ (place'[Companion(o)] # None => place[Companion(o)] # None)
  BY <1>1, <1>2, <1>5, NamesDiffer DEF Has
<1> QED BY <1>1, <1>2, <1>3, <1>4, <1>5, <1>6, <1>7

(* The bundle has left its staging name for the published one.             *)
LEMMA PublishBundleInv ==
  ASSUME IInv, NEW e \in Exporter, PublishBundle(e) PROVE IInv'
<1>1. /\ export[e].pc = "publish" /\ UNCHANGED <<project, run, files, disturbed>>
      /\ place[Bundle(e)] = Bundle(e)
      /\ place[Companion(e)] = IF export[e].sidecar THEN Companion(e) ELSE None
      /\ export[e].claimed = None /\ export[e].pc \in Compared
  BY DEF PublishBundle, ExportGoes, IInv, StepInv, Compared
<1>2. CASE /\ ExportGoes(e, "publish", IF export[e].sidecar THEN "companion" ELSE "done")
           /\ RenameNoReplace(<<e, "bundle">>, Dest("bundle"))
  <2>1. PICK to \in {"companion", "done"} :
          /\ export' = [export EXCEPT ![e].pc = to]
          /\ (to = "companion") <=> export[e].sidecar
    BY <1>2 DEF ExportGoes, IInv, Types, Frame
  <2>2. to \in Points /\ to \in Compared
    BY DEF Points, Compared
  <2>3. /\ export'[e].pc = to /\ export'[e].claimed = export[e].claimed
        /\ export'[e].sidecar = export[e].sidecar
        /\ \A o \in Exporter \ {e} : export'[o] = export[o]
    BY <2>1, <2>2, Goes
  <2>4. RenameNoReplace(Bundle(e), Dest("bundle"))
    BY <1>2 DEF Bundle
  <2>5. PICK d0 \in Directories :
           /\ place[d0] = Bundle(e)
           /\ \A d \in Directories : place[d] = Bundle(e) => d = d0
           /\ \A d \in Directories :
                place'[d] = IF d = d0 THEN Dest("bundle") ELSE place[d]
           /\ place' \in [Directories -> Names \cup {None}]
           /\ \A d1, d2 \in Directories :
                place'[d1] # None /\ place'[d1] = place'[d2] => d1 = d2
           /\ \A o \in Exporter :
                (Has(o)' => Has(o)) /\ (place'[Companion(o)] # None => place[Companion(o)] # None)
    BY <2>4, NamesDiffer, Renamed
  <2>6. d0 = Bundle(e)
    BY <1>1, <2>5, NamesDiffer
  <2>7. /\ place'[Bundle(e)] = Dest("bundle") /\ place'[Companion(e)] = place[Companion(e)]
        /\ \A o \in Exporter \ {e} :
             place'[Bundle(o)] = place[Bundle(o)] /\ place'[Companion(o)] = place[Companion(o)]
        /\ \A f \in Foreign : place'[f] = place[f]
    BY <2>5, <2>6, NamesDiffer DEF Directories
  <2>8. PlaceInv'
    <3>1. ASSUME NEW o \in Exporter, NEW d \in Directories
          PROVE  /\ place'[d] = Companion(o) => d = Companion(o)
                 /\ place'[d] = Bundle(o) /\ d # Bundle(o) => place[d] = Bundle(o) /\ o # e
      BY <1>1, <2>5, <2>6, <3>1, NamesDiffer DEF IInv, PlaceInv
    <3>2. ASSUME NEW o \in Exporter
          PROVE  /\ place'[Companion(o)] \in {None, Dest("protocol"), Companion(o)}
                 /\ place'[Bundle(o)] # Dest("protocol")
      BY <2>7, NamesDiffer DEF IInv, PlaceInv
    <3> QED BY <1>1, <2>3, <2>5, <3>1, <3>2 DEF IInv, PlaceInv
  <2>9. StepInv'
    <3>1. \A o \in Exporter \ {e} : ClaimedByOther(o) => ClaimedByOther(o)'
      BY <1>1, <2>3, NamesDiffer DEF ClaimedByOther
    <3> QED BY <1>1, <2>1, <2>3, <2>7, <3>1, NamesDiffer DEF IInv, StepInv, Early
  <2>10. QuietInv'
    BY <1>1, <2>1, <2>3, <2>7, NamesDiffer DEF IInv, QuietInv
  <2> QED BY <1>1, <2>1, <2>2, <2>5, <2>8, <2>9, <2>10, GoesInv
<1>3. CASE ExportGoes(e, "publish", "failed") /\ UNCHANGED place
  <2>1. "failed" \in Points /\ "failed" \in Compared
    BY DEF Points, Compared
  <2>2. export' = [export EXCEPT ![e].pc = "failed"] /\ place' = place
    BY <1>3 DEF ExportGoes
  <2>3. /\ export'[e].pc = "failed" /\ export'[e].claimed = export[e].claimed
        /\ export'[e].sidecar = export[e].sidecar
        /\ \A o \in Exporter \ {e} : export'[o] = export[o]
    BY <2>1, <2>2, Goes
  <2>4. PlaceInv'
    BY <1>1, <2>2, <2>3 DEF IInv, PlaceInv
  <2>5. StepInv'
    BY <1>1, <2>2, <2>3, NamesDiffer DEF IInv, StepInv, Early, ClaimedByOther
  <2>6. QuietInv'
    BY <1>1, <2>2, <2>3, NamesDiffer DEF IInv, QuietInv
  <2>7. /\ place' \in [Directories -> Names \cup {None}]
        /\ \A o \in Exporter : Has(o)' => Has(o)
    BY <2>2 DEF IInv, Types, Has
  <2> QED BY <1>1, <2>1, <2>2, <2>4, <2>5, <2>6, <2>7, GoesInv
<1> QED BY <1>2, <1>3 DEF PublishBundle

(* The companion follows it, or the bundle is to be rolled back.           *)
LEMMA PublishCompanionInv ==
  ASSUME IInv, NEW e \in Exporter, PublishCompanion(e) PROVE IInv'
<1>1. /\ export[e].pc = "companion" /\ UNCHANGED <<project, run, files, disturbed>>
      /\ export[e].sidecar /\ place[Bundle(e)] # Bundle(e)
      /\ place[Companion(e)] = Companion(e)
      /\ export[e].claimed = None /\ export[e].pc \in Compared
      /\ ~disturbed => place[Bundle(e)] = Dest("bundle")
  BY DEF PublishCompanion, ExportGoes, IInv, StepInv, QuietInv, Compared
<1>2. CASE /\ ExportGoes(e, "companion", "done")
           /\ RenameNoReplace(<<e, "protocol">>, Dest("protocol"))
  <2>1. export' = [export EXCEPT ![e].pc = "done"]
    BY <1>2 DEF ExportGoes
  <2>2. "done" \in Points /\ "done" \in Compared
    BY DEF Points, Compared
  <2>3. /\ export'[e].pc = "done" /\ export'[e].claimed = export[e].claimed
        /\ export'[e].sidecar = export[e].sidecar
        /\ \A o \in Exporter \ {e} : export'[o] = export[o]
    BY <2>1, <2>2, Goes
  <2>4. RenameNoReplace(Companion(e), Dest("protocol"))
    BY <1>2 DEF Companion
  <2>5. PICK d0 \in Directories :
           /\ place[d0] = Companion(e)
           /\ \A d \in Directories : place[d] = Companion(e) => d = d0
           /\ \A d \in Directories :
                place'[d] = IF d = d0 THEN Dest("protocol") ELSE place[d]
           /\ place' \in [Directories -> Names \cup {None}]
           /\ \A d1, d2 \in Directories :
                place'[d1] # None /\ place'[d1] = place'[d2] => d1 = d2
           /\ \A o \in Exporter :
                (Has(o)' => Has(o)) /\ (place'[Companion(o)] # None => place[Companion(o)] # None)
    BY <2>4, NamesDiffer, Renamed
  <2>6. d0 = Companion(e)
    BY <1>1, <2>5, NamesDiffer
  <2>7. /\ place'[Companion(e)] = Dest("protocol") /\ place'[Bundle(e)] = place[Bundle(e)]
        /\ \A o \in Exporter \ {e} :
             place'[Bundle(o)] = place[Bundle(o)] /\ place'[Companion(o)] = place[Companion(o)]
        /\ \A f \in Foreign : place'[f] = place[f]
    BY <2>5, <2>6, NamesDiffer DEF Directories
  <2>8. PlaceInv'
    <3>1. ASSUME NEW o \in Exporter, NEW d \in Directories
          PROVE  /\ place'[d] = Companion(o) => d = Companion(o)
                 /\ place'[d] = Bundle(o) /\ d # Bundle(o) => place[d] = Bundle(o) /\ o # e
      BY <1>1, <2>5, <2>6, <3>1, NamesDiffer DEF IInv, PlaceInv
    <3>2. ASSUME NEW o \in Exporter
          PROVE  /\ place'[Companion(o)] \in {None, Dest("protocol"), Companion(o)}
                 /\ place'[Bundle(o)] # Dest("protocol")
      BY <2>7, NamesDiffer DEF IInv, PlaceInv
    <3> QED BY <1>1, <2>3, <2>5, <3>1, <3>2 DEF IInv, PlaceInv
  <2>9. StepInv'
    <3>1. \A o \in Exporter \ {e} : ClaimedByOther(o) => ClaimedByOther(o)'
      BY <1>1, <2>3, NamesDiffer DEF ClaimedByOther
    <3> QED BY <1>1, <2>3, <2>7, <3>1, NamesDiffer DEF IInv, StepInv, Early
  <2>10. QuietInv'
    BY <1>1, <2>3, <2>7, NamesDiffer DEF IInv, QuietInv
  <2> QED BY <1>1, <2>1, <2>2, <2>5, <2>8, <2>9, <2>10, GoesInv
<1>3. CASE ExportGoes(e, "companion", "rollback") /\ UNCHANGED place
  <2>1. "rollback" \in Points /\ "rollback" \in Compared
    BY DEF Points, Compared
  <2>2. export' = [export EXCEPT ![e].pc = "rollback"] /\ place' = place
    BY <1>3 DEF ExportGoes
  <2>3. /\ export'[e].pc = "rollback" /\ export'[e].claimed = export[e].claimed
        /\ export'[e].sidecar = export[e].sidecar
        /\ \A o \in Exporter \ {e} : export'[o] = export[o]
    BY <2>1, <2>2, Goes
  <2>4. PlaceInv'
    BY <1>1, <2>2, <2>3 DEF IInv, PlaceInv
  <2>5. StepInv'
    BY <1>1, <2>2, <2>3, NamesDiffer DEF IInv, StepInv, Early, ClaimedByOther
  <2>6. QuietInv'
    BY <1>1, <2>2, <2>3, NamesDiffer DEF IInv, QuietInv
  <2>7. /\ place' \in [Directories -> Names \cup {None}]
        /\ \A o \in Exporter : Has(o)' => Has(o)
    BY <2>2 DEF IInv, Types, Has
  <2> QED BY <1>1, <2>1, <2>2, <2>4, <2>5, <2>6, <2>7, GoesInv
<1> QED BY <1>2, <1>3 DEF PublishCompanion

(* A rollback takes what has the published name: its own bundle, or one    *)
(* that it is to give back.                                                *)
LEMMA ClaimInv ==
  ASSUME IInv, NEW e \in Exporter, Claim(e) PROVE IInv'
<1>1. /\ export[e].pc = "rollback" /\ UNCHANGED <<project, run, files, disturbed>>
      /\ place[Bundle(e)] # Bundle(e) /\ place[Companion(e)] = Companion(e)
      /\ export[e].claimed = None /\ export[e].pc \in Compared /\ export[e].pc # "idle"
      /\ ~disturbed => place[Bundle(e)] = Dest("bundle")
  BY DEF Claim, ExportGoes, IInv, StepInv, QuietInv, Compared
<1>2. CASE /\ RenameNoReplace(Dest("bundle"), <<e, "bundle">>)
           /\ \E d \in At(Dest("bundle")) :
                export' = [export EXCEPT
                  ![e].pc = IF d = <<e, "bundle">> THEN "failed" ELSE "restore",
                  ![e].claimed = d]
  <2>1. RenameNoReplace(Dest("bundle"), Bundle(e))
    BY <1>2 DEF Bundle
  <2>2. PICK d0 \in Directories :
           /\ place[d0] = Dest("bundle")
           /\ \A d \in Directories : place[d] = Dest("bundle") => d = d0
           /\ \A d \in Directories :
                place'[d] = IF d = d0 THEN Bundle(e) ELSE place[d]
           /\ place' \in [Directories -> Names \cup {None}]
           /\ \A d1, d2 \in Directories :
                place'[d1] # None /\ place'[d1] = place'[d2] => d1 = d2
           /\ \A o \in Exporter :
                (Has(o)' => Has(o)) /\ (place'[Companion(o)] # None => place[Companion(o)] # None)
    BY <2>1, NamesDiffer, Renamed
  <2>3. PICK to \in {"failed", "restore"} :
          /\ export' = [export EXCEPT ![e].pc = to, ![e].claimed = d0]
          /\ to = "failed" <=> d0 = Bundle(e)
    BY <1>2, <2>2 DEF At, Bundle
  <2>4. to \in Points /\ to \in Compared /\ d0 \in Directories \cup {None}
    BY DEF Points, Compared
  <2>5. export' = [export EXCEPT ![e] = Moved(e, to, d0)]
    <3>1. DOMAIN export = Exporter /\ export[e] \in Frame(export[e])
      BY DEF IInv, Types
    <3> QED BY <2>3, <3>1 DEF Frame, Moved
  <2>6. /\ export'[e].pc = to /\ export'[e].claimed = d0
        /\ export'[e].sidecar = export[e].sidecar
        /\ \A o \in Exporter \ {e} : export'[o] = export[o]
    BY <2>4, <2>5, ClaimsDirectory
  <2>7. \A o \in Exporter : d0 # Companion(o)
    BY <2>2, NamesDiffer DEF IInv, PlaceInv
  <2>8. \A o \in Exporter :
          /\ place'[Companion(o)] = place[Companion(o)]
          /\ place'[Bundle(o)] = IF d0 = Bundle(o) THEN Bundle(e) ELSE place[Bundle(o)]
    BY <2>2, <2>7, NamesDiffer
  <2>9. ~disturbed => d0 = Bundle(e)
    BY <1>1, <2>2, NamesDiffer
  <2>10. PlaceInv'
    <3>1. ASSUME NEW o \in Exporter, NEW d \in Directories
          PROVE  /\ place'[d] = Companion(o) => d = Companion(o)
                 /\ place'[d] = Bundle(o) /\ d # Bundle(o) =>
                      \/ place[d] = Bundle(o) /\ o # e
                      \/ o = e /\ d = d0
      BY <1>1, <2>2, <3>1, NamesDiffer DEF IInv, PlaceInv
    <3>2. ASSUME NEW o \in Exporter
          PROVE  /\ place'[Companion(o)] \in {None, Dest("protocol"), Companion(o)}
                 /\ place'[Bundle(o)] # Dest("protocol")
      BY <2>8, NamesDiffer DEF IInv, PlaceInv
    <3>3. ASSUME NEW o \in Exporter, NEW d \in Directories, place'[d] = Bundle(o), d # Bundle(o)
          PROVE  /\ export'[o].claimed = d /\ export'[o].pc \in {"restore", "failed", "interrupted"}
                 /\ export'[o].pc = "failed" => disturbed'
      <4>1. CASE place[d] = Bundle(o) /\ o # e
        BY <1>1, <2>6, <3>3, <4>1 DEF IInv, PlaceInv
      <4>2. CASE o = e /\ d = d0
        BY <2>3, <2>6, <3>3, <4>2
      <4> QED BY <3>1, <3>3, <4>1, <4>2
    <3> QED BY <2>2, <3>1, <3>2, <3>3 DEF PlaceInv
  <2>11. StepInv'
    <3>1. \A o \in Exporter \ {e} : ClaimedByOther(o) => ClaimedByOther(o)'
      BY <1>1, <2>6, NamesDiffer DEF ClaimedByOther
    <3>2. place'[Bundle(e)] # Dest("bundle")
      BY <2>2, NamesDiffer
    <3>3. to = "restore" => place'[Bundle(e)] # Bundle(e)
      BY <1>1, <2>3, <2>8
    <3>4. \A o \in Exporter \ {e} :
            /\ place[Bundle(o)] = None \/ place[Bundle(o)] = Bundle(o) =>
                 place'[Bundle(o)] = place[Bundle(o)]
            /\ place[Bundle(o)] # Bundle(o) => place'[Bundle(o)] # Bundle(o)
            /\ place[Bundle(o)] # Dest("bundle") => place'[Bundle(o)] # Dest("bundle")
      BY <2>2, <2>8, NamesDiffer
    <3>5. ASSUME NEW o \in Exporter
          PROVE
      (/\ export[o].pc \notin {"restore", "failed", "interrupted"} => export[o].claimed = None
       /\ export[o].pc \in Early \cup {"stage"} =>
            place[Bundle(o)] = None /\ place[Companion(o)] = None
       /\ export[o].pc = "publish" =>
            /\ place[Bundle(o)] = Bundle(o)
            /\ place[Companion(o)] = IF export[o].sidecar THEN Companion(o) ELSE None
       /\ export[o].pc \in {"companion", "rollback"} =>
            export[o].sidecar /\ place[Bundle(o)] # Bundle(o) /\ place[Companion(o)] = Companion(o)
       /\ export[o].pc = "restore" => place[Bundle(o)] # Bundle(o)
       /\ export[o].pc \in {"restore", "failed"} =>
            /\ place[Companion(o)] # Dest("protocol")
            /\ place[Bundle(o)] # Dest("bundle") \/ ClaimedByOther(o))'
      <4>1. CASE o = e
        BY <1>1, <2>3, <2>6, <2>8, <3>2, <3>3, <4>1, NamesDiffer DEF Early
      <4>2. CASE o # e
        BY <2>6, <2>8, <3>1, <3>4, <4>2 DEF IInv, StepInv
      <4> QED BY <4>1, <4>2
    <3> QED BY <3>5 DEF StepInv
  <2>12. QuietInv'
    <3>1. ~disturbed => \A o \in Exporter \ {e} : place'[Bundle(o)] = place[Bundle(o)]
      BY <2>8, <2>9, NamesDiffer
    <3>2. ~disturbed => \A f \in Foreign : place'[f] = place[f]
      BY <2>2, <2>9, NamesDiffer DEF Directories
    <3>3. ~disturbed => to = "failed"
      BY <2>3, <2>9
    <3> QED BY <1>1, <2>6, <2>8, <3>1, <3>2, <3>3, NamesDiffer DEF IInv, QuietInv
  <2>13. \A o \in Exporter :
           /\ Has(o)' => Has(o) \/ (o = e /\ export[e].pc \in Compared)
           /\ place'[Companion(o)] # None => place[Companion(o)] # None \/ files["paired"] = "whole"
    BY <2>2
  <2> QED BY <1>1, <2>2, <2>4, <2>5, <2>10, <2>11, <2>12, <2>13, Places
<1>3. CASE /\ ExportGoes(e, "rollback", "failed") /\ UNCHANGED place
           /\ At(Dest("bundle")) = {} \/ At(<<e, "bundle">>) # {}
  <2>1. "failed" \in Points /\ "failed" \in Compared
    BY DEF Points, Compared
  <2>2. export' = [export EXCEPT ![e].pc = "failed"] /\ place' = place
    BY <1>3 DEF ExportGoes
  <2>3. /\ export'[e].pc = "failed" /\ export'[e].claimed = export[e].claimed
        /\ export'[e].sidecar = export[e].sidecar
        /\ \A o \in Exporter \ {e} : export'[o] = export[o]
    BY <2>1, <2>2, Goes
  <2>4. PlaceInv'
    BY <1>1, <2>2, <2>3 DEF IInv, PlaceInv
  <2>5. place[Bundle(e)] # Dest("bundle")
    <3>1. \A d \in Directories : place[d] # Bundle(e)
      BY <1>1 DEF IInv, PlaceInv
    <3>2. At(Bundle(e)) = {}
      BY <3>1 DEF At
    <3>3. At(Dest("bundle")) = {}
      BY <1>3, <3>2 DEF Bundle
    <3> QED BY <3>3, NamesDiffer DEF At
  <2>6. StepInv'
    BY <1>1, <2>2, <2>3, <2>5, NamesDiffer DEF IInv, StepInv, Early, ClaimedByOther
  <2>7. QuietInv'
    BY <1>1, <2>2, <2>3, NamesDiffer DEF IInv, QuietInv
  <2>8. /\ place' \in [Directories -> Names \cup {None}]
        /\ \A o \in Exporter : Has(o)' => Has(o)
    BY <2>2 DEF IInv, Types, Has
  <2> QED BY <1>1, <2>1, <2>2, <2>4, <2>6, <2>7, <2>8, GoesInv
<1> QED BY <1>2, <1>3 DEF Claim

(* What was claimed of others has its published name again, or the name    *)
(* was taken in the meantime.                                              *)
LEMMA RestoreInv ==
  ASSUME IInv, NEW e \in Exporter, Restore(e) PROVE IInv'
<1>1. /\ export[e].pc = "restore" /\ UNCHANGED <<project, run, files, disturbed>>
      /\ place[Bundle(e)] # Bundle(e) /\ place[Companion(e)] # Dest("protocol")
      /\ place[Bundle(e)] # Dest("bundle") \/ ClaimedByOther(e)
      /\ export[e].pc \in Compared /\ disturbed
      /\ export' = [export EXCEPT ![e].pc = "failed"]
  BY DEF Restore, ExportGoes, IInv, StepInv, QuietInv, Compared
<1>2. "failed" \in Points /\ "failed" \in Compared
  BY DEF Points, Compared
<1>3. /\ export'[e].pc = "failed" /\ export'[e].claimed = export[e].claimed
      /\ export'[e].sidecar = export[e].sidecar
      /\ \A o \in Exporter \ {e} : export'[o] = export[o]
  BY <1>1, <1>2, Goes
<1>4. QuietInv'
  BY <1>1 DEF QuietInv
<1>5. \A o \in Exporter : ClaimedByOther(o) <=> ClaimedByOther(o)'
  BY <1>3 DEF ClaimedByOther
<1>6. CASE RenameNoReplace(<<e, "bundle">>, Dest("bundle"))
  <2>1. RenameNoReplace(Bundle(e), Dest("bundle"))
    BY <1>6 DEF Bundle
  <2>2. PICK d0 \in Directories :
           /\ place[d0] = Bundle(e) /\ \A d \in Directories : place[d] # Dest("bundle")
           /\ \A d \in Directories : place[d] = Bundle(e) => d = d0
           /\ \A d \in Directories :
                place'[d] = IF d = d0 THEN Dest("bundle") ELSE place[d]
           /\ place' \in [Directories -> Names \cup {None}]
           /\ \A d1, d2 \in Directories :
                place'[d1] # None /\ place'[d1] = place'[d2] => d1 = d2
           /\ \A o \in Exporter :
                (Has(o)' => Has(o)) /\ (place'[Companion(o)] # None => place[Companion(o)] # None)
    BY <2>1, NamesDiffer, Renamed
  <2>3. d0 # Bundle(e) /\ export[e].claimed = d0
    BY <1>1, <2>2, NamesDiffer DEF IInv, PlaceInv
  <2>4. \A o \in Exporter : d0 # Companion(o)
    BY <2>2, NamesDiffer DEF IInv, PlaceInv
  <2>5. \A o \in Exporter :
          /\ place'[Companion(o)] = place[Companion(o)]
          /\ place'[Bundle(o)] = IF d0 = Bundle(o) THEN Dest("bundle") ELSE place[Bundle(o)]
          /\ d0 = Bundle(o) => ClaimedByOther(o) /\ place[Bundle(o)] = Bundle(e) /\ o # e
    BY <2>2, <2>3, <2>4, NamesDiffer DEF ClaimedByOther
  <2>6. PlaceInv'
    <3>1. ASSUME NEW o \in Exporter, NEW d \in Directories
          PROVE  /\ place'[d] = Companion(o) => d = Companion(o)
                 /\ place'[d] = Bundle(o) /\ d # Bundle(o) => place[d] = Bundle(o) /\ o # e
      BY <1>1, <2>2, <3>1, NamesDiffer DEF IInv, PlaceInv
    <3>2. ASSUME NEW o \in Exporter
          PROVE  /\ place'[Companion(o)] \in {None, Dest("protocol"), Companion(o)}
                 /\ place'[Bundle(o)] # Dest("protocol")
      BY <2>5, NamesDiffer DEF IInv, PlaceInv
    <3> QED BY <1>1, <1>3, <2>2, <3>1, <3>2 DEF IInv, PlaceInv
  <2>7. StepInv'
    BY <1>1, <1>3, <1>5, <2>2, <2>3, <2>5, NamesDiffer DEF IInv, StepInv, Early
  <2>8. \A o \in Exporter : Has(o)' => Has(o)
    BY <2>2
  <2> QED BY <1>1, <1>2, <1>4, <2>2, <2>6, <2>7, <2>8, GoesInv
<1>7. CASE UNCHANGED place
  <2>1. PlaceInv'
    BY <1>1, <1>3, <1>7 DEF IInv, PlaceInv
  <2>2. StepInv'
    BY <1>1, <1>3, <1>5, <1>7 DEF IInv, StepInv, Early
  <2>3. /\ place' \in [Directories -> Names \cup {None}]
        /\ \A o \in Exporter : Has(o)' => Has(o)
    BY <1>7 DEF IInv, Types, Has
  <2> QED BY <1>1, <1>2, <1>4, <1>7, <2>1, <2>2, <2>3, GoesInv
<1> QED BY <1>6, <1>7 DEF Restore

-----------------------------------------------------------------------------
(* Other programs take a published name away, or a free one for their own. *)
LEMMA OthersPlaces ==
  ASSUME IInv, UNCHANGED <<project, run, files, export>>, disturbed' = TRUE,
         place' \in [Directories -> Names \cup {None}],
         \A o \in Exporter : Has(o)' => Has(o),
         \A o \in Exporter : place'[Companion(o)] # None => place[Companion(o)] # None,
         PlaceInv', StepInv'
  PROVE  IInv'
<1>1. Types'
  BY DEF IInv, Types, RunFrame, Frame, project
<1>2. FilesInv' /\ RunInv' /\ LockInv'
  BY DEF IInv, FilesInv, RunInv, LockInv, project
<1>3. (Whole' <=> Whole) /\ \A o \in Exporter : Same(o)' <=> Same(o)
  BY DEF Whole, Same
<1>4. EvidenceInv'
  BY <1>3 DEF IInv, EvidenceInv
<1>5. QuietInv'
  BY DEF QuietInv
<1> QED BY <1>1, <1>2, <1>4, <1>5 DEF IInv

LEMMA MoveAwayInv ==
  ASSUME IInv, NEW d0 \in Directories, MoveAway(d0) PROVE IInv'
<1>1. /\ place[d0] \in {Dest("bundle"), Dest("protocol")}
      /\ place' = [place EXCEPT ![d0] = None] /\ disturbed' = TRUE
      /\ UNCHANGED <<project, run, files, export>>
  BY DEF MoveAway, Kinds
<1>2. /\ place' \in [Directories -> Names \cup {None}]
      /\ \A d \in Directories : place'[d] = IF d = d0 THEN None ELSE place[d]
  BY <1>1 DEF IInv, Types
<1>3. \A o \in Exporter :
        /\ place'[Bundle(o)] = IF d0 = Bundle(o) THEN None ELSE place[Bundle(o)]
        /\ place'[Companion(o)] = IF d0 = Companion(o) THEN None ELSE place[Companion(o)]
  BY <1>2, NamesDiffer
<1>4. PlaceInv'
  BY <1>1, <1>2, <1>3, NamesDiffer DEF IInv, PlaceInv
<1>5. \A o \in Exporter : ClaimedByOther(o)' <=> ClaimedByOther(o)
  BY <1>1 DEF ClaimedByOther
<1>6. StepInv'
  BY <1>1, <1>3, <1>5, NamesDiffer DEF IInv, StepInv
<1>7. \A o \in Exporter :
        (Has(o)' => Has(o)) /\ (place'[Companion(o)] # None => place[Companion(o)] # None)
  BY <1>3 DEF Has
<1> QED BY <1>1, <1>2, <1>4, <1>6, <1>7, OthersPlaces

LEMMA PutForeignInv ==
  ASSUME IInv, NEW f \in Foreign, NEW kind \in Kinds, PutForeign(f, kind) PROVE IInv'
<1>1. /\ \A d \in Directories : place[d] # Dest(kind)
      /\ place' = [place EXCEPT ![f] = Dest(kind)] /\ disturbed' = TRUE
      /\ UNCHANGED <<project, run, files, export>>
  BY DEF PutForeign, At
<1>2. f \in Directories /\ Dest(kind) \in {Dest("bundle"), Dest("protocol")}
  BY DEF Directories, Kinds
<1>3. /\ place' \in [Directories -> Names \cup {None}]
      /\ \A d \in Directories : place'[d] = IF d = f THEN Dest(kind) ELSE place[d]
  BY <1>1, <1>2, NamesDiffer DEF IInv, Types
<1>4. \A o \in Exporter :
        place'[Bundle(o)] = place[Bundle(o)] /\ place'[Companion(o)] = place[Companion(o)]
  BY <1>3, NamesDiffer
<1>5. PlaceInv'
  BY <1>1, <1>2, <1>3, <1>4, NamesDiffer DEF IInv, PlaceInv
<1>6. \A o \in Exporter : ClaimedByOther(o)' <=> ClaimedByOther(o)
  BY <1>1 DEF ClaimedByOther
<1>7. StepInv'
  BY <1>1, <1>4, <1>6 DEF IInv, StepInv
<1>8. \A o \in Exporter :
        (Has(o)' => Has(o)) /\ (place'[Companion(o)] # None => place[Companion(o)] # None)
  BY <1>4 DEF Has
<1> QED BY <1>1, <1>3, <1>5, <1>7, <1>8, OthersPlaces

LEMMA NextInv == ASSUME IInv, ExportNext PROVE IInv'
<1>1. CASE Edit \/ WriteBaseline \/ \E k \in Keys, value \in Values : Learn(k, value)
  BY <1>1, ProjectInv
<1>2. CASE RunStep
  BY <1>2, StartRunInv, LoadCanariesInv, ReadLockInv, QualifyInv, OpenArtifactInv,
     CloseArtifactInv, GiveUpPricingInv, StopRunInv DEF RunStep
<1>3. CASE OthersStep
  BY <1>3, MoveAwayInv, PutForeignInv DEF OthersStep
<1>4. CASE \E e \in Exporter : ExportStep(e)
  BY <1>4, CheckDestinationInv, LookForSidecarInv, ReadArtifactsInv, LoadExportConfigInv,
     LoadExportCanariesInv, CompareIdentitiesInv, StageInv, PublishBundleInv,
     PublishCompanionInv, ClaimInv, RestoreInv, InterruptExportInv DEF ExportStep
<1> QED BY <1>1, <1>2, <1>3, <1>4 DEF ExportNext

LEMMA StutterInv == ASSUME IInv, UNCHANGED exportVars PROVE IInv'
<1>1. /\ run' = run /\ files' = files /\ export' = export /\ place' = place
      /\ disturbed' = disturbed /\ lock' = lock
  BY DEF exportVars, exports, project
<1>2. Types'
  BY <1>1 DEF IInv, Types, RunFrame, Frame
<1>3. FilesInv' /\ RunInv' /\ LockInv'
  BY <1>1 DEF IInv, FilesInv, RunInv, LockInv
<1>4. (Whole' <=> Whole) /\ \A o \in Exporter : (Same(o)' <=> Same(o)) /\ (Has(o)' <=> Has(o))
  BY <1>1 DEF Whole, Same, Has
<1>5. EvidenceInv'
  BY <1>1, <1>4 DEF IInv, EvidenceInv
<1>6. PlaceInv' /\ StepInv' /\ QuietInv'
  BY <1>1 DEF IInv, PlaceInv, StepInv, QuietInv, ClaimedByOther
<1> QED BY <1>2, <1>3, <1>5, <1>6 DEF IInv

(* The strengthening that the steps preserve: where the command is in its  *)
(* order of writing (commands.py:404-468), what an exporter that compared  *)
(* the identities knows of the run (export.py:217-395), and which          *)
(* directory has which name at every step of a publication and of its      *)
(* rollback (export.py:104-136, 707-762).                                  *)
THEOREM EvidenceInvariant == ExportSpec => []IInv
<1>1. IInv /\ [ExportNext]_exportVars => IInv'
  BY NextInv, StutterInv
<1> QED BY <1>1, InitInv, PTL DEF ExportSpec

-----------------------------------------------------------------------------
(* What the commands may say of their artifacts: a receipt stands beside   *)
(* the four it hashes, and a command that returned left everything but     *)
(* the pricing whole (commands.py:404-468,                                 *)
(* targeted_execution/commands.py:81-180).                                 *)
THEOREM ReceiptsVouch == ExportSpec => []ReceiptVouches
<1>1. IInv => ReceiptVouches
  <2> SUFFICES ASSUME IInv PROVE ReceiptVouches
    OBVIOUS
  <2>1. run.next \in 0..6 /\ RunInv /\ FilesInv
    BY DEF IInv, Types, RunFrame
  <2>2. \A artifact \in {"report", "qualification", "provenance", "paired"} :
          artifact \in Artifacts /\ Index(artifact) \in 1..4
    BY DEF Artifacts, Index
  <2>3. files["receipt"] # "absent" => run.next = 6
    BY <2>1 DEF FilesInv, Artifacts, Index
  <2>4. files["receipt"] # "absent" =>
          \A artifact \in {"report", "qualification", "provenance", "paired"} :
            files[artifact] = "whole"
    BY <2>1, <2>2, <2>3 DEF FilesInv
  <2>5. run.pc = "returned" =>
          \A artifact \in Artifacts \ {"pricing"} :
            (artifact = "receipt" /\ run.command = "check") \/ files[artifact] = "whole"
    BY <2>1 DEF FilesInv, RunInv, Artifacts, Index, LastIndex, Qualifying
  <2> QED BY <2>4, <2>5 DEF ReceiptVouches
<1> QED BY <1>1, EvidenceInvariant, PTL

(* What is staged or published is the evidence of the run, whatever        *)
(* happened to the project and its baseline around the reads, and every    *)
(* payload of it is whole (export.py:217-395).                             *)
THEOREM EvidenceIsTheRun == ExportSpec => []PublishedIsTheRun
<1>1. IInv => PublishedIsTheRun
  <2> SUFFICES ASSUME IInv, NEW e \in Exporter, NEW d \in Own(e), place[d] # None
               PROVE  /\ export[e].config = run.config
                      /\ export[e].canaries.content = run.canaries.content
                      /\ export[e].lock = run.lock
                      /\ \A artifact \in {"report", "qualification", "provenance"} :
                           files[artifact] = "whole"
                      /\ d[2] = "protocol" => files["paired"] = "whole"
    BY DEF PublishedIsTheRun
  <2>1. d = Bundle(e) \/ d = Companion(e)
    BY OwnNames
  <2>2. Has(e) /\ (d[2] = "protocol" => d = Companion(e))
    BY <2>1 DEF Has, Bundle
  <2> QED BY <2>2 DEF IInv, EvidenceInv, Same, Whole
<1> QED BY <1>1, EvidenceInvariant, PTL

(* Nobody's directory is replaced, and one that a rollback has taken from  *)
(* somebody else it still has in hand or gave back, unless another program *)
(* interfered (export.py:104-136).                                         *)
THEOREM NothingIsReplaced == ExportSpec => []OthersAreKept
<1>1. IInv => OthersAreKept
  <2> SUFFICES ASSUME IInv, NEW d \in Directories
               PROVE  /\ place[d] \in Names \cup {None}
                      /\ \A e \in Exporter :
                           place[d] \in Own(e) /\ d \notin Own(e) =>
                             /\ export[e].claimed = d
                             /\ export[e].pc = "failed" => disturbed
    BY DEF OthersAreKept
  <2>1. place[d] \in Names \cup {None}
    BY DEF IInv, Types
  <2>2. ASSUME NEW e \in Exporter, place[d] \in Own(e), d \notin Own(e)
        PROVE  export[e].claimed = d /\ (export[e].pc = "failed" => disturbed)
    <3>1. place[d] = Bundle(e) \/ place[d] = Companion(e)
      BY <2>2, OwnNames
    <3>2. d # Bundle(e) /\ d # Companion(e)
      BY <2>2, OwnNames
    <3> QED BY <3>1, <3>2 DEF IInv, PlaceInv
  <2> QED BY <2>1, <2>2
<1> QED BY <1>1, EvidenceInvariant, PTL

(* The destination has the bundle and the companion of one export, or,     *)
(* after an export that failed, nothing of it (export.py:707-762).         *)
THEOREM OneExportAtTheDestination == ExportSpec => []DestinationIsOneExport
<1>1. IInv => DestinationIsOneExport
  <2> SUFFICES ASSUME IInv PROVE DestinationIsOneExport
    OBVIOUS
  <2>1. {Dest(kind) : kind \in Kinds} = {Dest("bundle"), Dest("protocol")}
    BY DEF Kinds
  <2>2. ASSUME NEW e \in Exporter, export[e].pc \in {"refused", "failed"}, NEW d \in Own(e)
        PROVE  \/ place[d] \notin {Dest(kind) : kind \in Kinds}
               \/ \E other \in Exporter \ {e} : export[other].claimed = d
    <3>1. d = Bundle(e) \/ d = Companion(e)
      BY <2>2, OwnNames
    <3>2. CASE export[e].pc = "refused"
      <4>1. place[Bundle(e)] = None /\ place[Companion(e)] = None
        BY <3>2 DEF IInv, StepInv, Early
      <4> QED BY <2>1, <3>1, <4>1, NamesDiffer
    <3>3. CASE export[e].pc = "failed"
      <4>1. /\ place[Companion(e)] \in {None, Companion(e)}
            /\ place[Bundle(e)] # Dest("protocol")
            /\ place[Bundle(e)] # Dest("bundle") \/ ClaimedByOther(e)
        BY <3>3 DEF IInv, StepInv, PlaceInv
      <4> QED BY <2>1, <3>1, <4>1, NamesDiffer DEF ClaimedByOther
    <3> QED BY <2>2, <3>2, <3>3
  <2>3. ASSUME ~disturbed, NEW d1 \in Directories, NEW d2 \in Directories,
               place[d1] = Dest("bundle"), place[d2] = Dest("protocol")
        PROVE  d1[1] = d2[1]
    <3>1. d2 \notin Foreign
      BY <2>3, NamesDiffer DEF IInv, QuietInv
    <3>2. PICK o \in Exporter : d2 = Companion(o)
      BY <2>3, <3>1, NamesDiffer DEF IInv, PlaceInv
    <3>3. place[Bundle(o)] = Dest("bundle")
      BY <2>3, <3>2 DEF IInv, QuietInv
    <3>4. d1 = Bundle(o)
      BY <2>3, <3>3, NamesDiffer DEF IInv, PlaceInv
    <3> QED BY <3>2, <3>4 DEF Bundle, Companion
  <2>4. ASSUME ~disturbed, NEW e \in Exporter, export[e].pc = "done"
        PROVE  /\ place[Bundle(e)] = Dest("bundle")
               /\ export[e].sidecar \/ export[e].late => place[Companion(e)] = Dest("protocol")
    BY <2>4 DEF IInv, QuietInv, EvidenceInv
  <2> QED BY <2>2, <2>3, <2>4 DEF DestinationIsOneExport, Bundle, Companion
<1> QED BY <1>1, EvidenceInvariant, PTL

-----------------------------------------------------------------------------
(* Finite sets of numbers.                                                 *)

LEMMA Least ==
  ASSUME NEW T, T \subseteq Nat, T # {}
  PROVE  \E n \in T : \A m \in T : n <= m
<1> DEFINE R == {ss \in Nat \X Nat : ss[1] < ss[2]}
<1>1. IsWellFoundedOn(R, Nat)
  BY NatLessThanWellFounded DEF OpToRel
<1>2. PICK n \in T : \A m \in T : ~(<<m, n>> \in R)
  <2> HIDE DEF R
  <2> QED  BY <1>1, WFMin
<1>3. ASSUME NEW m \in T PROVE n <= m
  <2>1. <<m, n>> \in Nat \X Nat /\ ~(<<m, n>> \in R)
    BY <1>2
  <2>2. ~(m < n)
    BY <2>1
  <2> QED  BY <2>2
<1> QED  BY <1>3

LEMMA OneFewer ==
  ASSUME NEW S, IsFiniteSet(S), NEW s \in SUBSET S, s # {}, NEW x \in s
  PROVE  /\ s \ {x} \in SUBSET S /\ Cardinality(s) \in Nat \ {0}
         /\ Cardinality(s \ {x}) = Cardinality(s) - 1
<1>1. IsFiniteSet(s) /\ Cardinality(s) \in Nat
  BY FS_Subset, FS_CardinalityType
<1>2. Cardinality(s) # 0
  BY <1>1, FS_EmptySet
<1> QED  BY <1>1, <1>2, FS_RemoveElement

(* What holds of a subset as soon as it holds of those with one element    *)
(* less holds of all.                                                      *)
LEMMA FiniteInduction ==
  ASSUME NEW S, IsFiniteSet(S), NEW Good,
         \A s \in SUBSET S : (\A x \in s : s \ {x} \in Good) => s \in Good
  PROVE  SUBSET S \subseteq Good
<1> DEFINE Bad == {n \in Nat : \E s \in SUBSET S : Cardinality(s) = n /\ s \notin Good}
<1>1. SUFFICES ASSUME NEW t \in SUBSET S, t \notin Good PROVE FALSE
  OBVIOUS
<1>2. Bad # {} /\ Bad \subseteq Nat
  <2>1. Cardinality(t) \in Nat
    BY FS_Subset, FS_CardinalityType
  <2> QED  BY <1>1, <2>1
<1>3. PICK n \in Bad : \A m \in Bad : n <= m
  <2> HIDE DEF Bad
  <2> QED  BY <1>2, Least
<1>4. PICK s \in SUBSET S : Cardinality(s) = n /\ s \notin Good
  BY <1>3
<1>5. PICK x \in s : s \ {x} \notin Good
  BY <1>4
<1>6. s \ {x} \in SUBSET S /\ n \in Nat \ {0} /\ Cardinality(s \ {x}) = n - 1
  BY <1>4, <1>5, OneFewer
<1>7. n - 1 \in Bad
  BY <1>5, <1>6
<1> QED  BY <1>3, <1>6, <1>7

(* Of some sets of numbers one is the first in lexical order.              *)
First(sets, s) == \A t \in sets \ {s} : Min((s \ t) \cup (t \ s)) \in s

LEMMA MinIs ==
  ASSUME NEW S \in SUBSET Nat, NEW n \in S, \A m \in S : n <= m
  PROVE  Min(S) = n
<1> DEFINE x == CHOOSE y \in S : \A z \in S : y <= z
<1>1. x \in S /\ \A z \in S : x <= z
  OBVIOUS
<1>2. Min(S) = x
  BY DEF Min
<1> HIDE DEF x
<1>3. x <= n /\ n <= x /\ x \in Nat /\ n \in Nat
  BY <1>1
<1> QED  BY <1>2, <1>3

LEMMA FirstExists ==
  ASSUME NEW S, IsFiniteSet(S), S \subseteq Nat, NEW sets \in SUBSET SUBSET S, sets # {}
  PROVE  \E s \in sets : First(sets, s)
<1> DEFINE Good == {A \in SUBSET S : \A F \in SUBSET SUBSET A : F # {} => \E s \in F : First(F, s)}
<1>1. ASSUME NEW A \in SUBSET S, \A x \in A : A \ {x} \in Good PROVE A \in Good
  <2>1. SUFFICES ASSUME NEW F \in SUBSET SUBSET A, F # {} PROVE \E s \in F : First(F, s)
    OBVIOUS
  <2>2. CASE A = {}
    <3>1. {} \in F /\ F \ {{}} = {}
      BY <2>1, <2>2
    <3> QED  BY <3>1 DEF First
  <2>3. CASE A # {}
    <3>1. PICK x \in A : \A y \in A : x <= y
      BY <2>3, Least
    <3>2. A \ {x} \in Good
      BY <1>1
    <3>3. CASE \A s \in F : x \notin s
      <4>1. F \in SUBSET SUBSET (A \ {x})
        BY <3>3
      <4> QED  BY <2>1, <3>2, <4>1
    <3>4. CASE \E s \in F : x \in s
      <4> DEFINE G == {s \ {x} : s \in {r \in F : x \in r}}
      <4>1. G \in SUBSET SUBSET (A \ {x}) /\ G # {}
        <5>1. \A s \in F : s \ {x} \in SUBSET (A \ {x})
          OBVIOUS
        <5>2. PICK s \in F : x \in s
          BY <3>4
        <5>3. s \ {x} \in G
          BY <5>2
        <5> QED  BY <5>1, <5>3
      <4>2. PICK g \in G : First(G, g)
        BY <3>2, <4>1
      <4>3. PICK s \in F : x \in s /\ g = s \ {x}
        BY <4>2
      <4>4. ASSUME NEW t \in F \ {s} PROVE Min((s \ t) \cup (t \ s)) \in s
        <5>1. CASE x \in t
          <6>1. t \ {x} \in G \ {g}
            BY <4>3, <4>4, <5>1
          <6>2. (s \ t) \cup (t \ s) = (g \ (t \ {x})) \cup ((t \ {x}) \ g)
            BY <4>3, <5>1
          <6>3. Min((g \ (t \ {x})) \cup ((t \ {x}) \ g)) \in g
            <7> HIDE DEF G
            <7> QED  BY <4>2, <6>1 DEF First
          <6> QED  BY <4>3, <6>2, <6>3
        <5>2. CASE x \notin t
          <6>1. /\ x \in (s \ t) \cup (t \ s) /\ (s \ t) \cup (t \ s) \in SUBSET Nat
                /\ \A m \in (s \ t) \cup (t \ s) : x <= m
            BY <3>1, <4>3, <5>2
          <6>2. Min((s \ t) \cup (t \ s)) = x
            BY <6>1, MinIs
          <6> QED  BY <4>3, <6>2
        <5> QED  BY <5>1, <5>2
      <4> QED  BY <4>4 DEF First
    <3> QED  BY <3>3, <3>4
  <2> QED  BY <2>2, <2>3
<1>2. SUBSET S \subseteq Good
  <2> HIDE DEF Good
  <2> QED  BY <1>1, FiniteInduction
<1>3. S \in Good
  BY <1>2
<1> QED  BY <1>3

-----------------------------------------------------------------------------
(* What a check-target ran.                                                *)

(* More of a target is known.                                              *)
Extends(known, more) ==
  DOMAIN known \subseteq DOMAIN more /\ \A k \in DOMAIN known : more[k] = known[k]

TargetInv ==
  /\ facts \in Facts /\ canaries \in Suites \cup Edits
  /\ "check-target" \in actors => signal \in Signals
  /\ run.pc # "idle" /\ run.command = "check-target" =>
       /\ "check-target" \in actors
       /\ run.facts \in Facts /\ Extends(run.facts, facts)
       /\ run.pc \in {"lock", "run", "write", "returned"} => run.canaries \in Suites \cup Edits
       /\ run.pc \in {"run", "write", "returned"} =>
            Plan.status = "READY" /\ run.selected = Plan.selected

(* What is known of a target decides as much as all of it would.           *)
LEMMA Matching ==
  ASSUME NEW required \in Facts, NEW known \in Facts
  PROVE  /\ MatchRequirements(required, known) \in {"MATCH", "MISMATCH", "UNKNOWN"}
         /\ MatchRequirements(required, known) = "MISMATCH" <=>
              \E k \in DOMAIN required \cap DOMAIN known : known[k] # required[k]
         /\ MatchRequirements(required, known) = "MATCH" <=>
              /\ DOMAIN required \subseteq DOMAIN known
              /\ \A k \in DOMAIN required : known[k] = required[k]
BY DEF MatchRequirements

LEMMA MatchingStays ==
  ASSUME NEW required \in Facts, NEW known \in Facts, NEW more \in Facts, Extends(known, more),
         MatchRequirements(required, known) # "UNKNOWN"
  PROVE  MatchRequirements(required, more) = MatchRequirements(required, known)
<1>1. CASE MatchRequirements(required, known) = "MATCH"
  <2>1. /\ DOMAIN required \subseteq DOMAIN known
        /\ \A k \in DOMAIN required : known[k] = required[k]
    BY <1>1, Matching
  <2>2. /\ DOMAIN required \subseteq DOMAIN more
        /\ \A k \in DOMAIN required : more[k] = required[k]
    BY <2>1 DEF Extends
  <2> QED  BY <1>1, <2>2, Matching
<1>2. CASE MatchRequirements(required, known) = "MISMATCH"
  <2>1. PICK k \in DOMAIN required \cap DOMAIN known : known[k] # required[k]
    BY <1>2, Matching
  <2>2. k \in DOMAIN required \cap DOMAIN more /\ more[k] # required[k]
    BY <2>1 DEF Extends
  <2> QED  BY <1>2, <2>2, Matching
<1> QED  BY <1>1, <1>2, Matching

(* The selected sources cover what is relevant: of the smallest sets that  *)
(* do there is a first.                                                    *)
LEMMA MinimumCovers ==
  ASSUME NEW coverage, IsFiniteSet(coverage), \A d \in coverage : d.source \in Nat,
         NEW contracts, NEW known,
         \A c \in contracts : Sources(coverage, c, known, "MATCH") # {}
  PROVE  Covers(SelectMinimum(contracts, coverage, known), contracts, coverage, known)
<1> DEFINE all == UNION {Sources(coverage, c, known, "MATCH") : c \in contracts}
           covering == {s \in SUBSET all : Covers(s, contracts, coverage, known)}
           smallest == {s \in covering : \A t \in covering : Cardinality(s) <= Cardinality(t)}
<1>1. IsFiniteSet(all) /\ all \subseteq Nat
  <2>1. all \in SUBSET {d.source : d \in coverage}
    BY DEF Sources
  <2>2. IsFiniteSet({d.source : d \in coverage}) /\ {d.source : d \in coverage} \subseteq Nat
    <3> DEFINE source == [d \in coverage |-> d.source]
    <3>1. {source[d] : d \in DOMAIN source} = {d.source : d \in coverage} /\ DOMAIN source = coverage
      OBVIOUS
    <3>2. source \in Surjection(coverage, {source[d] : d \in DOMAIN source})
      BY DEF Surjection
    <3>3. IsFiniteSet({source[d] : d \in DOMAIN source})
      <4> HIDE DEF source
      <4> QED  BY <3>2, FS_Surjection
    <3> QED  BY <3>1, <3>3
  <2> HIDE DEF all
  <2> QED  BY <2>1, <2>2, FS_Subset
<1>2. all \in covering
  BY DEF Covers
<1>3. \A s \in covering : IsFiniteSet(s) /\ Cardinality(s) \in Nat
  <2> HIDE DEF all
  <2> QED  BY <1>1, FS_Subset, FS_CardinalityType
<1> HIDE DEF covering
<1>4. PICK n \in {Cardinality(s) : s \in covering} : \A m \in {Cardinality(s) : s \in covering} : n <= m
  <2>1. {Cardinality(s) : s \in covering} # {} /\ {Cardinality(s) : s \in covering} \subseteq Nat
    BY <1>2, <1>3
  <2> QED  BY <2>1, Least
<1>5. smallest # {}
  BY <1>4
<1>6. smallest \in SUBSET SUBSET all
  BY DEF covering
<1>7. \E s \in smallest : \A t \in smallest \ {s} : Min((s \ t) \cup (t \ s)) \in s
  <2> HIDE DEF smallest, all
  <2>1. \E s \in smallest : First(smallest, s)
    BY <1>1, <1>5, <1>6, FirstExists
  <2> QED  BY <2>1 DEF First
<1> DEFINE sel == CHOOSE s \in smallest : \A t \in smallest \ {s} : Min((s \ t) \cup (t \ s)) \in s
<1>8. sel \in smallest
  <2> HIDE DEF smallest
  <2> QED  BY <1>7
<1>9. SelectMinimum(contracts, coverage, known) = sel
  BY DEF SelectMinimum, covering
<1> HIDE DEF sel
<1>10. sel \in covering
  BY <1>8
<1> QED  BY <1>9, <1>10 DEF covering

LEMMA Ready ==
  ASSUME NEW sig, NEW known, NEW coverage
  PROVE  /\ Assess(sig, known, coverage).status = "READY" <=>
              /\ Contracts(sig, known, "MATCH") # {} /\ Contracts(sig, known, "UNKNOWN") = {}
              /\ \A c \in Contracts(sig, known, "MATCH") : Sources(coverage, c, known, "MATCH") # {}
         /\ Assess(sig, known, coverage).status = "READY" =>
              Assess(sig, known, coverage).selected
              = SelectMinimum(Contracts(sig, known, "MATCH"), coverage, known)
BY DEF Assess, Assessment

(* What was ready stays so as more is learnt: the same contracts are       *)
(* relevant, and none of their sources is lost.                            *)
LEMMA ReadyStays ==
  ASSUME NEW sig, \A impact \in sig : impact.scope \in Facts,
         NEW coverage, \A d \in coverage : d.requires \in Facts,
         NEW known \in Facts, NEW more \in Facts, Extends(known, more),
         Assess(sig, known, coverage).status = "READY"
  PROVE  Assess(sig, more, coverage).status = "READY"
<1>1. /\ Contracts(sig, known, "MATCH") # {} /\ Contracts(sig, known, "UNKNOWN") = {}
      /\ \A c \in Contracts(sig, known, "MATCH") : Sources(coverage, c, known, "MATCH") # {}
  BY Ready
<1>2. \A impact \in sig : /\ MatchRequirements(impact.scope, known) # "UNKNOWN"
                          /\ MatchRequirements(impact.scope, more)
                             = MatchRequirements(impact.scope, known)
  <2> SUFFICES ASSUME NEW impact \in sig
               PROVE  /\ MatchRequirements(impact.scope, known) # "UNKNOWN"
                      /\ MatchRequirements(impact.scope, more)
                         = MatchRequirements(impact.scope, known)
    OBVIOUS
  <2>1. MatchRequirements(impact.scope, known) # "UNKNOWN"
    BY <1>1 DEF Contracts
  <2> QED  BY <2>1, MatchingStays
<1>3. /\ Contracts(sig, more, "MATCH") = Contracts(sig, known, "MATCH")
      /\ Contracts(sig, more, "UNKNOWN") = {}
  BY <1>2 DEF Contracts
<1>4. ASSUME NEW c, Sources(coverage, c, known, "MATCH") # {}
      PROVE  Sources(coverage, c, more, "MATCH") # {}
  <2>1. PICK d \in coverage : d.contract = c /\ MatchRequirements(d.requires, known) = "MATCH"
    BY <1>4 DEF Sources
  <2>2. MatchRequirements(d.requires, more) = "MATCH"
    BY <2>1, MatchingStays
  <2> QED  BY <2>1, <2>2 DEF Sources
<1> QED  BY <1>1, <1>3, <1>4, Ready

(* What is planned by what is known is enough for all that the target can  *)
(* turn out to be.                                                         *)
LEMMA PlanSuffices ==
  ASSUME NEW sig, \A impact \in sig : impact.scope \in Facts,
         NEW coverage, IsFiniteSet(coverage),
         \A d \in coverage : d.source \in Nat /\ d.requires \in Facts,
         NEW known \in Facts, Assess(sig, known, coverage).status = "READY"
  PROVE  Suffices(Assess(sig, known, coverage).selected, sig, known, coverage)
<1> DEFINE relevant == Contracts(sig, known, "MATCH")
           sel == Assess(sig, known, coverage).selected
<1>1. /\ Contracts(sig, known, "UNKNOWN") = {}
      /\ \A c \in relevant : Sources(coverage, c, known, "MATCH") # {}
      /\ sel = SelectMinimum(relevant, coverage, known)
  BY Ready
<1>2. Covers(sel, relevant, coverage, known)
  <2> HIDE DEF relevant, sel
  <2> QED  BY <1>1, MinimumCovers
<1>3. ASSUME NEW full \in Completions(known), NEW impact \in sig,
             \A k \in DOMAIN impact.scope : full[k] = impact.scope[k]
      PROVE  \E d \in coverage : /\ d.source \in sel /\ d.contract = impact.contract
                                 /\ \A k \in DOMAIN d.requires : full[k] = d.requires[k]
  <2>1. \A k \in DOMAIN known : full[k] = known[k]
    BY DEF Completions
  <2>2. MatchRequirements(impact.scope, known) # "MISMATCH"
    BY <1>3, <2>1, Matching
  <2>3. MatchRequirements(impact.scope, known) # "UNKNOWN"
    BY <1>1 DEF Contracts
  <2>4. impact.contract \in relevant
    BY <2>2, <2>3, Matching DEF Contracts
  <2>5. sel \cap Sources(coverage, impact.contract, known, "MATCH") # {}
    <3> HIDE DEF sel, relevant
    <3> QED  BY <1>2, <2>4 DEF Covers
  <2>6. PICK d \in coverage : /\ d.source \in sel /\ d.contract = impact.contract
                              /\ MatchRequirements(d.requires, known) = "MATCH"
    <3> HIDE DEF sel
    <3> QED  BY <2>5 DEF Sources
  <2>7. \A k \in DOMAIN d.requires : k \in DOMAIN known /\ known[k] = d.requires[k]
    BY <2>6, Matching
  <2> HIDE DEF sel
  <2> QED  BY <2>1, <2>6, <2>7
<1> HIDE DEF sel
<1> QED  BY <1>3 DEF Suffices, sel

(* What is enough given some facts is enough given more.                   *)
LEMMA SufficesStays ==
  ASSUME NEW sources, NEW sig, NEW coverage, NEW known, NEW more, Extends(known, more),
         Suffices(sources, sig, known, coverage)
  PROVE  Suffices(sources, sig, more, coverage)
<1>1. Completions(more) \subseteq Completions(known)
  BY DEF Completions, Extends
<1> QED  BY <1>1 DEF Suffices

LEMMA TargetInitInv == ASSUME ExportInit PROVE TargetInv
<1>1. facts \in Facts
  <2>1. facts \in [{} -> Values] /\ {} \in SUBSET Keys
    BY DEF ExportInit
  <2> QED  BY <2>1 DEF Facts
<1> QED  BY <1>1 DEF ExportInit, TargetInv, IdleRun

LEMMA ExtendsMore ==
  ASSUME NEW known, Extends(known, facts), facts \in Facts, NEW k \in Keys, NEW value \in Values,
         Learn(k, value)
  PROVE  facts' \in Facts /\ Extends(known, facts')
<1>1. /\ k \notin DOMAIN facts /\ DOMAIN facts' = DOMAIN facts \cup {k}
      /\ facts' = [key \in DOMAIN facts \cup {k} |-> IF key = k THEN value ELSE facts[key]]
  BY DEF Learn
<1>2. PICK keys \in SUBSET Keys : facts \in [keys -> Values]
  BY DEF Facts
<1>3. facts' \in [(keys \cup {k}) -> Values] /\ keys \cup {k} \in SUBSET Keys
  BY <1>1, <1>2
<1>4. facts' \in Facts
  BY <1>3 DEF Facts
<1> QED  BY <1>1, <1>4 DEF Extends

LEMMA TargetNextInv == ASSUME IInv, TargetInv, [ExportNext]_exportVars PROVE TargetInv'
<1> DEFINE Targeted == run.pc # "idle" /\ run.command = "check-target"
<1>1. actors' = actors /\ signal' = signal
  BY ZenonT(40) DEF ExportNext, Edit, WriteBaseline, Learn, RunStep, StartRun, LoadCanaries, ReadLock, Qualify,
         OpenArtifact, CloseArtifact, GiveUpPricing, StopRun, OthersStep, MoveAway, PutForeign,
         ExportStep, CheckDestination, LookForSidecar, ReadArtifacts, Refuse, LoadExportConfig,
         LoadExportCanaries, CompareIdentities, Stage, PublishBundle, PublishCompanion, Claim,
         Restore, InterruptExport, ExportGoes, exportVars, project, exports
<1>2. CASE Edit \/ WriteBaseline
  <2>1. run' = run /\ facts' = facts /\ canaries' \in Suites \cup Edits
    BY <1>2 DEF Edit, WriteBaseline, TargetInv
  <2> QED  BY <1>1, <2>1 DEF TargetInv, Plan
<1>3. ASSUME NEW k \in Keys, NEW value \in Values, Learn(k, value) PROVE TargetInv'
  <2>1. run' = run /\ canaries' = canaries
    BY <1>3 DEF Learn
  <2>2. facts' \in Facts
    <3>1. Extends(facts, facts)
      BY DEF Extends
    <3> QED  BY <1>3, <3>1, ExtendsMore DEF TargetInv
  <2>3. Targeted => Extends(run.facts, facts')
    BY <1>3, ExtendsMore DEF TargetInv
  <2> QED  BY <1>1, <2>1, <2>2, <2>3 DEF TargetInv, Plan
<1>4. CASE RunStep
  <2>1. UNCHANGED <<facts, canaries, signal, actors>> /\ run \in RunFrame
    BY <1>1, <1>4 DEF RunStep, StartRun, LoadCanaries, ReadLock, Qualify, OpenArtifact, CloseArtifact,
       GiveUpPricing, StopRun, project, IInv, Types
  <2>2. ASSUME NEW command \in Qualifying, StartRun(command) PROVE TargetInv'
    <3>1. run'.pc = "canaries" /\ run'.command = command /\ run'.facts = facts /\ command \in actors
      BY <2>1, <2>2 DEF StartRun, RunFrame
    <3>2. Extends(facts, facts)
      BY DEF Extends
    <3> QED  BY <2>1, <3>1, <3>2 DEF TargetInv
  <2>3. CASE LoadCanaries
    <3>1. /\ run.pc = "canaries" /\ run'.pc = "lock" /\ run'.command = run.command
          /\ run'.facts = run.facts /\ run'.canaries = canaries
      BY <2>1, <2>3 DEF LoadCanaries, RunFrame
    <3> QED  BY <2>1, <3>1 DEF TargetInv
  <2>4. CASE ReadLock
    <3>1. /\ run.pc = "lock" /\ run'.command = run.command
          /\ run'.facts = run.facts /\ run'.canaries = run.canaries
          /\ run'.pc \in {"run", "stopped"}
          /\ run'.pc = "run" /\ run.command = "check-target" =>
               Plan.status = "READY" /\ run'.selected = Plan.selected
      BY <2>1, <2>4 DEF ReadLock, RunFrame
    <3>2. Plan' = Plan
      BY <2>1, <3>1 DEF Plan
    <3> QED  BY <2>1, <3>1, <3>2 DEF TargetInv
  <2>5. CASE Qualify \/ OpenArtifact \/ CloseArtifact \/ GiveUpPricing \/ StopRun
    <3>1. /\ run'.command = run.command /\ run'.facts = run.facts
          /\ run'.canaries = run.canaries /\ run'.selected = run.selected
          /\ run'.pc \in {"run", "write", "returned"} => run.pc \in {"run", "write", "returned"}
          /\ run'.pc # "lock" /\ run.pc # "idle"
      BY <2>1, <2>5 DEF Qualify, OpenArtifact, CloseArtifact, GiveUpPricing, StopRun, Advance, RunFrame
    <3>2. Plan' = Plan
      BY <2>1, <3>1 DEF Plan
    <3> QED  BY <2>1, <3>1, <3>2 DEF TargetInv
  <2> QED  BY <1>4, <2>2, <2>3, <2>4, <2>5 DEF RunStep
<1>5. CASE OthersStep \/ (\E e \in Exporter : ExportStep(e)) \/ UNCHANGED exportVars
  <2>1. UNCHANGED <<run, project>>
    BY <1>5 DEF OthersStep, MoveAway, PutForeign,
         ExportStep, CheckDestination, LookForSidecar, ReadArtifacts, Refuse, LoadExportConfig,
         LoadExportCanaries, CompareIdentities, Stage, PublishBundle, PublishCompanion, Claim,
         Restore, InterruptExport, ExportGoes, exportVars
  <2> QED  BY <1>1, <2>1 DEF TargetInv, Plan, project
<1> QED  BY <1>2, <1>3, <1>4, <1>5 DEF ExportNext

(* Whatever the signal, the suite and the facts: what a check-target ran   *)
(* covers every contract the change can break on any target that the facts *)
(* leave possible, and learning more never makes it less (planner.py:      *)
(* 72-165, matching.py:20-42).                                             *)
THEOREM TargetedRunsSuffice == ExportSpec => []TargetedRunSuffices
<1>1. ASSUME TargetInv, run.command = "check-target", run.pc \in {"run", "write", "returned"}
      PROVE  /\ Suffices(run.selected, signal, run.facts, run.canaries.coverage)
             /\ Suffices(run.selected, signal, facts, run.canaries.coverage)
             /\ Assess(signal, facts, run.canaries.coverage).status = "READY"
  <2> DEFINE coverage == run.canaries.coverage
  <2>1. /\ run.facts \in Facts /\ facts \in Facts /\ Extends(run.facts, facts)
        /\ signal \in Signals /\ run.canaries \in Suites \cup Edits
        /\ Assess(signal, run.facts, coverage).status = "READY"
        /\ run.selected = Assess(signal, run.facts, coverage).selected
    BY <1>1 DEF TargetInv, Plan
  <2>2. /\ \A impact \in signal : impact.scope \in Facts
        /\ IsFiniteSet(coverage)
        /\ \A d \in coverage : d.source \in Nat /\ d.requires \in Facts
    BY <2>1, SignalsAssumption, SuitesAssumption
  <2> HIDE DEF coverage
  <2>3. Suffices(run.selected, signal, run.facts, coverage)
    BY <2>1, <2>2, PlanSuffices
  <2>4. Suffices(run.selected, signal, facts, coverage)
    BY <2>1, <2>3, SufficesStays
  <2>5. Assess(signal, facts, coverage).status = "READY"
    BY <2>1, <2>2, ReadyStays
  <2> QED  BY <2>3, <2>4, <2>5 DEF coverage
<1>2. TargetInv => TargetedRunSuffices
  BY <1>1 DEF TargetedRunSuffices
<1>3. IInv /\ TargetInv /\ [ExportNext]_exportVars => TargetInv'
  BY TargetNextInv
<1> QED BY <1>2, <1>3, TargetInitInv, EvidenceInvariant, PTL DEF ExportSpec

-----------------------------------------------------------------------------
(* The scan of a first-bad search.                                         *)
Before == {"idle", "preflight canaries", "preflight lock"}
InLoop == {"snapshot", "snapshot canaries", "anchor", "check"}
Built == {"verify", "publish", "published"}

ScanFrame ==
  [pc : Before \cup InLoop \cup Built \cup {"chain", "aborted"}, frozen : {scan.frozen},
   config : {scan.config}, canaries : {scan.canaries}, lock : {scan.lock},
   edges : {scan.edges}, ended : BOOLEAN]

ScanTypes ==
  /\ scan \in ScanFrame
  /\ \E Edges : scan.edges \in Seq(Edges)
  /\ catalog \in Nat /\ catalog >= 2

(* The edges go up from the first release, each one from the build that    *)
(* the one before ended with, and all but the last came out clean; the     *)
(* first one ran what the lock was frozen with.                            *)
EdgesInv ==
  /\ \A i \in 1..Len(scan.edges) :
       /\ scan.edges[i].baseline.version = i /\ scan.edges[i].candidate.version = i + 1
       /\ scan.edges[i].class \in Claims
       /\ i > 1 => scan.edges[i].baseline = scan.edges[i - 1].candidate
       /\ i < Len(scan.edges) \/ scan.pc \in InLoop => Clean(scan.edges[i])
  /\ Len(scan.edges) <= catalog - 1
  /\ Len(scan.edges) > 0 =>
       /\ scan.edges[1].config = scan.frozen.config
       /\ scan.edges[1].content = scan.frozen.content

LoopInv ==
  /\ scan.pc \in Before => Len(scan.edges) = 0
  /\ scan.pc \in InLoop =>
       /\ Len(scan.edges) < catalog - 1
       /\ Len(scan.edges) = 0 => scan.frozen.agent.version = 1
  /\ scan.pc = "check" =>
       /\ scan.lock.agent.version = Len(scan.edges) + 1
       /\ Len(scan.edges) = 0 => scan.lock = scan.frozen
       /\ Len(scan.edges) > 0 =>
            scan.lock.agent = scan.edges[Len(scan.edges)].candidate

(* The package is made of the scan, and of edges of one design.            *)
PackageInv ==
  scan.pc \in Built =>
    /\ staged = [config |-> scan.frozen.config, content |-> scan.frozen.content,
                 design |-> Design(scan.edges[1]), anchor |-> scan.edges[1].baseline,
                 catalog |-> catalog, edges |-> scan.edges, receipt |-> staged.receipt]
    /\ Len(scan.edges) > 0
    /\ \A i \in 1..Len(scan.edges) : Design(scan.edges[i]) = Design(scan.edges[1])
    /\ staged.receipt = None \/ staged.receipt = ChainClaim(staged)
    /\ scan.pc # "verify" => staged.receipt # None

ScanInv == ScanTypes /\ EdgesInv /\ LoopInv /\ PackageInv

LEMMA EdgeDomain ==
  ASSUME ScanInv
  PROVE  DOMAIN scan.edges = 1..Len(scan.edges) /\ Len(scan.edges) \in Nat
BY DEF ScanInv, ScanTypes

(* What ChainClaim says is said of the edges and the catalog alone.        *)
LEMMA SameChain ==
  ASSUME NEW p, NEW q, p.edges = q.edges, p.catalog = q.catalog
  PROVE  ChainClaim(p) = ChainClaim(q)
BY DEF ChainClaim

LEMMA ScanInitInv == ASSUME FirstBadInit PROVE ScanInv
<1>1. /\ scan = [pc |-> "idle", frozen |-> None, config |-> None, canaries |-> None,
                 lock |-> None, edges |-> <<>>, ended |-> FALSE]
      /\ catalog \in Nat /\ catalog >= 2
  BY ReleasesAssumption DEF FirstBadInit, ScanInit
<1>2. scan.edges \in Seq({}) /\ Len(scan.edges) = 0 /\ scan.pc = "idle"
  BY <1>1
<1>3. scan \in ScanFrame
  BY <1>1 DEF ScanFrame, Before
<1>4. EdgesInv
  BY <1>1, <1>2 DEF EdgesInv
<1>5. LoopInv /\ PackageInv
  BY <1>2 DEF LoopInv, PackageInv, InLoop, Built
<1> QED BY <1>1, <1>2, <1>3, <1>4, <1>5 DEF ScanInv, ScanTypes

(* A step that adds no edge and builds no package.                         *)
LEMMA ScanReads ==
  ASSUME ScanInv, (scan \in ScanFrame)', LoopInv', UNCHANGED <<catalog, staged>>,
         scan'.edges = scan.edges, scan'.pc \notin Built,
         scan'.pc \in InLoop => scan.pc \in InLoop \/ Len(scan.edges) = 0,
         Len(scan.edges) = 0 \/ scan'.frozen = scan.frozen
  PROVE  ScanInv'
<1>1. ScanTypes' /\ PackageInv'
  BY DEF ScanInv, ScanTypes, PackageInv
<1>2. EdgesInv'
  BY EdgeDomain DEF ScanInv, EdgesInv
<1> QED BY <1>1, <1>2 DEF ScanInv

LEMMA AbortInv ==
  ASSUME ScanInv, scan' = [scan EXCEPT !.pc = "aborted"], UNCHANGED <<catalog, staged>>
  PROVE  ScanInv'
<1>1. /\ (scan \in ScanFrame)' /\ scan'.pc = "aborted" /\ scan'.edges = scan.edges
      /\ scan'.frozen = scan.frozen
  BY DEF ScanInv, ScanTypes, ScanFrame
<1>2. LoopInv'
  BY <1>1 DEF LoopInv, Before, InLoop
<1> QED BY <1>1, <1>2, ScanReads DEF Built, InLoop

LEMMA ReadsInv == ASSUME ScanInv, ReadConfig \/ ReadCanaries PROVE ScanInv'
<1>1. PICK to \in {"preflight canaries", "preflight lock", "snapshot canaries", "anchor"} :
        /\ scan' = [scan EXCEPT !.pc = to, !.config = scan'.config, !.canaries = scan'.canaries]
        /\ to \in {"preflight canaries", "preflight lock"} => scan.pc \in Before
        /\ to \in {"snapshot canaries", "anchor"} => scan.pc \in InLoop
        /\ UNCHANGED <<catalog, staged>>
  BY ZenonT(40) DEF ReadConfig, ReadCanaries, ScanInv, ScanTypes, ScanFrame, Before, InLoop
<1>2. /\ (scan \in ScanFrame)' /\ scan'.pc = to /\ scan'.edges = scan.edges
      /\ scan'.frozen = scan.frozen
  BY <1>1 DEF ScanInv, ScanTypes, ScanFrame, Before, InLoop
<1>3. LoopInv'
  BY <1>1, <1>2 DEF ScanInv, LoopInv, Before, InLoop
<1> QED BY <1>1, <1>2, <1>3, ScanReads DEF ScanInv, LoopInv, Before, InLoop, Built

LEMMA FreezeLockInv == ASSUME ScanInv, FreezeLock PROVE ScanInv'
<1>1. scan.pc = "preflight lock" /\ Len(scan.edges) = 0 /\ UNCHANGED <<catalog, staged>>
  BY DEF FreezeLock, ScanInv, LoopInv, Before
<1>2. CASE scan' = [scan EXCEPT !.pc = "aborted"]
  BY <1>1, <1>2, AbortInv
<1>3. CASE \E b \in Builds :
        scan' = [scan EXCEPT !.pc = "snapshot",
                   !.frozen = [config |-> lock.config, content |-> lock.content,
                               agent |-> Identity(1, b)]]
  <2>1. PICK b \in Builds :
          scan' = [scan EXCEPT !.pc = "snapshot",
                     !.frozen = [config |-> lock.config, content |-> lock.content,
                                 agent |-> Identity(1, b)]]
    BY <1>3
  <2> DEFINE frozen == [config |-> lock.config, content |-> lock.content,
                        agent |-> Identity(1, b)]
  <2>2. frozen.agent.version = 1
    BY DEF Identity
  <2>3. scan' = [scan EXCEPT !.pc = "snapshot", !.frozen = frozen]
    BY <2>1
  <2> HIDE DEF frozen
  <2>4. /\ (scan \in ScanFrame)' /\ scan'.pc = "snapshot" /\ scan'.edges = scan.edges
        /\ scan'.frozen = frozen
    BY <2>3 DEF ScanInv, ScanTypes, ScanFrame, InLoop
  <2>5. Len(scan'.edges) = 0 /\ 0 < catalog' - 1
    <3>1. 0 < catalog - 1
      BY DEF ScanInv, ScanTypes
    <3> QED BY <1>1, <2>4, <3>1
  <2>6. scan'.frozen.agent.version = 1
    BY <2>2, <2>4
  <2>7. LoopInv'
    BY <2>4, <2>5, <2>6 DEF LoopInv, Before, InLoop
  <2> QED BY <1>1, <2>4, <2>7, ScanReads DEF Built
<1> QED BY <1>2, <1>3 DEF FreezeLock

(* The baseline of an edge is the build that the edge before ended with.   *)
LEMMA AnchorInv == ASSUME ScanInv, Anchor PROVE ScanInv'
<1>1. scan.pc = "anchor" /\ UNCHANGED <<catalog, staged>>
  BY DEF Anchor
<1>2. scan.edges = <<>> <=> Len(scan.edges) = 0
  BY DEF ScanInv, ScanTypes
<1>3. CASE scan.edges = <<>> /\ scan' = [scan EXCEPT !.pc = "check", !.lock = scan.frozen]
  <2>1. /\ (scan \in ScanFrame)' /\ scan'.pc = "check" /\ scan'.edges = scan.edges
        /\ scan'.frozen = scan.frozen /\ scan'.lock = scan.frozen
    BY <1>3 DEF ScanInv, ScanTypes, ScanFrame, InLoop
  <2>2. LoopInv'
    BY <1>1, <1>2, <1>3, <2>1 DEF ScanInv, LoopInv, Before, InLoop
  <2> QED BY <1>1, <2>1, <2>2, ScanReads DEF Built, InLoop
<1>4. CASE scan.edges # <<>> /\ scan' = [scan EXCEPT !.pc = "chain", !.ended = TRUE]
  <2>1. /\ (scan \in ScanFrame)' /\ scan'.pc = "chain" /\ scan'.edges = scan.edges
        /\ scan'.frozen = scan.frozen
    BY <1>4 DEF ScanInv, ScanTypes, ScanFrame
  <2>2. LoopInv'
    BY <2>1 DEF LoopInv, Before, InLoop
  <2> QED BY <1>1, <2>1, <2>2, ScanReads DEF Built, InLoop
<1>5. CASE /\ scan.edges # <<>>
           /\ \E fresh : /\ fresh.agent = Identity(Len(scan.edges) + 1, build[Len(scan.edges) + 1])
                         /\ MatchesExpected(fresh.agent)
                         /\ scan' = [scan EXCEPT !.pc = "check", !.lock = fresh]
  <2>1. PICK fresh : /\ fresh.agent = Identity(Len(scan.edges) + 1, build[Len(scan.edges) + 1])
                     /\ fresh.agent = scan.edges[Len(scan.edges)].candidate
                     /\ scan' = [scan EXCEPT !.pc = "check", !.lock = fresh]
    BY <1>5 DEF MatchesExpected, Expected, Last
  <2>2. fresh.agent.version = Len(scan.edges) + 1
    BY <2>1 DEF Identity
  <2>3. /\ (scan \in ScanFrame)' /\ scan'.pc = "check" /\ scan'.edges = scan.edges
        /\ scan'.frozen = scan.frozen /\ scan'.lock = fresh
    BY <2>1 DEF ScanInv, ScanTypes, ScanFrame, InLoop
  <2>4. LoopInv'
    BY <1>1, <1>2, <1>5, <2>1, <2>2, <2>3 DEF ScanInv, LoopInv, Before, InLoop
  <2> QED BY <1>1, <2>3, <2>4, ScanReads DEF Built, InLoop
<1> QED BY <1>3, <1>4, <1>5 DEF Anchor

(* A new edge starts where the one before ended; the scan goes on only if  *)
(* it came out clean and there is a release left.                          *)
LEMMA CheckEdgeInv ==
  ASSUME ScanInv, NEW claims \in SUBSET Claims \ {{}}, CheckEdge(claims) PROVE ScanInv'
<1> DEFINE n == Len(scan.edges)
           edge == [baseline |-> scan.lock.agent,
                    candidate |-> Identity(n + 1 + 1, build[n + 1 + 1]),
                    config |-> scan.config, content |-> scan.canaries.content,
                    protocol |-> scan.canaries.protocol,
                    class |-> Classification(claims)]
           to == IF Clean(edge) /\ n + 1 + 1 < catalog THEN "snapshot" ELSE "chain"
<1>1. /\ scan.pc = "check" /\ catalog' = catalog /\ staged' = staged
      /\ \/ scan' = [scan EXCEPT !.pc = "aborted"]
         \/ /\ Fresh(scan.lock, scan.config, scan.canaries)
            /\ scan' = [scan EXCEPT !.pc = to, !.edges = Append(scan.edges, edge)]
  BY DEF CheckEdge
<1>2. CASE scan' = [scan EXCEPT !.pc = "aborted"]
  BY <1>1, <1>2, AbortInv
<1>3. CASE /\ Fresh(scan.lock, scan.config, scan.canaries)
           /\ scan' = [scan EXCEPT !.pc = to, !.edges = Append(scan.edges, edge)]
  <2>1. /\ n \in Nat /\ n < catalog - 1 /\ catalog \in Nat
        /\ scan.lock.agent.version = n + 1
        /\ n = 0 => scan.lock = scan.frozen
        /\ n > 0 => scan.lock.agent = scan.edges[n].candidate
        /\ \A i \in 1..n : Clean(scan.edges[i])
    BY <1>1, EdgeDomain DEF ScanInv, ScanTypes, EdgesInv, LoopInv, InLoop
  <2>2. /\ edge.baseline = scan.lock.agent /\ edge.candidate.version = n + 2
        /\ edge.config = scan.config /\ edge.content = scan.canaries.content
    BY <2>1 DEF Identity
  <2>3. edge.class \in Claims
    BY DEF Classification, Claims
  <2>4. to \in {"snapshot", "chain"} /\ (to = "snapshot" => Clean(edge) /\ n + 2 < catalog)
    BY <2>1
  <2> HIDE DEF edge, to
  <2>5. /\ (scan \in ScanFrame)' /\ scan'.pc = to /\ scan'.frozen = scan.frozen
        /\ scan'.edges = Append(scan.edges, edge)
    BY <1>3, <2>4 DEF ScanInv, ScanTypes, ScanFrame, InLoop
  <2>6. PICK Edges : scan.edges \in Seq(Edges)
    BY DEF ScanInv, ScanTypes
  <2>7. scan.edges \in Seq(Edges \cup {edge})
    BY <2>6
  <2>8. /\ scan'.edges \in Seq(Edges \cup {edge}) /\ Len(scan'.edges) = n + 1
        /\ \A i \in 1..n : scan'.edges[i] = scan.edges[i]
        /\ scan'.edges[n + 1] = edge
    BY <2>1, <2>5, <2>7, AppendProperties
  <2>9. ScanTypes'
    BY <1>1, <2>5, <2>8 DEF ScanInv, ScanTypes
  <2>10. EdgesInv'
    <3>1. ASSUME NEW i \in 1..(n + 1)
          PROVE  /\ scan'.edges[i].baseline.version = i /\ scan'.edges[i].candidate.version = i + 1
                 /\ scan'.edges[i].class \in Claims
                 /\ i > 1 => scan'.edges[i].baseline = scan'.edges[i - 1].candidate
                 /\ i < n + 1 \/ scan'.pc \in InLoop => Clean(scan'.edges[i])
      <4>1. CASE i \in 1..n
        <5>1. i > 1 => i - 1 \in 1..n
          BY <2>1, <4>1
        <5> QED BY <2>1, <2>8, <4>1, <5>1 DEF ScanInv, EdgesInv
      <4>2. CASE i = n + 1
        <5>1. i > 1 => i - 1 \in 1..n /\ i - 1 = n /\ n > 0
          BY <2>1, <4>2
        <5>2. scan'.edges[i] = edge
          BY <2>8, <4>2
        <5>3. edge.baseline.version = i /\ edge.candidate.version = i + 1
          BY <2>1, <2>2, <4>2
        <5>4. i > 1 => edge.baseline = scan'.edges[i - 1].candidate
          BY <2>1, <2>2, <2>8, <5>1
        <5>5. scan'.pc \in InLoop => Clean(edge)
          BY <2>4, <2>5 DEF InLoop
        <5> QED BY <2>3, <4>2, <5>2, <5>3, <5>4, <5>5
      <4> QED BY <2>1, <4>1, <4>2
    <3>2. scan'.edges[1].config = scan.frozen.config /\ scan'.edges[1].content = scan.frozen.content
      <4>1. CASE n = 0
        BY <1>3, <2>1, <2>2, <2>8, <4>1 DEF Fresh
      <4>2. CASE n > 0
        BY <2>1, <2>8, <4>2 DEF ScanInv, EdgesInv
      <4> QED BY <2>1, <4>1, <4>2
    <3>3. n + 1 <= catalog' - 1
      BY <1>1, <2>1
    <3> QED BY <2>5, <2>8, <3>1, <3>2, <3>3 DEF EdgesInv
  <2>11. LoopInv'
    <3>1. to = "snapshot" => n + 1 < catalog' - 1
      BY <1>1, <2>1, <2>4
    <3>2. Len(scan'.edges) # 0 /\ (to = "snapshot" => Len(scan'.edges) < catalog' - 1)
      BY <2>1, <2>8, <3>1
    <3>3. scan'.pc = to
      BY <2>5
    <3> QED BY <2>4, <3>2, <3>3 DEF LoopInv, Before, InLoop
  <2>12. PackageInv'
    BY <2>4, <2>5 DEF PackageInv, Built
  <2> QED BY <2>9, <2>10, <2>11, <2>12 DEF ScanInv
<1> QED BY <1>1, <1>2, <1>3

-----------------------------------------------------------------------------
(* The package is made of the edges, and its receipt of the package.       *)

(* A step of the scan that leaves its edges.                               *)
LEMMA PackageStep ==
  ASSUME ScanInv, NEW to \in Built, scan' = [scan EXCEPT !.pc = to], catalog' = catalog, PackageInv'
  PROVE  ScanInv'
<1>1. /\ (scan \in ScanFrame)' /\ scan'.pc = to /\ scan'.edges = scan.edges
      /\ scan'.frozen = scan.frozen
  BY DEF ScanInv, ScanTypes, ScanFrame
<1>2. ScanTypes'
  BY <1>1 DEF ScanInv, ScanTypes
<1>3. EdgesInv'
  BY ZenonT(40), <1>1, EdgeDomain DEF ScanInv, EdgesInv, Built, InLoop
<1>4. LoopInv'
  BY <1>1 DEF LoopInv, Built, Before, InLoop
<1> QED BY <1>2, <1>3, <1>4 DEF ScanInv

LEMMA BuildChainInv == ASSUME ScanInv, BuildChain PROVE ScanInv'
<1>1. CASE Abort
  BY <1>1, AbortInv DEF Abort, ScanGoes
<1>2. CASE /\ OneDesign /\ ScanGoes("chain", "verify")
           /\ staged' = [config |-> scan.frozen.config, content |-> scan.frozen.content,
                         design |-> Design(scan.edges[1]), anchor |-> scan.edges[1].baseline,
                         catalog |-> catalog, edges |-> scan.edges, receipt |-> None]
  <2>1. /\ scan' = [scan EXCEPT !.pc = "verify"] /\ catalog' = catalog
        /\ scan'.pc = "verify" /\ scan'.edges = scan.edges /\ scan'.frozen = scan.frozen
    BY <1>2 DEF ScanGoes, ScanInv, ScanTypes, ScanFrame
  <2>2. /\ Len(scan.edges) > 0
        /\ \A i \in 1..Len(scan.edges) : Design(scan.edges[i]) = Design(scan.edges[1])
    <3>1. scan.edges # <<>> => Len(scan.edges) > 0
      BY DEF ScanInv, ScanTypes
    <3> QED BY <1>2, <3>1, EdgeDomain DEF OneDesign, Range
  <2>3. staged'.receipt = None
    BY <1>2
  <2>4. PackageInv'
    <3>1. staged' = [config |-> scan'.frozen.config, content |-> scan'.frozen.content,
                     design |-> Design(scan'.edges[1]), anchor |-> scan'.edges[1].baseline,
                     catalog |-> catalog', edges |-> scan'.edges, receipt |-> staged'.receipt]
      BY <1>2, <2>1, <2>3
    <3> QED BY <2>1, <2>2, <2>3, <3>1 DEF PackageInv
  <2> QED BY <2>1, <2>4, PackageStep DEF Built
<1> QED BY <1>1, <1>2 DEF BuildChain

LEMMA WriteReceiptInv == ASSUME ScanInv, WriteReceipt PROVE ScanInv'
<1>1. scan.pc = "verify"
  BY DEF WriteReceipt
<1>2. CASE Abort
  BY <1>2, AbortInv DEF Abort, ScanGoes
<1>3. CASE /\ ScanGoes("verify", "verify")
           /\ staged' = [staged EXCEPT !.receipt = ChainClaim(staged)]
  <2>1. /\ scan' = [scan EXCEPT !.pc = "verify"] /\ catalog' = catalog
        /\ scan'.pc = "verify" /\ scan'.edges = scan.edges /\ scan'.frozen = scan.frozen
    BY <1>3 DEF ScanGoes, ScanInv, ScanTypes, ScanFrame
  <2> DEFINE receipt == ChainClaim(staged)
  <2>2. staged' = [staged EXCEPT !.receipt = receipt]
    BY <1>3
  <2> HIDE DEF receipt
  <2>3. staged = [config |-> scan.frozen.config, content |-> scan.frozen.content,
                  design |-> Design(scan.edges[1]), anchor |-> scan.edges[1].baseline,
                  catalog |-> catalog, edges |-> scan.edges, receipt |-> staged.receipt]
    BY <1>1 DEF ScanInv, PackageInv, Built
  <2>4. staged' = [config |-> scan.frozen.config, content |-> scan.frozen.content,
                   design |-> Design(scan.edges[1]), anchor |-> scan.edges[1].baseline,
                   catalog |-> catalog, edges |-> scan.edges, receipt |-> receipt]
    BY <2>2, <2>3
  <2>5. /\ staged'.receipt = receipt
        /\ staged'.edges = staged.edges /\ staged'.catalog = staged.catalog
    BY <2>3, <2>4
  <2>6. ChainClaim(staged') = receipt
    BY <2>5, SameChain DEF receipt
  <2>7. PackageInv'
    <3>1. staged' = [config |-> scan'.frozen.config, content |-> scan'.frozen.content,
                     design |-> Design(scan'.edges[1]), anchor |-> scan'.edges[1].baseline,
                     catalog |-> catalog', edges |-> scan'.edges, receipt |-> staged'.receipt]
      BY <2>1, <2>4, <2>5
    <3>2. /\ Len(scan.edges) > 0
          /\ \A i \in 1..Len(scan.edges) : Design(scan.edges[i]) = Design(scan.edges[1])
      BY <1>1 DEF ScanInv, PackageInv, Built
    <3> QED BY <2>1, <2>5, <2>6, <3>1, <3>2 DEF PackageInv
  <2> QED BY <2>1, <2>7, PackageStep DEF Built
<1> QED BY <1>2, <1>3 DEF WriteReceipt

LEMMA PublishesInv == ASSUME ScanInv, VerifyAgain \/ PublishPackage PROVE ScanInv'
<1>1. CASE Abort
  BY <1>1, AbortInv DEF Abort, ScanGoes
<1>2. CASE \E to \in {"publish", "published"} :
        /\ scan.pc \in Built
        /\ scan.pc # "verify" \/ staged.receipt # None
        /\ ScanGoes(scan.pc, to) /\ staged' = staged
  <2>1. PICK to \in {"publish", "published"} :
          /\ scan.pc \in Built
          /\ scan.pc # "verify" \/ staged.receipt # None
          /\ scan' = [scan EXCEPT !.pc = to] /\ staged' = staged /\ catalog' = catalog
    BY <1>2 DEF ScanGoes
  <2>2. scan'.pc = to /\ scan'.edges = scan.edges /\ scan'.frozen = scan.frozen
    BY <2>1 DEF ScanInv, ScanTypes, ScanFrame
  <2>3. PackageInv'
    <3>1. /\ staged = [config |-> scan.frozen.config, content |-> scan.frozen.content,
                       design |-> Design(scan.edges[1]), anchor |-> scan.edges[1].baseline,
                       catalog |-> catalog, edges |-> scan.edges, receipt |-> staged.receipt]
          /\ Len(scan.edges) > 0
          /\ \A i \in 1..Len(scan.edges) : Design(scan.edges[i]) = Design(scan.edges[1])
          /\ staged.receipt = ChainClaim(staged) /\ staged.receipt # None
      BY <2>1 DEF ScanInv, PackageInv
    <3>2. staged' = [config |-> scan'.frozen.config, content |-> scan'.frozen.content,
                     design |-> Design(scan'.edges[1]), anchor |-> scan'.edges[1].baseline,
                     catalog |-> catalog', edges |-> scan'.edges, receipt |-> staged'.receipt]
      BY <2>1, <2>2, <3>1
    <3>3. staged'.receipt = ChainClaim(staged') /\ staged'.receipt # None
      BY <2>1, <3>1
    <3> QED BY <2>2, <3>1, <3>2, <3>3 DEF PackageInv
  <2>4. to \in Built
    BY DEF Built
  <2> QED BY <2>1, <2>3, <2>4, PackageStep
<1> QED BY <1>1, <1>2 DEF VerifyAgain, PublishPackage, ScanGoes, Built

LEMMA ScanNextInv == ASSUME ScanInv, [FirstBadNext]_firstBadVars PROVE ScanInv'
<1>1. CASE UNCHANGED <<scan, catalog, staged>>
  BY <1>1 DEF ScanInv, ScanTypes, ScanFrame, EdgesInv, LoopInv, PackageInv
<1>2. CASE ScanStep
  BY <1>2, ReadsInv, FreezeLockInv, AnchorInv, CheckEdgeInv, BuildChainInv, WriteReceiptInv,
     PublishesInv, AbortInv DEF ScanStep, AbortScan, Abort, ScanGoes
<1>3. CASE \E v \in 1..catalog : Republish(v)
  BY <1>1, <1>3 DEF Republish
<1> QED BY <1>1, <1>2, <1>3 DEF FirstBadNext, firstBadVars, scanVars

(* The strengthening that a scan preserves: the edges so far, from which   *)
(* build to which, under which inputs, and what the package is made of     *)
(* (orchestrate.py:228-440).                                               *)
THEOREM ScanInvariant == FirstBadSpec => []ScanInv
BY ScanInitInv, ScanNextInv, PTL DEF FirstBadSpec

(* What the project and the registry do during a scan, the package that is *)
(* staged is accepted by the verifier (orchestrate.py:228-391,             *)
(* verify.py:110-190).                                                     *)
THEOREM PackagesVerify == FirstBadSpec => []SelfVerifyAccepts
<1>1. ScanInv => SelfVerifyAccepts
  <2> SUFFICES ASSUME ScanInv, scan.pc \in {"verify", "publish"} PROVE VerifyPackage(staged)
    BY DEF SelfVerifyAccepts
  <2> DEFINE n == Len(scan.edges)
  <2>1. /\ staged.edges = scan.edges /\ staged.catalog = catalog
        /\ staged.anchor = scan.edges[1].baseline /\ staged.design = Design(scan.edges[1])
        /\ staged.config = scan.frozen.config /\ staged.content = scan.frozen.content
        /\ n > 0 /\ \A i \in 1..n : Design(scan.edges[i]) = Design(scan.edges[1])
        /\ staged.receipt = None \/ staged.receipt = ChainClaim(staged)
    BY DEF ScanInv, PackageInv, Built
  <2>2. /\ DOMAIN scan.edges = 1..n /\ n \in Nat /\ n <= catalog - 1 /\ catalog \in Nat
    BY EdgeDomain DEF ScanInv, ScanTypes, EdgesInv
  <2>3. Contiguous(staged)
    <3>1. \A i \in 1..n :
            /\ scan.edges[i].baseline.version = i
            /\ scan.edges[i].candidate.version = i + 1
            /\ i > 1 => scan.edges[i].baseline = scan.edges[i - 1].candidate
      BY DEF ScanInv, EdgesInv
    <3>2. Len(scan.edges) \in 1..(catalog - 1)
      BY <2>1, <2>2
    <3> HIDE DEF n, ScanInv
    <3> QED BY <2>1, <2>2, <3>1, <3>2 DEF Contiguous
  <2>4. Frozen(staged)
    <3>1. \A i \in 1..n : /\ scan.edges[i].config = staged.config
                         /\ scan.edges[i].content = staged.content
                         /\ Design(scan.edges[i]) = staged.design
      BY <2>1, <2>2 DEF Design, ScanInv, EdgesInv
    <3> QED BY <2>1, <2>2, <3>1 DEF Frozen, Range
  <2>5. \A i \in 1..n : scan.edges[i].class = "ATTRIBUTABLE_CHANGESET" => i = n
    BY <2>2 DEF ScanInv, EdgesInv, Clean
  <2> QED BY <2>1, <2>2, <2>3, <2>4, <2>5 DEF VerifyPackage
<1> QED BY <1>1, ScanInvariant, PTL

LEMMA MinOfOne == ASSUME NEW n \in Nat PROVE Min({n}) = n
<1>1. \E x \in {n} : \A y \in {n} : x <= y
  OBVIOUS
<1> QED BY <1>1 DEF Min

(* A published package tells the truth about the releases it names: the    *)
(* boundary is the release of the first edge that was not clean, and "no   *)
(* bad" covers the whole range (claims.py:44-64, orchestrate.py:330-440).  *)
THEOREM ClaimsAreJustified == FirstBadSpec => []PublishedIsJustified
<1>1. ScanInv => PublishedIsJustified
  <2> SUFFICES ASSUME ScanInv, scan.pc = "published" PROVE PublishedIsJustified
    BY DEF PublishedIsJustified
  <2> DEFINE n == Len(scan.edges)
             last == scan.edges[n]
             receipt == staged.receipt
             clean == {v \in 2..catalog : v - 1 \in DOMAIN scan.edges /\ Clean(scan.edges[v - 1])}
             dirty == {i \in DOMAIN scan.edges : ~Clean(scan.edges[i])}
  <2>1. /\ staged.edges = scan.edges /\ staged.catalog = catalog
        /\ n > 0 /\ \A i \in 1..n : Design(scan.edges[i]) = Design(scan.edges[1])
        /\ receipt = ChainClaim(staged)
    BY DEF ScanInv, PackageInv, Built
  <2>2. DOMAIN scan.edges = 1..n /\ n \in Nat /\ n <= catalog - 1 /\ catalog \in Nat
    BY EdgeDomain DEF ScanInv, ScanTypes, EdgesInv
  <2>3. /\ \A i \in 1..n : i < n => Clean(scan.edges[i])
        /\ last.class \in Claims /\ last.candidate.version = n + 1
    BY <2>1, <2>2 DEF ScanInv, EdgesInv
  <2>4. \A edge \in Range(scan.edges) :
          /\ edge.config = scan.frozen.config /\ edge.content = scan.frozen.content
          /\ edge.protocol = scan.edges[1].protocol
    <3>1. \A i \in 1..n :
            /\ scan.edges[i].config = scan.frozen.config
            /\ scan.edges[i].content = scan.frozen.content
            /\ scan.edges[i].protocol = scan.edges[1].protocol
      BY <2>1, <2>2 DEF Design, ScanInv, EdgesInv
    <3> QED BY <2>2, <3>1 DEF Range
  <2>5. Last(scan.edges) = last
    BY DEF Last
  <2>6. CASE Clean(last)
    <3>1. \A i \in 1..n : Clean(scan.edges[i])
      BY <2>2, <2>3, <2>6
    <3>2. dirty = {}
      BY <2>2, <3>1
    <3>3. receipt = IF n = catalog - 1 THEN [claim |-> "NO_ATTRIBUTABLE_BAD_FOUND", boundary |-> None]
                    ELSE [claim |-> "UNRESOLVED", boundary |-> None]
      BY <2>1, <3>2 DEF ChainClaim
    <3>4. receipt.claim = (IF n = catalog - 1 THEN "NO_ATTRIBUTABLE_BAD_FOUND" ELSE "UNRESOLVED")
      BY <3>3
    <3>5. clean = 2..(n + 1)
      BY SMTT(60), <2>2, <3>1
    <3>6. clean = 2..catalog <=> n = catalog - 1
      <4> HIDE DEF clean
      <4>1. catalog \in 2..catalog
        BY <2>1, <2>2
      <4>2. n + 1 = catalog => clean = 2..catalog
        BY <3>5
      <4>3. n + 1 # catalog => catalog \notin clean
        <5>1. n + 1 # catalog => n + 1 < catalog
          BY <2>2
        <5> QED  BY <2>2, <3>5, <5>1
      <4>4. n + 1 = catalog <=> n = catalog - 1
        BY <2>2
      <4> QED  BY <4>1, <4>2, <4>3, <4>4
    <3>7. last.class # "ATTRIBUTABLE_CHANGESET"
      BY <2>6 DEF Clean
    <3> HIDE DEF receipt, clean, last
    <3> QED BY <2>4, <2>5, <3>4, <3>6, <3>7 DEF PublishedIsJustified, receipt, clean
  <2>7. CASE ~Clean(last)
    <3>1. dirty = {n}
      <4>1. n \in 1..n /\ ~Clean(scan.edges[n])
        BY <2>1, <2>2, <2>7
      <4>2. ASSUME NEW i \in 1..n, i # n PROVE Clean(scan.edges[i])
        <5>1. i < n
          BY <2>2, <4>2
        <5> QED  BY <2>3, <5>1
      <4> HIDE DEF n
      <4> QED  BY <2>2, <4>1, <4>2
    <3>2. Min(dirty) = n
      BY <2>2, <3>1, MinOfOne
    <3>3. receipt = IF last.class = "UNRESOLVED" THEN [claim |-> "UNRESOLVED", boundary |-> None]
                    ELSE [claim |-> "FIRST_ATTRIBUTABLE_BAD", boundary |-> last.candidate.version]
      <4>1. dirty # {}
        BY <3>1
      <4> QED BY <2>1, <3>2, <4>1 DEF ChainClaim
    <3>4. last.class \in {"UNRESOLVED", "ATTRIBUTABLE_CHANGESET"}
      BY <2>3, <2>7 DEF Clean, Claims
    <3>5. /\ receipt.claim = (IF last.class = "UNRESOLVED" THEN "UNRESOLVED"
                             ELSE "FIRST_ATTRIBUTABLE_BAD")
          /\ last.class # "UNRESOLVED" => receipt.boundary = n + 1
      BY <2>3, <3>3
    <3>6. clean = 2..n
      BY SMTT(60), <2>1, <2>2, <2>3, <2>7
    <3>7. clean # 2..catalog
      <4>1. catalog \in 2..catalog /\ catalog \notin 2..n
        BY <2>1, <2>2
      <4> QED BY <3>6, <4>1
    <3>8. receipt.claim = "FIRST_ATTRIBUTABLE_BAD" => clean = 2..(receipt.boundary - 1)
      BY <2>2, <3>5, <3>6
    <3> HIDE DEF receipt, clean, last
    <3> QED BY <2>4, <2>5, <3>4, <3>5, <3>7, <3>8 DEF PublishedIsJustified, receipt, clean
  <2> QED BY <2>6, <2>7
<1> QED BY <1>1, ScanInvariant, PTL

(* A scan leaves the project and the exports of other commands alone, so   *)
(* that all that is proved of them holds beside it                         *)
(* (orchestrate.py:156-193).                                               *)
THEOREM ScansLeaveExports == FirstBadSpec => ExportSpec
<1>1. FirstBadInit => ExportInit
  BY DEF FirstBadInit
<1>2. [FirstBadNext]_firstBadVars => [ExportNext]_exportVars
  <2>1. ScanStep => UNCHANGED exportVars
    BY DEF ScanStep, ReadConfig, ReadCanaries, FreezeLock, Anchor, CheckEdge, BuildChain,
       WriteReceipt, VerifyAgain, PublishPackage, AbortScan, Abort, ScanGoes
  <2>2. (\E v \in 1..catalog : Republish(v)) => UNCHANGED exportVars
    BY DEF Republish
  <2> QED BY <2>1, <2>2 DEF FirstBadNext, firstBadVars
<1> QED BY <1>1, <1>2, PTL DEF FirstBadSpec, ExportSpec
-----------------------------------------------------------------------------
(* The scan and the promise of a bisection.  There is no package before    *)
(* the edges are complete, the receipt is the claim of the edges it stands *)
(* beside, and a prefix that ended at a baseline is clean and short.       *)
Prefixed ==
  scan.ended =>
    /\ scan.pc \notin Before \cup InLoop
    /\ Len(scan.edges) < catalog - 1
    /\ \A i \in 1..Len(scan.edges) : Clean(scan.edges[i])

Packaged ==
  /\ scan.pc \in Before \cup InLoop \cup {"chain"} => staged = None
  /\ staged # None =>
       /\ staged.edges = scan.edges /\ staged.catalog = catalog
       /\ staged.receipt # None => staged.receipt = ChainClaim(staged)

PromiseInv == Prefixed /\ Packaged

LEMMA PromiseInitInv == ASSUME FirstBadInit PROVE PromiseInv
<1>1. /\ scan = [pc |-> "idle", frozen |-> None, config |-> None, canaries |-> None,
                 lock |-> None, edges |-> <<>>, ended |-> FALSE]
      /\ staged = None
  BY DEF FirstBadInit, ScanInit
<1> QED BY <1>1 DEF PromiseInv, Prefixed, Packaged

(* A step that leaves the edges and the package alone.                     *)
LEMMA PromiseMoves ==
  ASSUME PromiseInv, UNCHANGED <<catalog, staged>>,
         scan'.edges = scan.edges, scan'.ended = scan.ended,
         scan'.pc \in Before \cup InLoop \cup {"chain"} => scan.pc \in Before \cup InLoop,
         scan'.pc \in Before \cup InLoop => ~scan.ended
  PROVE  PromiseInv'
BY DEF PromiseInv, Prefixed, Packaged

(* What the steps that are not of the judging do to the scan.              *)
LEMMA MoveFacts ==
  ASSUME ScanInv, ReadConfig \/ ReadCanaries \/ FreezeLock \/ VerifyAgain \/ PublishPackage \/ AbortScan
  PROVE  /\ UNCHANGED <<catalog, staged>>
         /\ scan'.edges = scan.edges /\ scan'.ended = scan.ended
         /\ scan'.pc \notin Before \cup InLoop \cup {"chain"} \/ scan.pc \in Before \cup InLoop
<1>1. scan \in ScanFrame
  BY DEF ScanInv, ScanTypes
<1>2. CASE ReadConfig \/ ReadCanaries
  BY <1>1, <1>2 DEF ReadConfig, ReadCanaries, ScanFrame, Before, InLoop
<1>3. CASE FreezeLock
  BY <1>1, <1>3 DEF FreezeLock, ScanFrame, Before, InLoop
<1>4. CASE VerifyAgain \/ PublishPackage \/ AbortScan
  BY <1>1, <1>4 DEF VerifyAgain, PublishPackage, AbortScan, Abort, ScanGoes, ScanFrame, Before, InLoop
<1> QED BY <1>2, <1>3, <1>4

(* The scan that judged an edge, and the one that gave up on it.           *)
LEMMA EdgeChecked ==
  ASSUME ScanInv, NEW claims \in SUBSET Claims \ {{}}, CheckEdge(claims)
  PROVE  /\ scan.pc = "check" /\ UNCHANGED <<catalog, staged>> /\ scan'.ended = scan.ended
         /\ \/ scan'.pc = "aborted" /\ scan'.edges = scan.edges
            \/ /\ scan'.pc \in {"snapshot", "chain"}
               /\ \E edge : edge.class \in Claims /\ scan'.edges = Append(scan.edges, edge)
<1> DEFINE n == Len(scan.edges)
           edge == [baseline |-> scan.lock.agent,
                    candidate |-> Identity(n + 1 + 1, build[n + 1 + 1]),
                    config |-> scan.config, content |-> scan.canaries.content,
                    protocol |-> scan.canaries.protocol,
                    class |-> Classification(claims)]
           to == IF Clean(edge) /\ n + 1 + 1 < catalog THEN "snapshot" ELSE "chain"
<1>1. /\ scan.pc = "check" /\ catalog' = catalog /\ staged' = staged
      /\ \/ scan' = [scan EXCEPT !.pc = "aborted"]
         \/ scan' = [scan EXCEPT !.pc = to, !.edges = Append(scan.edges, edge)]
  BY DEF CheckEdge
<1>2. edge.class \in Claims
  BY DEF Classification, Claims
<1>3. to \in {"snapshot", "chain"}
  OBVIOUS
<1> HIDE DEF edge, to
<1>4. scan \in ScanFrame
  BY DEF ScanInv, ScanTypes
<1> QED BY <1>1, <1>2, <1>3, <1>4 DEF ScanFrame

(* What the anchor of an edge is, or that the prefix ends there.           *)
LEMMA Anchored ==
  ASSUME ScanInv, Anchor
  PROVE  /\ scan.pc = "anchor" /\ UNCHANGED <<catalog, staged>> /\ scan'.edges = scan.edges
         /\ \/ scan'.pc = "check" /\ scan'.ended = scan.ended
            \/ scan'.pc = "chain" /\ scan'.ended = TRUE /\ scan.edges # <<>>
<1>1. scan \in ScanFrame
  BY DEF ScanInv, ScanTypes
<1> QED BY <1>1 DEF Anchor, ScanFrame

LEMMA Chained ==
  ASSUME ScanInv, BuildChain
  PROVE  /\ scan.pc = "chain" /\ catalog' = catalog /\ scan'.edges = scan.edges
         /\ scan'.ended = scan.ended /\ scan'.pc \in {"verify", "aborted"}
         /\ \/ staged' = staged
            \/ staged'.edges = scan.edges /\ staged'.catalog = catalog /\ staged'.receipt = None
<1>1. scan \in ScanFrame
  BY DEF ScanInv, ScanTypes
<1> QED BY <1>1 DEF BuildChain, Abort, ScanGoes, ScanFrame

LEMMA Received ==
  ASSUME ScanInv, WriteReceipt
  PROVE  /\ scan.pc = "verify" /\ catalog' = catalog /\ scan'.edges = scan.edges
         /\ scan'.ended = scan.ended /\ scan'.pc \in {"verify", "aborted"}
         /\ staged.receipt = None
         /\ \/ staged' = staged
            \/ /\ staged'.edges = scan.edges /\ staged'.catalog = catalog
               /\ staged'.receipt = ChainClaim(staged')
<1>1. scan \in ScanFrame /\ scan.pc = "verify" /\ catalog' = catalog /\ staged.receipt = None
  BY DEF ScanInv, ScanTypes, WriteReceipt, ScanGoes, Abort
<1>2. CASE Abort
  BY <1>1, <1>2 DEF Abort, ScanGoes, ScanFrame
<1>3. CASE ScanGoes("verify", "verify") /\ staged' = [staged EXCEPT !.receipt = ChainClaim(staged)]
  <2> DEFINE receipt == ChainClaim(staged)
  <2>1. staged' = [staged EXCEPT !.receipt = receipt]
    BY <1>3
  <2> HIDE DEF receipt
  <2>2. staged = [config |-> scan.frozen.config, content |-> scan.frozen.content,
                  design |-> Design(scan.edges[1]), anchor |-> scan.edges[1].baseline,
                  catalog |-> catalog, edges |-> scan.edges, receipt |-> staged.receipt]
    BY <1>1 DEF ScanInv, PackageInv, Built
  <2>3. /\ staged.edges = scan.edges /\ staged.catalog = catalog
        /\ staged'.edges = scan.edges /\ staged'.catalog = catalog /\ staged'.receipt = receipt
    BY <2>1, <2>2
  <2>4. ChainClaim(staged') = receipt
    BY <2>3, SameChain DEF receipt
  <2>5. scan'.edges = scan.edges /\ scan'.ended = scan.ended /\ scan'.pc = "verify"
    BY <1>1, <1>3 DEF ScanGoes, ScanFrame
  <2> QED BY <1>1, <2>3, <2>4, <2>5
<1> QED BY <1>2, <1>3 DEF WriteReceipt

LEMMA PromiseNextInv ==
  ASSUME ScanInv, PromiseInv, [FirstBadNext]_firstBadVars PROVE PromiseInv'
<1>1. CASE UNCHANGED <<scan, catalog, staged>>
  BY <1>1 DEF PromiseInv, Prefixed, Packaged
<1>2. CASE ReadConfig \/ ReadCanaries \/ FreezeLock \/ VerifyAgain \/ PublishPackage \/ AbortScan
  BY <1>2, MoveFacts, PromiseMoves DEF PromiseInv, Prefixed
<1>3. CASE \E claims \in SUBSET Claims \ {{}} : CheckEdge(claims)
  <2>1. /\ scan.pc = "check" /\ UNCHANGED <<catalog, staged>> /\ scan'.ended = scan.ended
        /\ scan'.pc = "aborted" \/ scan'.pc \in {"snapshot", "chain"}
    BY <1>3, EdgeChecked
  <2>2. ~scan.ended /\ staged = None
    BY <2>1 DEF PromiseInv, Prefixed, Packaged, InLoop
  <2> QED BY <2>1, <2>2 DEF PromiseInv, Prefixed, Packaged
<1>4. CASE Anchor
  <2>1. scan.pc \in InLoop /\ ~scan.ended /\ staged = None
    BY <1>4, Anchored DEF PromiseInv, Prefixed, Packaged, InLoop
  <2>2. /\ Len(scan.edges) < catalog - 1
        /\ \A i \in 1..Len(scan.edges) : Clean(scan.edges[i])
    BY <2>1 DEF ScanInv, EdgesInv, LoopInv
  <2>3. /\ UNCHANGED <<catalog, staged>> /\ scan'.edges = scan.edges
        /\ \/ scan'.pc = "check" /\ scan'.ended = scan.ended
           \/ scan'.pc = "chain" /\ scan'.ended = TRUE
    BY <1>4, Anchored
  <2> QED BY <2>1, <2>2, <2>3 DEF PromiseInv, Prefixed, Packaged, Before, InLoop
<1>5. CASE BuildChain
  <2>1. /\ scan.pc = "chain" /\ catalog' = catalog /\ scan'.edges = scan.edges
        /\ scan'.ended = scan.ended /\ scan'.pc \in {"verify", "aborted"}
        /\ \/ staged' = staged
           \/ staged'.edges = scan.edges /\ staged'.catalog = catalog /\ staged'.receipt = None
    BY <1>5, Chained
  <2> QED BY <2>1 DEF PromiseInv, Prefixed, Packaged, Before, InLoop
<1>6. CASE WriteReceipt
  <2>1. /\ scan.pc = "verify" /\ catalog' = catalog /\ scan'.edges = scan.edges
        /\ scan'.ended = scan.ended /\ scan'.pc \in {"verify", "aborted"}
        /\ \/ staged' = staged
           \/ /\ staged'.edges = scan.edges /\ staged'.catalog = catalog
              /\ staged'.receipt = ChainClaim(staged')
    BY <1>6, Received
  <2>2. Prefixed'
    BY <2>1 DEF PromiseInv, Prefixed, Before, InLoop
  <2>3. Packaged'
    BY <2>1 DEF PromiseInv, Packaged, Before, InLoop
  <2> QED BY <2>2, <2>3 DEF PromiseInv
<1>7. CASE \E v \in 1..catalog : Republish(v)
  BY <1>1, <1>7 DEF Republish
<1> QED BY <1>1, <1>2, <1>3, <1>4, <1>5, <1>6, <1>7
        DEF FirstBadNext, ScanStep, firstBadVars, scanVars

-----------------------------------------------------------------------------
(* What the promise is shown: the releases above the baseline, the verdict *)
(* of each edge, and the claim.                                            *)
Above(n) == [i \in 1..(n - 1) |-> i + 1]

EdgeVerdicts == [i \in DOMAIN scan.edges |-> EdgeVerdict[scan.edges[i].class]]

ClaimsNoBad ==
  /\ staged # None /\ staged.receipt # None
  /\ staged.receipt.claim = "NO_ATTRIBUTABLE_BAD_FOUND"

ScanClaim ==
  IF staged # None /\ staged.receipt # None
     /\ staged.receipt.claim = "NO_ATTRIBUTABLE_BAD_FOUND"
  THEN "NO_BAD_FOUND"
  ELSE IF ScanVerdicts = <<>> THEN None
  ELSE [PASS |-> None, BLOCK |-> "FIRST_BAD_FOUND", WARN |-> "WARN_UNRESOLVED",
        INCOMPLETE |-> "INCOMPLETE"][Last(ScanVerdicts)]

LEMMA VerdictOf ==
  ASSUME NEW edge, edge.class \in Claims
  PROVE  /\ EdgeVerdict[edge.class] \in {"PASS", "BLOCK", "WARN"}
         /\ Clean(edge) => EdgeVerdict[edge.class] = "PASS"
BY DEF EdgeVerdict, Claims, Clean

VerdictsAreOfEdges ==
  /\ EdgeVerdicts \in Seq(ScanPromise!Verdicts)
  /\ Len(EdgeVerdicts) = Len(scan.edges)
  /\ \A i \in 1..Len(scan.edges) : EdgeVerdicts[i] = EdgeVerdict[scan.edges[i].class]
  /\ scan.ended => ScanVerdicts = Append(EdgeVerdicts, "INCOMPLETE")
  /\ ~scan.ended => ScanVerdicts = EdgeVerdicts

LEMMA VerdictsOfEdges == ScanInv => VerdictsAreOfEdges
<1> SUFFICES ASSUME ScanInv PROVE VerdictsAreOfEdges
  OBVIOUS
<1> DEFINE n == Len(scan.edges)
<1>1. n \in Nat /\ DOMAIN scan.edges = 1..n
  BY EdgeDomain
<1>2. \A i \in 1..n : EdgeVerdict[scan.edges[i].class] \in ScanPromise!Verdicts
  <2>1. \A i \in 1..n : scan.edges[i].class \in Claims
    BY DEF ScanInv, EdgesInv
  <2> QED BY <2>1, VerdictOf DEF ScanPromise!Verdicts
<1>3. EdgeVerdicts = [i \in 1..n |-> EdgeVerdict[scan.edges[i].class]]
  BY <1>1 DEF EdgeVerdicts
<1>4. EdgeVerdicts \in [1..n -> ScanPromise!Verdicts]
  BY <1>2, <1>3
<1>5. EdgeVerdicts \in Seq(ScanPromise!Verdicts) /\ Len(EdgeVerdicts) = n
  BY <1>1, <1>4
<1>6. ScanVerdicts = EdgeVerdicts \o (IF scan.ended THEN <<"INCOMPLETE">> ELSE <<>>)
  BY DEF ScanVerdicts, EdgeVerdicts
<1>7. scan.ended => ScanVerdicts = Append(EdgeVerdicts, "INCOMPLETE")
  <2>1. "INCOMPLETE" \in ScanPromise!Verdicts
    BY DEF ScanPromise!Verdicts
  <2> QED BY <1>5, <1>6, <2>1, AppendIsConcat
<1>8. ~scan.ended => ScanVerdicts = EdgeVerdicts
  BY <1>5, <1>6, ConcatEmptySeq
<1> QED BY <1>3, <1>5, <1>7, <1>8 DEF VerdictsAreOfEdges

LEMMA VerdictsOfEdgesNext == ScanInv' => VerdictsAreOfEdges'
BY VerdictsOfEdges, PTL

(* An edge more is a verdict more.                                         *)
LEMMA EdgesAppended ==
  ASSUME ScanInv, ScanInv', ~scan.ended, scan'.ended = scan.ended,
         NEW edge, scan'.edges = Append(scan.edges, edge)
  PROVE  ScanVerdicts' = Append(ScanVerdicts, EdgeVerdict[edge.class])
<1> DEFINE n == Len(scan.edges)
           v == EdgeVerdict[edge.class]
<1>1. PICK Edges : scan.edges \in Seq(Edges)
  BY DEF ScanInv, ScanTypes
<1>2. /\ n \in Nat /\ Len(scan'.edges) = n + 1
      /\ \A i \in 1..n : scan'.edges[i] = scan.edges[i]
      /\ scan'.edges[n + 1] = edge
  <2>1. scan.edges \in Seq(Edges \cup {edge})
    BY <1>1
  <2> QED BY <2>1, AppendProperties
<1>3. /\ ScanVerdicts = EdgeVerdicts /\ EdgeVerdicts \in Seq(ScanPromise!Verdicts)
      /\ Len(EdgeVerdicts) = n
      /\ \A i \in 1..n : EdgeVerdicts[i] = EdgeVerdict[scan.edges[i].class]
  BY VerdictsOfEdges DEF VerdictsAreOfEdges
<1>4. /\ ScanVerdicts' = EdgeVerdicts' /\ EdgeVerdicts' \in Seq(ScanPromise!Verdicts)
      /\ Len(EdgeVerdicts') = n + 1
      /\ \A i \in 1..(n + 1) : EdgeVerdicts'[i] = EdgeVerdict[scan'.edges[i].class]
  BY <1>2, VerdictsOfEdgesNext DEF VerdictsAreOfEdges
<1>5. v \in ScanPromise!Verdicts
  BY <1>2, <1>4
<1> HIDE DEF v
<1> DEFINE more == Append(EdgeVerdicts, v)
<1>6. /\ more \in Seq(ScanPromise!Verdicts)
      /\ Len(more) = n + 1
      /\ \A i \in 1..n : more[i] = EdgeVerdicts[i]
      /\ more[n + 1] = v
  BY <1>3, <1>5, AppendProperties
<1> HIDE DEF more
<1>7. \A i \in 1..(n + 1) : EdgeVerdicts'[i] = more[i]
  <2> TAKE i \in 1..(n + 1)
  <2>1. CASE i \in 1..n
    BY SMTT(30), <1>2, <1>3, <1>4, <1>6, <2>1
  <2>2. CASE i = n + 1
    <3>1. EdgeVerdicts'[i] = EdgeVerdict[scan'.edges[i].class]
      BY <1>4
    <3>2. scan'.edges[i] = edge
      BY <1>2, <2>2
    <3>3. EdgeVerdicts'[i] = v
      BY <3>1, <3>2 DEF v
    <3>4. more[i] = v
      BY <1>6, <2>2
    <3> QED BY <3>3, <3>4
  <2> QED BY <1>2, <2>1, <2>2
<1>8. EdgeVerdicts' = more
  BY <1>4, <1>6, <1>7, SeqEqual
<1> QED BY <1>3, <1>4, <1>8 DEF v, more

(* While edges are judged nothing is claimed.                              *)
LEMMA NothingClaimed ==
  ASSUME ScanInv, PromiseInv, ~ClaimsNoBad, ~scan.ended,
         \A i \in 1..Len(scan.edges) : Clean(scan.edges[i])
  PROVE  ScanClaim = None /\ Len(ScanVerdicts) = Len(scan.edges)
<1>1. /\ ScanVerdicts = EdgeVerdicts /\ EdgeVerdicts \in Seq(ScanPromise!Verdicts)
      /\ Len(EdgeVerdicts) = Len(scan.edges)
      /\ \A i \in 1..Len(scan.edges) : EdgeVerdicts[i] = EdgeVerdict[scan.edges[i].class]
  BY VerdictsOfEdges DEF VerdictsAreOfEdges
<1>2. CASE ScanVerdicts = <<>>
  BY <1>1, <1>2 DEF ScanClaim, ClaimsNoBad
<1>3. CASE ScanVerdicts # <<>>
  <2>1. Len(scan.edges) > 0 /\ Len(scan.edges) \in Nat
    BY <1>1, <1>3, EmptySeq
  <2>2. Last(ScanVerdicts) = EdgeVerdict[scan.edges[Len(scan.edges)].class]
    BY <1>1, <2>1 DEF Last
  <2>3. Last(ScanVerdicts) = "PASS"
    BY <2>1, <2>2 DEF EdgeVerdict, Clean
  <2> QED BY <1>1, <1>3, <2>3 DEF ScanClaim, ClaimsNoBad
<1> QED BY <1>2, <1>3

(* A verdict more, and what it claims.                                     *)
LEMMA Judges ==
  ASSUME ScanInv, PromiseInv, ScanInv', catalog' = catalog, staged' = staged, staged = None,
         scan.pc \in InLoop, NEW v \in ScanPromise!Verdicts,
         ScanVerdicts' = Append(ScanVerdicts, v)
  PROVE  ScanPromise!Judge
<1>1. /\ Len(scan.edges) < catalog - 1 /\ ~scan.ended /\ catalog \in Nat /\ Len(scan.edges) \in Nat
      /\ \A i \in 1..Len(scan.edges) : Clean(scan.edges[i])
  BY EdgeDomain DEF ScanInv, ScanTypes, EdgesInv, LoopInv, PromiseInv, Prefixed
<1>2. ~ClaimsNoBad /\ ~ClaimsNoBad'
  BY DEF ClaimsNoBad
<1>3. ScanClaim = None /\ Len(ScanVerdicts) = Len(scan.edges)
  BY <1>1, <1>2, NothingClaimed
<1>4. ScanVerdicts \in Seq(ScanPromise!Verdicts)
  BY <1>1, VerdictsOfEdges DEF VerdictsAreOfEdges
<1>5. ScanVerdicts' # <<>> /\ Last(ScanVerdicts') = v
  BY <1>4, AppendProperties DEF Last
<1>6. ScanClaim' = ScanPromise!ClaimOf[v]
  BY <1>2, <1>5 DEF ScanClaim, ClaimsNoBad, ScanPromise!ClaimOf
<1>7. Len(Above(catalog)) = catalog - 1 /\ Above(catalog') = Above(catalog)
  BY <1>1 DEF Above
<1>8. ScanClaim = None /\ Len(ScanVerdicts) < Len(Above(catalog))
  BY <1>1, <1>3, <1>7
<1>9. \E w \in ScanPromise!Verdicts :
        ScanVerdicts' = Append(ScanVerdicts, w) /\ ScanClaim' = ScanPromise!ClaimOf[w]
  BY <1>6
<1> HIDE DEF ScanClaim
<1> QED BY <1>7, <1>8, <1>9 DEF ScanPromise!Judge, Above, ScanClaim

(* A step that leaves the verdicts and the package alone.                  *)
LEMMA ScanStands ==
  ASSUME UNCHANGED <<catalog, staged>>, scan'.edges = scan.edges, scan'.ended = scan.ended
  PROVE  UNCHANGED ScanPromise!vars
<1>1. ScanVerdicts' = ScanVerdicts
  BY DEF ScanVerdicts
<1> QED BY <1>1 DEF ScanPromise!vars

(* A package without a receipt claims nothing new.                         *)
LEMMA NotClaimedYet ==
  ASSUME catalog' = catalog, scan'.edges = scan.edges, scan'.ended = scan.ended,
         ClaimsNoBad' <=> ClaimsNoBad
  PROVE  UNCHANGED ScanPromise!vars
<1>1. ScanVerdicts' = ScanVerdicts
  BY DEF ScanVerdicts
<1> QED BY <1>1 DEF ScanPromise!vars, ClaimsNoBad

LEMMA PromiseInitial == ASSUME FirstBadInit PROVE ScanPromise!Init
<1>1. /\ scan = [pc |-> "idle", frozen |-> None, config |-> None, canaries |-> None,
                 lock |-> None, edges |-> <<>>, ended |-> FALSE]
      /\ staged = None /\ catalog \in 2..MaxReleases
  BY ReleasesAssumption DEF FirstBadInit, ScanInit
<1>2. scan.edges = <<>> /\ ~scan.ended
  BY <1>1
<1>3. ScanInv
  BY ScanInitInv
<1>4. ScanVerdicts = <<>>
  BY <1>2, <1>3, VerdictsOfEdges, EmptySeq DEF VerdictsAreOfEdges
<1>5. ScanClaim = None
  BY <1>1, <1>4 DEF ScanClaim
<1>6. Above(catalog) \in {Above(n) : n \in 2..MaxReleases}
  BY <1>1
<1> QED BY <1>4, <1>5, <1>6 DEF ScanPromise!Init, ScanClaim, Above

(* The receipt that says there is no bad release concludes the scan.       *)
LEMMA ReceiptConcludes ==
  ASSUME ScanInv, PromiseInv, PromiseInv', WriteReceipt, ClaimsNoBad'
  PROVE  ScanPromise!Conclude
<1> DEFINE n == Len(scan.edges)
<1>1. /\ catalog' = catalog /\ scan'.edges = scan.edges /\ scan'.ended = scan.ended
      /\ staged.receipt = None
      /\ staged'.edges = scan.edges /\ staged'.catalog = catalog
      /\ staged'.receipt = ChainClaim(staged')
  BY Received DEF ClaimsNoBad
<1>2. ~ClaimsNoBad
  BY <1>1 DEF ClaimsNoBad
<1>3. DOMAIN scan.edges = 1..n /\ n \in Nat /\ catalog \in Nat
  BY EdgeDomain DEF ScanInv, ScanTypes
<1>4. /\ \A i \in 1..n : Clean(scan.edges[i])
      /\ n = catalog - 1
  <2> DEFINE dirty == {i \in DOMAIN staged'.edges : ~Clean(staged'.edges[i])}
             edge == staged'.edges[Min(dirty)]
  <2>1. staged'.receipt.claim = "NO_ATTRIBUTABLE_BAD_FOUND"
    BY DEF ClaimsNoBad
  <2>2. staged'.receipt = IF dirty # {}
                          THEN IF edge.class = "UNRESOLVED"
                               THEN [claim |-> "UNRESOLVED", boundary |-> None]
                               ELSE [claim |-> "FIRST_ATTRIBUTABLE_BAD",
                                     boundary |-> edge.candidate.version]
                          ELSE IF Len(staged'.edges) = staged'.catalog - 1
                          THEN [claim |-> "NO_ATTRIBUTABLE_BAD_FOUND", boundary |-> None]
                          ELSE [claim |-> "UNRESOLVED", boundary |-> None]
    BY <1>1 DEF ChainClaim
  <2>3. \A i \in 1..n : i \notin dirty => Clean(scan.edges[i])
    BY <1>1, <1>3
  <2> HIDE DEF dirty, edge
  <2>4. dirty = {} /\ Len(staged'.edges) = staged'.catalog - 1
    BY <2>1, <2>2
  <2> QED BY <1>1, <2>3, <2>4
<1>5. ~scan.ended
  BY <1>3, <1>4 DEF PromiseInv, Prefixed
<1>6. ScanClaim = None /\ Len(ScanVerdicts) = n
  BY <1>2, <1>4, <1>5, NothingClaimed
<1>7. Len(Above(catalog)) = catalog - 1 /\ Above(catalog') = Above(catalog)
  BY <1>1, <1>3, <1>4 DEF Above
<1>8. ScanVerdicts' = ScanVerdicts
  BY <1>1 DEF ScanVerdicts
<1>9. ScanClaim = None /\ Len(ScanVerdicts) = Len(Above(catalog)) /\ ScanClaim' = "NO_BAD_FOUND"
  BY <1>4, <1>6, <1>7 DEF ScanClaim, ClaimsNoBad
<1> QED BY <1>7, <1>8, <1>9 DEF ScanPromise!Conclude, Above, ScanClaim

(* A scan keeps the promise of a bisection, one release at a time: an edge *)
(* is judged only after every older one came out clean, and the receipt    *)
(* says "no bad" only once all were judged (orchestrate.py:228-391,        *)
(* claims.py:44-64).                                                       *)
THEOREM ScanKeepsItsPromise == FirstBadSpec => ScanKeepsPromise
<1>1. FirstBadInit => ScanPromise!Init
  BY PromiseInitial
<1>2. ASSUME ScanInv, PromiseInv, ScanInv', PromiseInv', [FirstBadNext]_firstBadVars
      PROVE  [ScanPromise!Next]_(ScanPromise!vars)
  <2>1. CASE UNCHANGED <<scan, catalog, staged>>
    BY <2>1, ScanStands
  <2>2. CASE ReadConfig \/ ReadCanaries \/ FreezeLock \/ VerifyAgain \/ PublishPackage \/ AbortScan
    BY <1>2, <2>2, MoveFacts, ScanStands
  <2>3. CASE \E claims \in SUBSET Claims \ {{}} : CheckEdge(claims)
    <3>1. /\ scan.pc = "check" /\ UNCHANGED <<catalog, staged>> /\ scan'.ended = scan.ended
          /\ \/ scan'.edges = scan.edges
             \/ \E edge : edge.class \in Claims /\ scan'.edges = Append(scan.edges, edge)
      BY <1>2, <2>3, EdgeChecked
    <3>2. CASE scan'.edges = scan.edges
      BY <3>1, <3>2, ScanStands
    <3>3. CASE \E edge : edge.class \in Claims /\ scan'.edges = Append(scan.edges, edge)
      <4>1. PICK edge : edge.class \in Claims /\ scan'.edges = Append(scan.edges, edge)
        BY <3>3
      <4> DEFINE v == EdgeVerdict[edge.class]
      <4>2. v \in ScanPromise!Verdicts
        BY <4>1, VerdictOf DEF ScanPromise!Verdicts
      <4>3. scan.pc \in InLoop /\ ~scan.ended /\ staged = None
        BY <1>2, <3>1 DEF PromiseInv, Prefixed, Packaged, InLoop
      <4>4. ScanVerdicts' = Append(ScanVerdicts, v)
        BY <1>2, <3>1, <4>1, <4>3, EdgesAppended
      <4> HIDE DEF v
      <4> QED BY <1>2, <3>1, <4>2, <4>3, <4>4, Judges DEF ScanPromise!Next
    <3> QED BY <3>1, <3>2, <3>3
  <2>4. CASE Anchor
    <3>1. /\ scan.pc = "anchor" /\ UNCHANGED <<catalog, staged>> /\ scan'.edges = scan.edges
          /\ scan'.ended = scan.ended \/ scan'.ended = TRUE
      BY <1>2, <2>4, Anchored
    <3>2. CASE scan'.ended = scan.ended
      BY <3>1, <3>2, ScanStands
    <3>3. CASE scan'.ended = TRUE
      <4>1. scan.pc \in InLoop /\ ~scan.ended /\ staged = None
        BY <1>2, <3>1 DEF PromiseInv, Prefixed, Packaged, InLoop
      <4>2. EdgeVerdicts' = EdgeVerdicts
        BY <3>1 DEF EdgeVerdicts
      <4>3. /\ ScanVerdicts = EdgeVerdicts
            /\ ScanVerdicts' = Append(EdgeVerdicts', "INCOMPLETE")
        BY <1>2, <3>3, <4>1, VerdictsOfEdges, VerdictsOfEdgesNext DEF VerdictsAreOfEdges
      <4>4. "INCOMPLETE" \in ScanPromise!Verdicts
        BY DEF ScanPromise!Verdicts
      <4> QED BY <1>2, <3>1, <4>1, <4>2, <4>3, <4>4, Judges DEF ScanPromise!Next
    <3> QED BY <3>1, <3>2, <3>3
  <2>5. CASE BuildChain
    <3>1. /\ catalog' = catalog /\ scan'.edges = scan.edges /\ scan'.ended = scan.ended
          /\ scan.pc = "chain"
          /\ staged' = staged \/ staged'.receipt = None
      BY <1>2, <2>5, Chained
    <3>2. ClaimsNoBad' <=> ClaimsNoBad
      BY <1>2, <3>1 DEF ClaimsNoBad, PromiseInv, Packaged
    <3> QED BY <3>1, <3>2, NotClaimedYet
  <2>6. CASE WriteReceipt
    <3>1. CASE ClaimsNoBad'
      BY <1>2, <2>6, <3>1, ReceiptConcludes DEF ScanPromise!Next
    <3>2. CASE ~ClaimsNoBad'
      <4>1. /\ catalog' = catalog /\ scan'.edges = scan.edges /\ scan'.ended = scan.ended
            /\ staged.receipt = None
        BY <1>2, <2>6, Received
      <4>2. ClaimsNoBad' <=> ClaimsNoBad
        BY <3>2, <4>1 DEF ClaimsNoBad
      <4> QED BY <4>1, <4>2, NotClaimedYet
    <3> QED BY <3>1, <3>2
  <2>7. CASE \E v \in 1..catalog : Republish(v)
    BY <2>1, <2>7 DEF Republish
  <2> QED BY <1>2, <2>1, <2>2, <2>3, <2>4, <2>5, <2>6, <2>7
          DEF FirstBadNext, ScanStep, firstBadVars, scanVars
<1>3. ScanInv /\ PromiseInv /\ [FirstBadNext]_firstBadVars => PromiseInv'
  BY PromiseNextInv
<1> QED BY <1>1, <1>2, <1>3, PromiseInitInv, ScanInvariant, PTL
        DEF FirstBadSpec, ScanKeepsPromise, ScanPromise!Spec
=============================================================================
