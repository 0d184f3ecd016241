--------------------------- MODULE GithubPrProofs ---------------------------
(***************************************************************************)
(* Proofs that a success status is earned and that the sticky comment is   *)
(* one and never goes back, for every number of pushes and runs.           *)
(***************************************************************************)
EXTENDS GithubPr, SequenceTheorems, TLAPS

ProducerPoint == {"queued", "identity", "list files", "read lock", "upload context",
                  "qualify", "upload report", "completed"}
ReporterPoint == {"idle", "download", "no context", "rejected", "status", "head", "list",
                  "write", "done", "failed"}

ProducerRun ==
  [pc : ProducerPoint, head : Nat, draft : PullRequestReport \cup {None},
   candidate : Nat \cup {None}, context : PullRequestContext \cup {None},
   report : PullRequestReport \cup {None}]
ReporterRun == [pc : ReporterPoint, seen : Nat]

Types ==
  /\ commits \in Seq(Contents) /\ PrHead <= MaxPushes
  /\ runs \in Seq(ProducerRun)
  /\ reporter \in Seq(ReporterRun) /\ Len(reporter) = Len(runs)
  /\ status \in [1..MaxPushes -> {"success", "failure", "error", None}]
  /\ comments \in Seq(Nat)

(* What makes a success status of a commit right.                          *)
Earned(c) == "lock" \notin commits[c].changed \/ c \in passed \cup misread

(* A context or a report that says what leads to a success says it of a    *)
(* commit that earned it.                                                  *)
Honest(artifact) ==
  artifact.class = "not_applicable" => Earned(artifact.head)
HonestReport(report) ==
  report.verdict \in {"not_applicable", "pass"} => Earned(report.head)

(* A run is about one commit; it checks the lock of that commit.           *)
RunOK(run) ==
  /\ run.head \in 1..PrHead
  /\ run.context # None => run.context.head = run.head /\ Honest(run.context)
  /\ \A report \in {run.draft, run.report} \ {None} :
       report.head = run.head /\ Honest(report) /\ HonestReport(report)
  /\ (run.pc = "upload context" /\ run.draft = None) \/ run.pc = "qualify" =>
       run.candidate = run.head
  /\ run.pc = "qualify" => run.context # None

RunsInv == \A r \in Runs : RunOK(runs[r])

(* A reporter past the download has a context.                             *)
ReporterInv ==
  \A r \in Runs : reporter[r].pc \in {"status", "head", "list", "write"} =>
    runs[r].context # None

StatusInv ==
  \A c \in 1..MaxPushes : status[c] = "success" => c <= PrHead /\ Earned(c)

(* Unless two reporters raced, one alone is between its look at the head   *)
(* and its write: it knows of every comment, and reports no earlier commit.*)
CommentInv ==
  /\ \A i \in 1..Len(comments) : comments[i] <= PrHead
  /\ ~raced =>
       /\ Len(comments) <= 1
       /\ \A r, s \in InCommentSection : r = s
       /\ \A r \in InCommentSection :
            /\ \A i \in 1..Len(comments) : comments[i] <= runs[r].context.head
            /\ reporter[r].pc = "write" => reporter[r].seen = Len(comments)

IInv == Types /\ RunsInv /\ ReporterInv /\ StatusInv /\ CommentInv

-----------------------------------------------------------------------------
USE BoundsAssumption, ContentsAssumption, VerdictsAssumption, NoneAssumption

LEMMA InitInv == ASSUME PrInit PROVE IInv
<1>1. Types
  BY EmptySeq DEF PrInit, Types, PrHead
<1>2. Runs = {}
  BY DEF PrInit, Runs
<1>3. RunsInv /\ ReporterInv
  BY <1>2 DEF RunsInv, ReporterInv
<1>4. StatusInv
  BY DEF PrInit, StatusInv
<1>5. CommentInv
  BY <1>2 DEF PrInit, CommentInv, InCommentSection
<1> QED BY <1>1, <1>3, <1>4, <1>5 DEF IInv

(* The indices of the runs.                                                *)
LEMMA RunsRange ==
  ASSUME Types
  PROVE  /\ Len(runs) \in Nat /\ Runs = 1..Len(runs) /\ PrHead \in Nat
         /\ \A r \in Runs : runs[r] \in ProducerRun /\ reporter[r] \in ReporterRun
BY DEF Types, Runs, PrHead

(* Replacing the entry of one run.                                         *)
LEMMA ReplaceRun ==
  ASSUME Types, NEW r \in Runs, NEW run \in ProducerRun, runs' = [runs EXCEPT ![r] = run]
  PROVE  /\ runs' \in Seq(ProducerRun) /\ Len(runs') = Len(runs) /\ Runs' = Runs
         /\ \A s \in Runs : runs'[s] = IF s = r THEN run ELSE runs[s]
<1>1. r \in 1..Len(runs) /\ runs \in Seq(ProducerRun)
  BY RunsRange DEF Types
<1> QED BY <1>1, ExceptSeq, LenProperties, RunsRange DEF Runs, Types

LEMMA ReplaceReporter ==
  ASSUME Types, NEW r \in Runs, NEW rep \in ReporterRun,
         reporter' = [reporter EXCEPT ![r] = rep]
  PROVE  /\ reporter' \in Seq(ReporterRun) /\ Len(reporter') = Len(reporter)
         /\ \A s \in Runs : reporter'[s] = IF s = r THEN rep ELSE reporter[s]
<1>1. r \in 1..Len(reporter) /\ reporter \in Seq(ReporterRun)
  BY RunsRange DEF Types
<1> QED BY <1>1, ExceptSeq, RunsRange DEF Types

(* What a commit earned it keeps.                                          *)
LEMMA EarnedStays ==
  ASSUME UNCHANGED commits, passed \subseteq passed', misread \subseteq misread'
  PROVE  /\ \A c : Earned(c) => Earned(c)'
         /\ \A artifact : (Honest(artifact) => Honest(artifact)')
         /\ \A report : (HonestReport(report) => HonestReport(report)')
         /\ \A run : RunOK(run) => RunOK(run)'
<1>1. \A c : Earned(c) => Earned(c)'
  BY DEF Earned
<1>2. \A artifact : Honest(artifact) => Honest(artifact)'
  BY <1>1 DEF Honest
<1>3. \A report : HonestReport(report) => HonestReport(report)'
  BY <1>1 DEF HonestReport
<1>4. \A run : RunOK(run) => RunOK(run)'
  BY <1>2, <1>3 DEF RunOK, PrHead
<1> QED BY <1>1, <1>2, <1>3, <1>4

(* A step of the producer of one run.                                      *)
LEMMA ProducerStep ==
  ASSUME IInv, NEW r \in Runs, NEW run \in ProducerRun,
         runs' = [runs EXCEPT ![r] = run], RunOK(runs[r])', run.head = runs[r].head,
         runs[r].context # None => run.context # None,
         UNCHANGED <<commits, reporter, status, comments, raced>>,
         passed \subseteq passed', misread \subseteq misread'
  PROVE  IInv'
<1>1. Types'
  BY ReplaceRun DEF IInv, Types, PrHead
<1>2. Runs' = Runs /\ \A s \in Runs : runs'[s] = IF s = r THEN run ELSE runs[s]
  BY ReplaceRun DEF IInv
<1>3. RunsInv'
  BY <1>2, EarnedStays DEF IInv, RunsInv
<1>4. ReporterInv'
  BY <1>2 DEF IInv, ReporterInv
<1>5. StatusInv'
  BY EarnedStays DEF IInv, StatusInv, PrHead
<1>6. InCommentSection' = InCommentSection
  BY <1>2 DEF InCommentSection
<1>7. \A s \in InCommentSection : runs'[s].context.head = runs[s].context.head
  <2> TAKE s \in InCommentSection
  <2>1. s \in Runs /\ runs[s].context # None /\ RunOK(runs[s])
    BY DEF IInv, ReporterInv, InCommentSection, RunsInv
  <2>2. CASE s = r
    BY ZenonT(40), <1>2, <2>1, <2>2 DEF RunOK
  <2> QED BY <1>2, <2>1, <2>2
<1>8. CommentInv'
  BY <1>6, <1>7 DEF IInv, CommentInv, PrHead
<1> QED BY <1>1, <1>3, <1>4, <1>5, <1>8 DEF IInv

(* A step of the reporter of one run that touches neither status nor       *)
(* comments, and does not enter the comment section.                       *)
LEMMA ReporterStep ==
  ASSUME IInv, NEW r \in Runs, NEW rep \in ReporterRun,
         reporter' = [reporter EXCEPT ![r] = rep],
         UNCHANGED <<commits, runs, comments, passed, misread, raced>>,
         status' \in [1..MaxPushes -> {"success", "failure", "error", None}], StatusInv',
         rep.pc \in {"status", "head", "list", "write"} => runs[r].context # None,
         rep.pc \in {"list", "write"} => r \in InCommentSection,
         rep.pc = "write" /\ ~raced => rep.seen = Len(comments)
  PROVE  IInv'
<1>1. Types'
  BY ReplaceReporter DEF IInv, Types, PrHead
<1>2. Runs' = Runs /\ \A s \in Runs : reporter'[s] = IF s = r THEN rep ELSE reporter[s]
  BY ZenonT(40), ReplaceReporter DEF IInv, Runs
<1>3. RunsInv'
  BY EarnedStays DEF IInv, RunsInv, Runs
<1>4. ReporterInv'
  BY <1>2 DEF IInv, ReporterInv
<1>5. InCommentSection' \subseteq InCommentSection
  BY <1>2 DEF InCommentSection
<1>6. CommentInv'
  BY <1>2, <1>5 DEF IInv, CommentInv, PrHead, InCommentSection
<1> QED BY <1>1, <1>3, <1>4, <1>6 DEF IInv

-----------------------------------------------------------------------------
(* Facts about the run a step of the producer starts from.                 *)
LEMMA RunFacts ==
  ASSUME IInv, NEW r \in Runs
  PROVE  /\ runs[r] \in ProducerRun /\ RunOK(runs[r])
         /\ runs[r].head \in 1..PrHead /\ PrHead \in Nat
         /\ reporter[r] \in ReporterRun
BY RunsRange DEF IInv, RunsInv, RunOK

(* A step that only moves on, to a point that promises nothing.            *)
LEMMA MovesOn ==
  ASSUME IInv, NEW r \in Runs, NEW pc \in ProducerPoint \ {"upload context", "qualify"},
         runs' = [runs EXCEPT ![r] = At(r, pc)],
         UNCHANGED <<commits, reporter, status, comments, raced>>,
         passed \subseteq passed', misread \subseteq misread'
  PROVE  IInv'
<1> DEFINE run == [runs[r] EXCEPT !.pc = pc]
<1>1. runs[r] \in ProducerRun /\ RunOK(runs[r])
  BY RunFacts
<1>2. /\ run \in ProducerRun /\ run.pc = pc /\ run.head = runs[r].head
      /\ run.draft = runs[r].draft /\ run.context = runs[r].context
      /\ run.report = runs[r].report
  BY <1>1 DEF ProducerRun
<1>3. RunOK(run)
  BY <1>1, <1>2 DEF RunOK
<1>4. runs' = [runs EXCEPT ![r] = run]
  BY DEF At
<1> HIDE DEF run
<1>5. runs'[r] = run
  BY <1>2, <1>4, ReplaceRun DEF IInv
<1>6. RunOK(runs[r])'
  BY <1>3, <1>5, EarnedStays
<1> QED BY <1>2, <1>4, <1>6, ProducerStep

LEMMA StartInv == ASSUME IInv, NEW r \in Runs, Start(r) PROVE IInv'
BY MovesOn DEF Start, Goes, historyVars, ProducerPoint

LEMMA FailStepInv == ASSUME IInv, NEW r \in Runs, FailStep(r) PROVE IInv'
BY MovesOn DEF FailStep, Goes, historyVars, ProducerPoint

LEMMA CompareIdentityInv == ASSUME IInv, NEW r \in Runs, CompareIdentity(r) PROVE IInv'
BY MovesOn DEF CompareIdentity, Goes, historyVars, ProducerPoint

(* A step that writes a new entry for its run, whatever it was made of.    *)
LEMMA WritesRun ==
  ASSUME IInv, NEW r \in Runs, NEW run \in ProducerRun,
         runs' = [runs EXCEPT ![r] = run], run.head = runs[r].head,
         runs[r].context # None => run.context # None,
         UNCHANGED <<commits, reporter, status, comments, raced>>,
         passed \subseteq passed', misread \subseteq misread',
         run.context # None => run.context.head = run.head /\ Honest(run.context)',
         \A report \in {run.draft, run.report} \ {None} :
           report.head = run.head /\ Honest(report)' /\ HonestReport(report)',
         (run.pc = "upload context" /\ run.draft = None) \/ run.pc = "qualify" =>
           run.candidate = run.head,
         run.pc = "qualify" => run.context # None
  PROVE  IInv'
<1>1. runs'[r] = run
  <2>1. \A s \in Runs : runs'[s] = IF s = r THEN run ELSE runs[s]
    BY ReplaceRun DEF IInv
  <2> QED BY <2>1
<1>2. run.head \in 1..PrHead'
  BY RunFacts DEF PrHead
<1>3. Honest(run.context)' = Honest(runs[r].context)'
  BY <1>1
<1>4. RunOK(runs[r])'
  BY <1>1, <1>2, <1>3 DEF RunOK
<1> QED BY <1>4, ProducerStep

(* The files listed are of the head, or of a commit that counts as misread.*)
LEMMA ListFilesInv == ASSUME IInv, NEW r \in Runs, ListFiles(r) PROVE IInv'
<1>1. CASE Cardinality(commits[PrHead].changed) # Cardinality(commits[runs[r].head].changed)
  BY <1>1, MovesOn DEF ListFiles, Goes, ProducerPoint
<1>2. CASE Cardinality(commits[PrHead].changed) = Cardinality(commits[runs[r].head].changed)
  <2>1. PICK files, class, draft, run :
          /\ files = commits[PrHead].changed /\ class = Classify(files)
          /\ draft = CASE class = "not_applicable" ->
                            [head |-> runs[r].head, class |-> class, verdict |-> "not_applicable"]
                       [] class = "invalid_scope" ->
                            [head |-> runs[r].head, class |-> class, verdict |-> "incomplete"]
                       [] OTHER -> None
          /\ run = [runs[r] EXCEPT !.pc = IF draft = None THEN "read lock" ELSE "upload context",
                                   !.draft = draft]
    OBVIOUS
  <2>2. /\ runs' = [runs EXCEPT ![r] = run]
        /\ misread' = IF runs[r].head # PrHead THEN misread \cup {runs[r].head} ELSE misread
        /\ UNCHANGED <<commits, reporter, status, comments, passed, raced>>
    BY <1>2, <2>1 DEF ListFiles, Goes, Context, Report
  <2>3. runs[r] \in ProducerRun /\ RunOK(runs[r]) /\ runs[r].head \in Nat
    BY RunFacts DEF ProducerRun
  <2>4. /\ class \in PrClassification
        /\ class = "not_applicable" => "lock" \notin files
    BY <2>1 DEF Classify, PrClassification
  <2>5. draft # None => /\ draft \in PullRequestReport
                        /\ draft.head = runs[r].head /\ draft.class = class
                        /\ draft.verdict \in {"not_applicable", "incomplete"}
                        /\ draft.verdict = "not_applicable" => class = "not_applicable"
    BY <2>1, <2>3, <2>4 DEF PullRequestReport, PrReportVerdict
  <2>6. /\ run \in ProducerRun /\ run.head = runs[r].head /\ run.draft = draft
        /\ run.context = runs[r].context /\ run.report = runs[r].report
        /\ run.pc \in {"read lock", "upload context"}
        /\ run.pc = "upload context" => run.draft # None
    BY <2>1, <2>3, <2>5 DEF ProducerRun, ProducerPoint
  <2>7. draft # None => Honest(draft)' /\ HonestReport(draft)'
    BY <2>1, <2>2, <2>4, <2>5 DEF Honest, HonestReport, Earned
  <2>8. run.context # None => run.context.head = run.head /\ Honest(run.context)'
    BY <2>2, <2>3, <2>6, EarnedStays DEF RunOK
  <2>9. \A report \in {run.draft, run.report} \ {None} :
          report.head = run.head /\ Honest(report)' /\ HonestReport(report)'
    BY <2>2, <2>3, <2>5, <2>6, <2>7, EarnedStays DEF RunOK
  <2> QED BY <2>2, <2>6, <2>8, <2>9, WritesRun
<1> QED BY <1>1, <1>2

LEMMA ReadLockInv == ASSUME IInv, NEW r \in Runs, ReadLock(r) PROVE IInv'
<1>1. /\ runs[r] \in ProducerRun /\ RunOK(runs[r]) /\ runs[r].head \in Nat
      /\ runs[r].pc = "read lock"
      /\ UNCHANGED <<commits, reporter, status, comments, passed, misread, raced>>
  BY RunFacts DEF ProducerRun, ReadLock, Goes, historyVars
<1>2. CASE runs' = [runs EXCEPT ![r] = [runs[r] EXCEPT !.pc = "upload context",
                                                        !.candidate = LockRef(r)]]
  <2>1. PICK run : run = [runs[r] EXCEPT !.pc = "upload context", !.candidate = runs[r].head]
    OBVIOUS
  <2>2. runs' = [runs EXCEPT ![r] = run]
    BY <1>2, <2>1 DEF LockRef
  <2>3. /\ run \in ProducerRun /\ run.head = runs[r].head /\ run.draft = runs[r].draft
        /\ run.context = runs[r].context /\ run.report = runs[r].report
        /\ run.pc = "upload context" /\ run.candidate = run.head
    BY <1>1, <2>1 DEF ProducerRun, ProducerPoint
  <2>4. run.context # None => run.context.head = run.head /\ Honest(run.context)'
    BY <1>1, <2>3, EarnedStays DEF RunOK
  <2>5. \A report \in {run.draft, run.report} \ {None} :
          report.head = run.head /\ Honest(report)' /\ HonestReport(report)'
    BY <1>1, <2>3, EarnedStays DEF RunOK
  <2> QED BY <1>1, <2>2, <2>3, <2>4, <2>5, WritesRun
<1>3. CASE runs' = [runs EXCEPT ![r] =
              [runs[r] EXCEPT !.pc = "upload context",
                              !.draft = Report(Context(r, "upgrade"), "incomplete")]]
  <2>1. PICK draft, run :
          /\ draft = [head |-> runs[r].head, class |-> "upgrade", verdict |-> "incomplete"]
          /\ run = [runs[r] EXCEPT !.pc = "upload context", !.draft = draft]
    OBVIOUS
  <2>2. runs' = [runs EXCEPT ![r] = run]
    BY <1>3, <2>1 DEF Report, Context
  <2>3. draft \in PullRequestReport /\ Honest(draft)' /\ HonestReport(draft)'
    BY <1>1, <2>1 DEF PullRequestReport, PrClassification, PrReportVerdict, Honest, HonestReport
  <2>4. /\ run \in ProducerRun /\ run.head = runs[r].head /\ run.draft = draft
        /\ run.context = runs[r].context /\ run.report = runs[r].report
        /\ run.pc = "upload context" /\ draft # None /\ draft.head = run.head
    BY <1>1, <2>1, <2>3 DEF ProducerRun, ProducerPoint
  <2>5. run.context # None => run.context.head = run.head /\ Honest(run.context)'
    BY <1>1, <2>4, EarnedStays DEF RunOK
  <2>6. \A report \in {run.draft, run.report} \ {None} :
          report.head = run.head /\ Honest(report)' /\ HonestReport(report)'
    BY <1>1, <2>3, <2>4, EarnedStays DEF RunOK
  <2> QED BY <1>1, <2>2, <2>4, <2>5, <2>6, WritesRun
<1> QED BY <1>2, <1>3 DEF ReadLock, Goes

(* The context takes over the class of the draft.                          *)
LEMMA UploadContextInv == ASSUME IInv, NEW r \in Runs, UploadContext(r) PROVE IInv'
<1>1. /\ runs[r] \in ProducerRun /\ RunOK(runs[r]) /\ runs[r].head \in Nat
      /\ runs[r].pc = "upload context"
      /\ UNCHANGED <<commits, reporter, status, comments, passed, misread, raced>>
  BY RunFacts DEF ProducerRun, UploadContext, Goes, historyVars
<1>2. PICK context, run :
        /\ context = [head |-> runs[r].head, class |-> DraftClass(r)]
        /\ run = [runs[r] EXCEPT
                    !.pc = IF runs[r].draft = None THEN "qualify" ELSE "upload report",
                    !.context = context]
  OBVIOUS
<1>3. runs' = [runs EXCEPT ![r] = run]
  BY <1>2 DEF UploadContext, Goes, Context
<1>4. context \in PullRequestContext
  BY <1>1, <1>2 DEF DraftClass, ProducerRun, PullRequestReport, PullRequestContext,
                    PrClassification
<1>5. Honest(context)'
  BY <1>1, <1>2, EarnedStays DEF DraftClass, RunOK, Honest
<1>6. /\ run \in ProducerRun /\ run.head = runs[r].head /\ run.draft = runs[r].draft
      /\ run.context = context /\ run.report = runs[r].report /\ run.candidate = runs[r].candidate
      /\ context # None /\ context.head = run.head
      /\ run.pc \in {"qualify", "upload report"} /\ (run.pc = "qualify" => run.draft = None)
  BY <1>1, <1>2, <1>4 DEF ProducerRun, ProducerPoint
<1>7. \A report \in {run.draft, run.report} \ {None} :
        report.head = run.head /\ Honest(report)' /\ HonestReport(report)'
  BY <1>1, <1>6, EarnedStays DEF RunOK
<1>8. run.pc = "qualify" => run.candidate = run.head
  BY <1>1, <1>6 DEF RunOK
<1> QED BY <1>1, <1>3, <1>5, <1>6, <1>7, <1>8, WritesRun

(* The lock that was checked is the one of the run's commit.               *)
LEMMA QualifyInv ==
  ASSUME IInv, NEW r \in Runs, NEW verdict \in Verdicts, Qualify(r, verdict) PROVE IInv'
<1>1. /\ runs[r] \in ProducerRun /\ RunOK(runs[r]) /\ runs[r].head \in Nat
      /\ runs[r].pc = "qualify"
      /\ UNCHANGED <<commits, reporter, status, comments, misread, raced>>
      /\ passed' = IF verdict = "pass" THEN passed \cup {runs[r].candidate} ELSE passed
  BY RunFacts DEF ProducerRun, Qualify, Goes
<1>2. /\ runs[r].candidate = runs[r].head /\ runs[r].context \in PullRequestContext
      /\ runs[r].context.head = runs[r].head /\ Honest(runs[r].context)
  BY <1>1 DEF RunOK, ProducerRun
<1>3. PICK draft, run :
        /\ draft = [head |-> runs[r].head, class |-> runs[r].context.class, verdict |-> verdict]
        /\ run = [runs[r] EXCEPT !.pc = "upload report", !.draft = draft]
  OBVIOUS
<1>4. runs' = [runs EXCEPT ![r] = run]
  BY <1>2, <1>3 DEF Qualify, Goes, Report
<1>5. draft \in PullRequestReport
  BY <1>1, <1>2, <1>3 DEF PullRequestReport, PullRequestContext, PrReportVerdict
<1>6. Honest(draft)'
  BY <1>1, <1>2, <1>3 DEF Honest, Earned
<1>7. HonestReport(draft)'
  BY <1>1, <1>2, <1>3 DEF HonestReport, Earned
<1>8. /\ run \in ProducerRun /\ run.head = runs[r].head /\ run.draft = draft
      /\ run.context = runs[r].context /\ run.report = runs[r].report
      /\ run.pc = "upload report" /\ draft # None /\ draft.head = run.head
  BY <1>1, <1>3, <1>5 DEF ProducerRun, ProducerPoint
<1>9. \A report \in {run.draft, run.report} \ {None} :
        report.head = run.head /\ Honest(report)' /\ HonestReport(report)'
  BY <1>1, <1>6, <1>7, <1>8, EarnedStays DEF RunOK
<1>10. run.context # None => run.context.head = run.head /\ Honest(run.context)'
  BY <1>1, <1>8, EarnedStays DEF RunOK
<1> QED BY <1>1, <1>4, <1>8, <1>9, <1>10, WritesRun

LEMMA UploadReportInv == ASSUME IInv, NEW r \in Runs, UploadReport(r) PROVE IInv'
<1>1. /\ runs[r] \in ProducerRun /\ RunOK(runs[r]) /\ reporter[r] \in ReporterRun
      /\ UNCHANGED <<commits, status, comments, passed, misread, raced>>
      /\ reporter' = [reporter EXCEPT ![r].pc = "download"]
  BY RunFacts DEF UploadReport, historyVars
<1>2. PICK run, rep :
        /\ \E report \in {runs[r].draft, None} :
             run = [runs[r] EXCEPT !.pc = "completed", !.report = report,
                                   !.draft = None, !.candidate = None]
        /\ runs' = [runs EXCEPT ![r] = run]
        /\ rep = [reporter[r] EXCEPT !.pc = "download"]
        /\ reporter' = [reporter EXCEPT ![r] = rep]
  BY <1>1 DEF UploadReport
<1>3. /\ run \in ProducerRun /\ run.head = runs[r].head /\ run.draft = None
      /\ run.context = runs[r].context /\ run.report \in {runs[r].draft, None}
      /\ run.pc = "completed" /\ rep \in ReporterRun /\ rep.pc = "download"
  BY ZenonT(40), <1>1, <1>2 DEF ProducerRun, ProducerPoint, ReporterRun, ReporterPoint
<1>4. /\ Runs' = Runs /\ \A s \in Runs : runs'[s] = IF s = r THEN run ELSE runs[s]
      /\ runs' \in Seq(ProducerRun) /\ Len(runs') = Len(runs)
  <2>1. runs' = [runs EXCEPT ![r] = run] /\ run \in ProducerRun
    BY <1>2, <1>3
  <2> QED BY <2>1, ReplaceRun DEF IInv
<1>5. /\ \A s \in Runs : reporter'[s] = IF s = r THEN rep ELSE reporter[s]
      /\ reporter' \in Seq(ReporterRun) /\ Len(reporter') = Len(reporter)
  <2>1. reporter' = [reporter EXCEPT ![r] = rep] /\ rep \in ReporterRun
    BY <1>2, <1>3
  <2> QED BY <2>1, ReplaceReporter DEF IInv
<1>6. Types'
  BY <1>1, <1>4, <1>5 DEF IInv, Types, PrHead
<1>7. RunOK(run)
  BY <1>1, <1>3 DEF RunOK
<1>8. RunsInv'
  BY <1>1, <1>4, <1>7, EarnedStays DEF IInv, RunsInv
<1>9. ReporterInv'
  BY <1>3, <1>4, <1>5 DEF IInv, ReporterInv
<1>10. StatusInv'
  BY <1>1, EarnedStays DEF IInv, StatusInv, PrHead
<1>11. /\ InCommentSection' \subseteq InCommentSection
       /\ \A s \in InCommentSection' : runs'[s] = runs[s] /\ reporter'[s] = reporter[s]
  BY <1>3, <1>4, <1>5 DEF InCommentSection
<1>12. CommentInv'
  BY <1>1, <1>11 DEF IInv, CommentInv, PrHead
<1> QED BY <1>6, <1>8, <1>9, <1>10, <1>12 DEF IInv

-----------------------------------------------------------------------------
(* The reporter.                                                           *)
LEMMA DownloadInv == ASSUME IInv, NEW r \in Runs, Download(r) PROVE IInv'
<1>1. PICK rep : /\ rep = [reporter[r] EXCEPT !.pc =
                             IF runs[r].context = None THEN "no context"
                             ELSE IF Binds(runs[r].context, runs[r].report)
                                  THEN "status" ELSE "rejected"]
                 /\ reporter' = [reporter EXCEPT ![r] = rep]
  BY DEF Download, Reports
<1>2. /\ reporter[r] \in ReporterRun
      /\ UNCHANGED <<commits, runs, status, comments, passed, misread, raced>>
  BY RunFacts DEF Download, historyVars
<1>3. /\ rep \in ReporterRun /\ rep.pc \in {"no context", "status", "rejected"}
      /\ rep.pc = "status" => runs[r].context # None
  BY <1>1, <1>2 DEF ReporterRun, ReporterPoint
<1>4. StatusInv'
  BY <1>2, EarnedStays DEF IInv, StatusInv, PrHead
<1> QED BY <1>1, <1>2, <1>3, <1>4, ReporterStep DEF IInv, Types

(* A status of success comes of an honest context or an honest report.     *)
LEMMA SuccessState ==
  ASSUME IInv, NEW r \in Runs, runs[r].context # None
  PROVE  /\ State(runs[r].context, runs[r].report) \in {"success", "failure", "error"}
         /\ State(runs[r].context, runs[r].report) = "success" => Earned(runs[r].context.head)
<1> DEFINE context == runs[r].context  report == runs[r].report
<1>1. /\ runs[r] \in ProducerRun /\ RunOK(runs[r])
      /\ context \in PullRequestContext /\ context.head = runs[r].head /\ Honest(context)
  BY RunFacts DEF RunOK, ProducerRun
<1>2. CASE report = None
  BY <1>1, <1>2 DEF State, Honest
<1>3. CASE report # None
  <2>1. /\ report \in PullRequestReport /\ report.head = runs[r].head
        /\ HonestReport(report)
    BY <1>1, <1>3 DEF RunOK, ProducerRun
  <2>2. report.verdict \in PrReportVerdict
    BY <2>1 DEF PullRequestReport
  <2>3. /\ StateOfVerdict[report.verdict] \in {"success", "failure", "error"}
        /\ StateOfVerdict[report.verdict] = "success" =>
             report.verdict \in {"not_applicable", "pass"}
    BY <2>2 DEF PrReportVerdict, StateOfVerdict
  <2> QED BY <1>1, <1>3, <2>1, <2>3 DEF State, HonestReport
<1> QED BY <1>2, <1>3

LEMMA PublishStatusInv == ASSUME IInv, NEW r \in Runs, PublishStatus(r) PROVE IInv'
<1> DEFINE head == runs[r].context.head
           state == State(runs[r].context, runs[r].report)
<1>1. PICK rep : /\ \E pc \in {"done", "head", "failed"} : rep = [reporter[r] EXCEPT !.pc = pc]
                 /\ reporter' = [reporter EXCEPT ![r] = rep]
  BY DEF PublishStatus, Reports
<1>2. /\ reporter[r] \in ReporterRun /\ reporter[r].pc = "status"
      /\ status' = [status EXCEPT ![head] = state]
      /\ UNCHANGED <<commits, runs, comments, passed, misread, raced>>
  BY RunFacts DEF PublishStatus, Reports, historyVars
<1>3. runs[r].context # None /\ RunOK(runs[r])
  BY <1>2, RunFacts DEF IInv, ReporterInv
<1>4. head \in 1..PrHead /\ PrHead \in Nat /\ PrHead <= MaxPushes
  BY <1>3, RunFacts DEF RunOK, IInv, Types
<1>5. rep \in ReporterRun /\ rep.pc \in {"done", "head", "failed"}
  BY <1>1, <1>2 DEF ReporterRun, ReporterPoint
<1>6. state \in {"success", "failure", "error"} /\ (state = "success" => Earned(head))
  BY <1>3, SuccessState
<1> HIDE DEF state, head
<1>7. status' \in [1..MaxPushes -> {"success", "failure", "error", None}]
  BY <1>2, <1>6 DEF IInv, Types
<1>8. \A c \in 1..MaxPushes : status'[c] = "success" => c <= PrHead /\ Earned(c)
  <2> TAKE c \in 1..MaxPushes
  <2>1. CASE c = head
    BY <1>2, <1>4, <1>6, <2>1 DEF IInv, Types
  <2>2. CASE c # head
    BY <1>2, <2>2 DEF IInv, Types, StatusInv
  <2> QED BY <2>1, <2>2
<1>9. StatusInv'
  BY <1>2, <1>8, EarnedStays DEF StatusInv, PrHead
<1> QED BY <1>1, <1>2, <1>3, <1>5, <1>7, <1>9, ReporterStep

LEMMA ListCommentsInv == ASSUME IInv, NEW r \in Runs, ListComments(r) PROVE IInv'
<1>1. PICK rep : /\ rep = [pc |-> "write", seen |-> Len(comments)]
                 /\ reporter' = [reporter EXCEPT ![r] = rep]
  BY DEF ListComments
<1>2. /\ reporter[r].pc = "list"
      /\ UNCHANGED <<commits, runs, status, comments, passed, misread, raced>>
  BY DEF ListComments, historyVars
<1>3. rep \in ReporterRun /\ rep.pc = "write" /\ rep.seen = Len(comments)
  <2>1. Len(comments) \in Nat
    BY DEF IInv, Types
  <2> QED BY <1>1, <2>1 DEF ReporterRun, ReporterPoint
<1>4. r \in InCommentSection /\ runs[r].context # None
  BY <1>2 DEF InCommentSection, IInv, ReporterInv
<1>5. StatusInv'
  BY <1>2, EarnedStays DEF IInv, StatusInv, PrHead
<1> QED BY <1>1, <1>2, <1>3, <1>4, <1>5, ReporterStep DEF IInv, Types

LEMMA FailCallInv == ASSUME IInv, NEW r \in Runs, FailCall(r) PROVE IInv'
<1>1. PICK rep : /\ rep = [reporter[r] EXCEPT !.pc = "failed"]
                 /\ reporter' = [reporter EXCEPT ![r] = rep]
  BY DEF FailCall, Reports
<1>2. /\ reporter[r] \in ReporterRun
      /\ UNCHANGED <<commits, runs, status, comments, passed, misread, raced>>
  BY RunFacts DEF FailCall, historyVars
<1>3. rep \in ReporterRun /\ rep.pc = "failed"
  BY <1>1, <1>2 DEF ReporterRun, ReporterPoint
<1>4. StatusInv'
  BY <1>2, EarnedStays DEF IInv, StatusInv, PrHead
<1> QED BY <1>1, <1>2, <1>3, <1>4, ReporterStep DEF IInv, Types

(* Whoever enters the comment section alone finds the head of the pull     *)
(* request to be its own commit: no comment is of a later one.             *)
LEMMA ReadHeadInv == ASSUME IInv, NEW r \in Runs, ReadHead(r) PROVE IInv'
<1>1. PICK rep : /\ rep = [reporter[r] EXCEPT !.pc = IF StillHead(r) THEN "list" ELSE "done"]
                 /\ reporter' = [reporter EXCEPT ![r] = rep]
  BY DEF ReadHead, Reports
<1>2. /\ reporter[r] \in ReporterRun /\ reporter[r].pc = "head"
      /\ raced' = (raced \/ (StillHead(r) /\ InCommentSection # {}))
      /\ UNCHANGED <<commits, runs, status, comments, passed, misread>>
  BY RunFacts DEF ReadHead, Reports
<1>3. /\ rep \in ReporterRun /\ rep.pc \in {"list", "done"}
      /\ rep.pc = "list" => StillHead(r)
  BY <1>1, <1>2 DEF ReporterRun, ReporterPoint
<1>4. /\ Runs' = Runs /\ Len(reporter') = Len(reporter) /\ reporter' \in Seq(ReporterRun)
      /\ \A s \in Runs : reporter'[s] = IF s = r THEN rep ELSE reporter[s]
  <2>1. Runs' = Runs
    BY <1>2 DEF Runs
  <2>2. Types /\ rep \in ReporterRun /\ reporter' = [reporter EXCEPT ![r] = rep]
    BY <1>1, <1>3 DEF IInv
  <2> QED BY <2>1, <2>2, ReplaceReporter
<1>5. Types'
  BY <1>2, <1>4 DEF IInv, Types, PrHead
<1>6. RunsInv' /\ StatusInv'
  BY <1>2, <1>4, EarnedStays DEF IInv, RunsInv, StatusInv, PrHead
<1>7. ReporterInv'
  BY <1>2, <1>3, <1>4 DEF IInv, ReporterInv
<1>8. CASE ~StillHead(r)
  <2>1. InCommentSection' = InCommentSection
    BY <1>2, <1>3, <1>4, <1>8, <1>1 DEF InCommentSection
  <2>2. /\ (~raced' => ~raced) /\ r \notin InCommentSection
    BY <1>2, <1>8 DEF InCommentSection
  <2>3. \A s \in InCommentSection : reporter'[s] = reporter[s]
    BY <1>4, <2>2 DEF InCommentSection
  <2>4. CommentInv'
    BY <1>2, <2>1, <2>2, <2>3 DEF IInv, CommentInv, PrHead
  <2> QED BY <1>5, <1>6, <1>7, <2>4 DEF IInv
<1>9. CASE StillHead(r)
  <2>1. ~raced' => ~raced /\ InCommentSection = {}
    BY <1>2, <1>9
  <2>2. ~raced' => InCommentSection' = {r}
    BY <1>1, <1>2, <1>3, <1>4, <1>9, <2>1 DEF InCommentSection
  <2>3. rep.pc = "list" /\ runs'[r].context.head = PrHead /\ reporter'[r] = rep
    BY <1>1, <1>2, <1>4, <1>9 DEF StillHead, ReporterRun
  <2>4. CommentInv'
    BY <1>2, <2>1, <2>2, <2>3 DEF IInv, CommentInv, PrHead
  <2> QED BY <1>5, <1>6, <1>7, <2>4 DEF IInv
<1> QED BY <1>8, <1>9

(* The write of the comment, by the one reporter in the comment section.   *)
LEMMA CommentWritten ==
  ASSUME IInv, NEW r \in Runs, WriteComment(r)
  PROVE  /\ comments' \in Seq(Nat)
         /\ \A i \in 1..Len(comments') : comments'[i] <= PrHead
         /\ ~raced => /\ Len(comments') <= 1
                      /\ \A i \in 1..Len(comments) :
                           i \in 1..Len(comments') /\ comments'[i] >= comments[i]
<1> DEFINE head == runs[r].context.head  seen == reporter[r].seen
<1>1. reporter[r].pc = "write" /\ comments' = Commented(seen, head)
  BY DEF WriteComment
<1>2. /\ runs[r].context # None /\ RunOK(runs[r])
      /\ head \in Nat /\ head <= PrHead /\ PrHead \in Nat /\ seen \in Nat
  <2>1. runs[r].context # None
    BY <1>1 DEF IInv, ReporterInv
  <2>2. RunOK(runs[r]) /\ reporter[r] \in ReporterRun /\ PrHead \in Nat
    BY RunFacts
  <2>3. head \in 1..PrHead
    BY <2>1, <2>2 DEF RunOK
  <2>4. seen \in Nat
    BY <2>2 DEF ReporterRun
  <2> HIDE DEF head, seen
  <2> QED BY <2>1, <2>2, <2>3, <2>4
<1>3. /\ comments \in Seq(Nat) /\ Len(comments) \in Nat
      /\ \A i \in 1..Len(comments) : comments[i] \in Nat /\ comments[i] <= PrHead
  BY DEF IInv, Types, CommentInv
<1>4. ~raced => /\ Len(comments) <= 1 /\ seen = Len(comments)
                /\ \A i \in 1..Len(comments) : comments[i] <= head
  BY <1>1 DEF IInv, CommentInv, InCommentSection
<1> HIDE DEF head, seen
<1>5. CASE seen > 0
  <2>1. comments' = [comments EXCEPT ![seen] = head]
    BY <1>1, <1>5 DEF Commented
  <2>2. /\ comments' \in Seq(Nat) /\ Len(comments') = Len(comments)
        /\ \A i \in 1..Len(comments) : comments'[i] = IF i = seen THEN head ELSE comments[i]
    <3>1. CASE seen \in 1..Len(comments)
      BY <2>1, <3>1, <1>2, <1>3, ExceptSeq
    <3>2. CASE seen \notin 1..Len(comments)
      <4>1. comments \in [1..Len(comments) -> Nat]
        BY <1>3, LenProperties
      <4>2. comments' = comments
        BY <2>1, <3>2, <4>1
      <4> QED BY <1>3, <3>2, <4>2
    <3> QED BY <3>1, <3>2
  <2> QED BY <1>2, <1>3, <1>4, <2>2
<1>6. CASE ~(seen > 0)
  <2>1. comments' = Append(comments, head)
    BY <1>1, <1>6 DEF Commented
  <2>2. /\ comments' \in Seq(Nat) /\ Len(comments') = Len(comments) + 1
        /\ \A i \in 1..Len(comments) : comments'[i] = comments[i]
        /\ comments'[Len(comments) + 1] = head
    BY <2>1, <1>2, <1>3, AppendProperties
  <2>3. \A i \in 1..Len(comments') : comments'[i] <= PrHead
    <3> TAKE i \in 1..Len(comments')
    <3>1. i \in 1..Len(comments) \/ i = Len(comments) + 1
      BY <1>3, <2>2
    <3> QED BY <1>2, <1>3, <2>2, <3>1
  <2>4. ~raced => Len(comments) = 0
    BY <1>2, <1>3, <1>4, <1>6
  <2> QED BY <1>3, <2>2, <2>3, <2>4
<1> QED BY <1>5, <1>6

LEMMA WriteCommentInv == ASSUME IInv, NEW r \in Runs, WriteComment(r) PROVE IInv'
<1>1. PICK rep : /\ \E pc \in {"done", "failed"} : rep = [pc |-> pc, seen |-> 0]
                 /\ reporter' = [reporter EXCEPT ![r] = rep]
  BY DEF WriteComment
<1>2. /\ reporter[r].pc = "write"
      /\ UNCHANGED <<commits, runs, status, passed, misread, raced>>
  BY DEF WriteComment, historyVars
<1>3. rep \in ReporterRun /\ rep.pc \in {"done", "failed"}
  <2>1. PICK pc \in {"done", "failed"} : rep = [pc |-> pc, seen |-> 0]
    BY <1>1
  <2> QED BY <2>1 DEF ReporterRun, ReporterPoint
<1>4. /\ Runs' = Runs /\ Len(reporter') = Len(reporter) /\ reporter' \in Seq(ReporterRun)
      /\ \A s \in Runs : reporter'[s] = IF s = r THEN rep ELSE reporter[s]
  <2>1. Runs' = Runs
    BY <1>2 DEF Runs
  <2>2. Types /\ rep \in ReporterRun /\ reporter' = [reporter EXCEPT ![r] = rep]
    BY <1>1, <1>3 DEF IInv
  <2> QED BY <2>1, <2>2, ReplaceReporter
<1>5. Types'
  BY <1>2, <1>4, CommentWritten DEF IInv, Types, PrHead
<1>6. RunsInv' /\ StatusInv'
  BY <1>2, <1>4, EarnedStays DEF IInv, RunsInv, StatusInv, PrHead
<1>7. ReporterInv'
  BY <1>2, <1>3, <1>4 DEF IInv, ReporterInv
<1>8. r \in InCommentSection
  BY <1>2 DEF InCommentSection
<1>9. ~raced' => InCommentSection' = {}
  <2>1. ~raced => \A s \in InCommentSection : s = r
    BY <1>8 DEF IInv, CommentInv
  <2>2. InCommentSection' \subseteq InCommentSection \ {r}
    BY <1>3, <1>4 DEF InCommentSection
  <2> QED BY <1>2, <2>1, <2>2
<1>10. CommentInv'
  BY <1>2, <1>9, CommentWritten DEF CommentInv, PrHead
<1> QED BY <1>5, <1>6, <1>7, <1>10 DEF IInv

-----------------------------------------------------------------------------
(* Events: a run that was queued completes, and one is appended.           *)
LEMMA CancelledRun ==
  ASSUME NEW run \in ProducerRun
  PROVE  /\ Cancelled(run) \in ProducerRun
         /\ Cancelled(run).head = run.head /\ Cancelled(run).context = run.context
         /\ Cancelled(run).draft = run.draft /\ Cancelled(run).report = run.report
         /\ Cancelled(run).candidate = run.candidate
         /\ Cancelled(run).pc = run.pc \/ Cancelled(run).pc = "completed"
BY DEF Cancelled, ProducerRun, ProducerPoint

LEMMA TriggerSteps ==
  ASSUME Types, NEW head \in Nat, Trigger(head)
  PROVE  /\ runs' \in Seq(ProducerRun) /\ reporter' \in Seq(ReporterRun)
         /\ Len(runs') = Len(runs) + 1 /\ Len(reporter') = Len(runs')
         /\ Runs' = Runs \cup {Len(runs) + 1} /\ Len(runs) + 1 \notin Runs
         /\ \A s \in Runs : /\ runs'[s] = Cancelled(runs[s])
                            /\ \/ reporter'[s] = reporter[s]
                               \/ reporter'[s].pc = "download"
         /\ runs'[Len(runs) + 1] = NewRun(head)
         /\ reporter'[Len(runs) + 1].pc = "idle"
<1> DEFINE rs == [r \in Runs |-> Cancelled(runs[r])]
           ps == [r \in Runs |-> IF runs[r].pc = "queued"
                                 THEN [reporter[r] EXCEPT !.pc = "download"] ELSE reporter[r]]
           idle == [pc |-> "idle", seen |-> 0]
<1>1. runs' = Append(rs, NewRun(head)) /\ reporter' = Append(ps, idle)
  BY DEF Trigger
<1>2. Len(runs) \in Nat /\ Runs = 1..Len(runs)
  BY RunsRange
<1>3. NewRun(head) \in ProducerRun /\ idle \in ReporterRun
  BY DEF NewRun, ProducerRun, ProducerPoint, ReporterRun, ReporterPoint
<1>4. \A r \in Runs : rs[r] \in ProducerRun
  BY RunsRange, CancelledRun
<1>5. \A r \in Runs : ps[r] \in ReporterRun
  BY RunsRange DEF ReporterRun, ReporterPoint
<1>6. rs \in [1..Len(runs) -> ProducerRun] /\ ps \in [1..Len(runs) -> ReporterRun]
  BY <1>2, <1>4, <1>5
<1>7. \A r \in Runs : rs[r] = Cancelled(runs[r])
                      /\ (ps[r] = reporter[r] \/ ps[r].pc = "download")
  BY RunsRange DEF ReporterRun
<1> HIDE DEF rs, ps, idle
<1>8. rs \in Seq(ProducerRun) /\ ps \in Seq(ReporterRun)
  BY <1>2, <1>6, SeqDef
<1>9. Len(rs) = Len(runs) /\ Len(ps) = Len(runs)
  BY <1>2, <1>6, <1>8, LenProperties
<1>10. /\ runs' \in Seq(ProducerRun) /\ Len(runs') = Len(runs) + 1
       /\ \A i \in 1..Len(runs) : runs'[i] = rs[i]
       /\ runs'[Len(runs) + 1] = NewRun(head)
  BY <1>1, <1>2, <1>3, <1>8, <1>9, AppendProperties
<1>11. /\ reporter' \in Seq(ReporterRun) /\ Len(reporter') = Len(runs) + 1
       /\ \A i \in 1..Len(runs) : reporter'[i] = ps[i]
       /\ reporter'[Len(runs) + 1] = idle
  BY <1>1, <1>2, <1>3, <1>8, <1>9, AppendProperties
<1>12. Runs' = 1..(Len(runs) + 1)
  BY <1>10, LenProperties DEF Runs
<1>13. idle.pc = "idle"
  BY DEF idle
<1> QED BY <1>2, <1>7, <1>10, <1>11, <1>12, <1>13

(* An event touches no commit that is there.                               *)
LEMMA EventInv ==
  ASSUME IInv, NEW head \in Nat, Trigger(head), head <= Len(commits'), head > 0,
         commits' \in Seq(Contents), Len(commits') <= MaxPushes,
         PrHead <= Len(commits'), \A c \in 1..PrHead : commits'[c] = commits[c],
         UNCHANGED <<status, comments, historyVars>>
  PROVE  IInv'
<1>1. /\ PrHead \in Nat /\ Len(commits') \in Nat /\ Len(runs) \in Nat
      /\ UNCHANGED <<passed, misread, raced>>
  BY RunsRange DEF IInv, historyVars
<1>2. /\ runs' \in Seq(ProducerRun) /\ reporter' \in Seq(ReporterRun)
      /\ Len(reporter') = Len(runs')
      /\ Runs' = Runs \cup {Len(runs) + 1}
      /\ \A s \in Runs : /\ runs'[s] = Cancelled(runs[s])
                         /\ \/ reporter'[s] = reporter[s]
                            \/ reporter'[s].pc = "download"
      /\ runs'[Len(runs) + 1] = NewRun(head)
      /\ reporter'[Len(runs) + 1].pc = "idle"
  BY TriggerSteps DEF IInv
<1>3. Types'
  BY <1>1, <1>2 DEF IInv, Types, PrHead
<1>4. \A c \in 1..PrHead : Earned(c) => Earned(c)'
  BY <1>1 DEF Earned
<1>5. ASSUME NEW run \in ProducerRun, RunOK(run), NEW cancelled, cancelled = Cancelled(run)
      PROVE  RunOK(cancelled)'
  <2>1. run.head \in 1..PrHead /\ run.head \in 1..Len(commits')
    <3>1. run.head \in 1..PrHead
      BY <1>5 DEF RunOK
    <3> QED BY <1>1, <3>1
  <2>2. \A artifact : artifact.head = run.head =>
          (Honest(artifact) => Honest(artifact)') /\ (HonestReport(artifact) => HonestReport(artifact)')
    BY <1>4, <2>1 DEF Honest, HonestReport
  <2>3. RunOK(run)'
    BY <1>5, <2>1, <2>2 DEF RunOK, PrHead
  <2>4. /\ cancelled.head = run.head /\ cancelled.context = run.context
        /\ cancelled.draft = run.draft /\ cancelled.report = run.report
        /\ cancelled.candidate = run.candidate
        /\ cancelled.pc = run.pc \/ cancelled.pc = "completed"
    BY <1>5, CancelledRun
  <2> QED BY <2>3, <2>4 DEF RunOK
<1>6. RunsInv'
  <2>1. ASSUME NEW s \in Runs PROVE RunOK(runs[s])'
    <3>1. PICK run, cancelled : run = runs[s] /\ cancelled = Cancelled(run)
      OBVIOUS
    <3>2. /\ run \in ProducerRun /\ RunOK(run)
          /\ cancelled = Cancelled(run) /\ runs'[s] = cancelled
      BY <1>2, <2>1, <3>1, RunFacts
    <3>3. RunOK(cancelled)'
      BY <1>5, <3>2
    <3> QED BY <3>2, <3>3 DEF RunOK
  <2>2. PICK new : new = NewRun(head)
    OBVIOUS
  <2>3. RunOK(new)'
    BY <1>1, <2>2 DEF NewRun, RunOK, PrHead
  <2>4. ASSUME NEW s \in Runs' PROVE RunOK(runs[s])'
    <3>1. CASE s \in Runs
      BY <2>1, <3>1
    <3>2. CASE s \notin Runs
      <4>1. runs'[s] = new
        BY <1>2, <2>2, <3>2
      <4> QED BY <2>3, <4>1 DEF RunOK
    <3> QED BY <3>1, <3>2
  <2> QED BY <2>4 DEF RunsInv
<1>7. ReporterInv'
  <2>1. \A s \in Runs : runs'[s].context = runs[s].context
    BY <1>2, RunsRange, CancelledRun DEF IInv
  <2> QED BY <1>2, <2>1 DEF IInv, ReporterInv
<1>8. StatusInv'
  BY <1>1, <1>4 DEF IInv, StatusInv, PrHead
<1>9. CommentInv'
  <2>1. \A s \in InCommentSection' : s \in InCommentSection /\ reporter'[s] = reporter[s]
    BY <1>2 DEF InCommentSection
  <2>2. \A s \in Runs : runs'[s].context = runs[s].context
    BY <1>2, RunsRange, CancelledRun DEF IInv
  <2>3. \A s \in InCommentSection' : runs'[s].context = runs[s].context
    BY <2>1, <2>2 DEF InCommentSection
  <2>4. \A i \in 1..Len(comments) : comments[i] \in Nat
    BY DEF IInv, Types
  <2> QED BY SMTT(30), <1>1, <2>1, <2>3, <2>4 DEF IInv, CommentInv, PrHead
<1> QED BY <1>3, <1>6, <1>7, <1>8, <1>9 DEF IInv

LEMMA PushInv == ASSUME IInv, NEW content \in Contents, Push(content) PROVE IInv'
<1>1. PrHead \in Nat /\ commits \in Seq(Contents) /\ PrHead < MaxPushes
  BY RunsRange DEF Push, IInv, Types
<1>2. /\ commits' \in Seq(Contents) /\ Len(commits') = PrHead + 1
      /\ \A c \in 1..PrHead : commits'[c] = commits[c]
  BY <1>1, AppendProperties DEF Push, PrHead
<1> QED BY <1>1, <1>2, EventInv DEF Push

LEMMA ReopenInv == ASSUME IInv, Reopen PROVE IInv'
<1>1. PrHead \in Nat /\ commits \in Seq(Contents) /\ PrHead > 0 /\ PrHead <= MaxPushes
  BY RunsRange DEF Reopen, IInv, Types
<1> QED BY <1>1, EventInv DEF Reopen, PrHead

-----------------------------------------------------------------------------
LEMMA NextInv == ASSUME IInv, [PrNext]_prVars PROVE IInv'
<1>1. CASE \E content \in Contents : Push(content)
  BY <1>1, PushInv
<1>2. CASE Reopen
  BY <1>2, ReopenInv
<1>3. ASSUME NEW r \in Runs, Produce(r) PROVE IInv'
  BY <1>3, StartInv, CompareIdentityInv, ListFilesInv, ReadLockInv, UploadContextInv,
     QualifyInv, UploadReportInv DEF Produce
<1>4. ASSUME NEW r \in Runs, FailStep(r) PROVE IInv'
  BY <1>4, FailStepInv
<1>5. ASSUME NEW r \in Runs, Publish(r) PROVE IInv'
  BY <1>5, DownloadInv, PublishStatusInv, ReadHeadInv, ListCommentsInv, WriteCommentInv
     DEF Publish
<1>6. ASSUME NEW r \in Runs, FailCall(r) PROVE IInv'
  BY <1>6, FailCallInv
<1>7. CASE UNCHANGED prVars
  BY ZenonT(40), <1>7 DEF prVars, IInv, Types, RunsInv, ReporterInv, StatusInv, CommentInv, RunOK, Honest,
              HonestReport, Earned, InCommentSection, Runs, PrHead
<1> QED BY <1>1, <1>2, <1>3, <1>4, <1>5, <1>6, <1>7 DEF PrNext

(* The inductive invariant: a run says nothing of a commit that would make *)
(* its status a success unless the commit earned it, and checks the lock   *)
(* of that commit; unless two reporters raced, one alone is between its    *)
(* look at the head and its write (source.py:277-299, publisher.py:392-433)*)
THEOREM RunsAreHonest == PrSpec => []IInv
BY InitInv, NextInv, PTL DEF PrSpec

(* SuccessIsEarned, for every number of pushes and runs (commands.py:236-  *)
(* 271, publisher.py:392-414).                                             *)
THEOREM SuccessesAreEarned == PrSpec => []SuccessIsEarned
<1>1. IInv => SuccessIsEarned
  <2> SUFFICES ASSUME IInv, NEW c \in 1..PrHead, status[c] = "success"
               PROVE  Earned(c)
    BY DEF SuccessIsEarned, Earned
  <2>1. PrHead \in Nat /\ PrHead <= MaxPushes
    BY RunsRange DEF IInv, Types
  <2>2. c \in 1..MaxPushes
    BY <2>1
  <2> QED BY <2>2 DEF IInv, StatusInv
<1> QED BY <1>1, RunsAreHonest, PTL

(* OneStickyComment, for every number of pushes and runs (publisher.py:419-*)
(* 433).                                                                   *)
THEOREM StickyCommentIsOne == PrSpec => []OneStickyComment
<1>1. IInv => OneStickyComment
  BY DEF IInv, CommentInv, OneStickyComment
<1> QED BY <1>1, RunsAreHonest, PTL

(* CommentNeverGoesBack, for every number of pushes and runs: nothing but  *)
(* WriteComment touches a comment, and its writer alone knew of the        *)
(* comments since it found its commit at the head (publisher.py:419-433).  *)
THEOREM CommentStays == PrSpec => CommentNeverGoesBack
<1> DEFINE Forward == ~raced' => \A i \in DOMAIN comments : comments'[i] >= comments[i]
<1>1. ASSUME IInv, [PrNext]_prVars PROVE [Forward]_prVars
  <2> SUFFICES ASSUME PrNext PROVE Forward
    BY <1>1
  <2>1. DOMAIN comments = 1..Len(comments) /\ \A i \in 1..Len(comments) : comments[i] \in Nat
    BY <1>1 DEF IInv, Types
  <2>2. CASE UNCHANGED comments
    BY <2>1, <2>2
  <2>3. ASSUME NEW r \in Runs, WriteComment(r) PROVE Forward
    BY <1>1, <2>1, <2>3, CommentWritten DEF WriteComment, historyVars
  <2>4. ASSUME NEW r \in Runs, Produce(r) \/ FailStep(r) \/ FailCall(r)
        PROVE  UNCHANGED comments
    BY <2>4 DEF Produce, FailStep, FailCall, Start, CompareIdentity, ListFiles, ReadLock,
                UploadContext, Qualify, UploadReport, Goes
  <2>5. ASSUME NEW r \in Runs, Publish(r) PROVE UNCHANGED comments \/ WriteComment(r)
    BY <2>5 DEF Publish, Download, PublishStatus, ReadHead, ListComments
  <2>6. ASSUME Reopen \/ \E content \in Contents : Push(content) PROVE UNCHANGED comments
    BY <2>6 DEF Reopen, Push
  <2> QED BY <2>2, <2>3, <2>4, <2>5, <2>6 DEF PrNext
<1> QED BY <1>1, RunsAreHonest, PTL DEF PrSpec, CommentNeverGoesBack
=============================================================================
