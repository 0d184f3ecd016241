------------------------------ MODULE GithubPr ------------------------------
(***************************************************************************)
(* Qualification of a pull request (github_pr): a producer workflow, run   *)
(* for each event of the pull request, prepares a context, checks the      *)
(* proposed baseline.lock and uploads the context and a report; when it    *)
(* completes, a reporter workflow writes the commit status and the one     *)
(* sticky comment.  Commits are numbered in the order of their pushes, the *)
(* head of the pull request is the last.  GitHub itself (events, the       *)
(* concurrency group, artifacts) is external: it behaves as the templates  *)
(* of the workflows assume (templates.py).                                 *)
(*                                                                         *)
(* A step of a job that fails leaves the steps marked always().  A call of *)
(* the API may fail, and a write may fail after it took effect             *)
(* (_request_bytes); a mismatch of another part of the identity, as of a   *)
(* base that moved, ends the job like a failed call.                       *)
(***************************************************************************)
EXTENDS Naturals, Sequences, FiniteSets

CONSTANTS
  Contents,   \* what a commit can hold: [changed, lock]
  Verdicts,   \* the verdicts a check can end with
  MaxPushes,  \* bound: commits pushed
  MaxRuns,    \* bound: runs of the producer workflow
  None

ASSUME BoundsAssumption == MaxPushes \in Nat /\ MaxRuns \in Nat
ASSUME ContentsAssumption ==
  Contents \subseteq [changed : {{"lock"}, {"code"}, {"lock", "code"}},
                      lock : {"valid", "invalid"}]
ASSUME VerdictsAssumption == Verdicts \subseteq {"pass", "warn", "block", "incomplete"}

PrClassification == {"not_applicable", "upgrade", "invalid_scope"}
PrReportVerdict == {"not_applicable", "pass", "warn", "block", "incomplete"}
PullRequestContext == [head : Nat, class : PrClassification]
PullRequestReport == [head : Nat, class : PrClassification, verdict : PrReportVerdict]

ASSUME NoneAssumption ==
  None \notin PullRequestContext \cup PullRequestReport \cup {"success", "failure", "error"}

VARIABLES
  commits,   \* the contents of the commits pushed
  runs,      \* the runs of the producer, in the order of their events
  reporter,  \* the run of the reporter for each of them
  status,    \* commit -> its latest qualock/pr status
  comments,  \* the bot's marker comments, each by the commit it reports
  passed,    \* history: the commits whose lock passed a check
  misread,   \* history: the commits a run classified by a later commit's files
  raced      \* history: two reporters were in their comment section at once

prVars == <<commits, runs, reporter, status, comments, passed, misread, raced>>
historyVars == <<passed, misread, raced>>

PrHead == Len(commits)
Runs == DOMAIN runs

PrInit ==
  /\ commits = <<>> /\ runs = <<>> /\ reporter = <<>>
  /\ status = [c \in 1..MaxPushes |-> None]
  /\ comments = <<>>
  /\ passed = {} /\ misread = {} /\ raced = FALSE

-----------------------------------------------------------------------------
(* Events.  A run that is superseded is cancelled: before it started it    *)
(* completes at once; in progress it goes on until FailStep stops it.      *)

Cancelled(run) == IF run.pc = "queued" THEN [run EXCEPT !.pc = "completed"] ELSE run

NewRun(head) ==
  [pc |-> "queued", head |-> head, draft |-> None, candidate |-> None,
   context |-> None, report |-> None]

Trigger(head) ==
  /\ Len(runs) < MaxRuns
  /\ runs' = Append([r \in Runs |-> Cancelled(runs[r])], NewRun(head))
  /\ reporter' = Append([r \in Runs |->
       IF runs[r].pc = "queued" THEN [reporter[r] EXCEPT !.pc = "download"] ELSE reporter[r]],
       [pc |-> "idle", seen |-> 0])

(* opened, synchronize                                                     *)
Push(content) ==
  /\ PrHead < MaxPushes
  /\ commits' = Append(commits, content)
  /\ Trigger(PrHead + 1)
  /\ UNCHANGED <<status, comments, historyVars>>

(* reopened, ready_for_review                                              *)
Reopen ==
  /\ PrHead > 0
  /\ Trigger(PrHead)
  /\ UNCHANGED <<commits, status, comments, historyVars>>

-----------------------------------------------------------------------------
(* The producer.                                                           *)

(* classify_files                                                          *)
Classify(files) ==
  CASE "lock" \notin files -> "not_applicable"
    [] files = {"lock"} -> "upgrade"
    [] OTHER -> "invalid_scope"

(* Only validate_proposed_lock tells a proposed upgrade from any other     *)
(* content of the path: the base's own lock is not strictly newer.         *)
Acceptable(c) == "lock" \in commits[c].changed /\ commits[c].lock = "valid"

Report(context, verdict) ==
  [head |-> context.head, class |-> context.class, verdict |-> verdict]

Context(r, class) == [head |-> runs[r].head, class |-> class]

Goes(r, from, next) ==
  /\ runs[r].pc = from
  /\ runs' = [runs EXCEPT ![r] = next]
  /\ UNCHANGED <<commits, reporter, status, comments>>

At(r, pc) == [runs[r] EXCEPT !.pc = pc]

(* The concurrency group runs one at a time.                               *)
Start(r) ==
  /\ \A other \in Runs \ {r} : runs[other].pc \in {"queued", "completed"}
  /\ Goes(r, "queued", At(r, "identity"))
  /\ UNCHANGED historyVars

(* A step fails, or the run is cancelled: the always() steps are left.     *)
FailStep(r) ==
  /\ runs[r].pc \in {"identity", "list files", "read lock", "upload context", "qualify"}
  /\ Goes(r, runs[r].pc, At(r, "upload report"))
  /\ UNCHANGED historyVars

(* prepare_pr_context: the head of the event must still be the head.       *)
CompareIdentity(r) ==
  /\ Goes(r, "identity",
          At(r, IF runs[r].head = PrHead THEN "list files" ELSE "upload report"))
  /\ UNCHANGED historyVars

(* list_changed_files lists what the pull request holds now; the only tie  *)
(* to the head that was compared is the number of files.                   *)
ListFiles(r) ==
  LET files == commits[PrHead].changed
      expected == commits[runs[r].head].changed
      context == Context(r, Classify(files))
      draft == CASE context.class = "not_applicable" -> Report(context, "not_applicable")
                 [] context.class = "invalid_scope" -> Report(context, "incomplete")
                 [] OTHER -> None
      complete == Cardinality(files) = Cardinality(expected)
  IN  /\ Goes(r, "list files",
              IF ~complete THEN At(r, "upload report")
              ELSE [runs[r] EXCEPT !.pc = IF draft = None THEN "read lock" ELSE "upload context",
                                   !.draft = draft])
      /\ misread' = IF complete /\ runs[r].head # PrHead
                    THEN misread \cup {runs[r].head} ELSE misread
      /\ UNCHANGED <<passed, raced>>

(* A defect: the lock is read from the branch.                             *)
ReadAtLiveHead(r) == PrHead

(* read_file_at_ref with the head of the context.                          *)
LockRef(r) == runs[r].head

(* prepare_pr on an upgrade: a project that is stale or unsupported, a     *)
(* lock that cannot be read or is not valid end in an incomplete report.   *)
ReadLock(r) ==
  /\ \/ /\ Acceptable(LockRef(r))
        /\ Goes(r, "read lock",
                [runs[r] EXCEPT !.pc = "upload context", !.candidate = LockRef(r)])
     \/ Goes(r, "read lock",
             [runs[r] EXCEPT !.pc = "upload context",
                             !.draft = Report(Context(r, "upgrade"), "incomplete")])
  /\ UNCHANGED historyVars

DraftClass(r) == IF runs[r].draft = None THEN "upgrade" ELSE runs[r].draft.class

(* Plan qualification: it goes on only without a terminal report.          *)
UploadContext(r) ==
  /\ Goes(r, "upload context",
          [runs[r] EXCEPT !.pc = IF runs[r].draft = None THEN "qualify" ELSE "upload report",
                          !.context = Context(r, DraftClass(r))])
  /\ UNCHANGED historyVars

(* qualify_prepared_pr: without a credential, and for whatever the check   *)
(* raises, the report is incomplete.                                       *)
Qualify(r, verdict) ==
  /\ Goes(r, "qualify", [runs[r] EXCEPT !.pc = "upload report",
                                        !.draft = Report(runs[r].context, verdict)])
  /\ passed' = IF verdict = "pass" THEN passed \cup {runs[r].candidate} ELSE passed
  /\ UNCHANGED <<misread, raced>>

(* With the job the disk of its runner is gone.                            *)
UploadReport(r) ==
  \E report \in {runs[r].draft, None} :
    /\ runs[r].pc = "upload report"
    /\ runs' = [runs EXCEPT ![r] = [@ EXCEPT !.pc = "completed", !.report = report,
                                            !.draft = None, !.candidate = None]]
    /\ reporter' = [reporter EXCEPT ![r].pc = "download"]
    /\ UNCHANGED <<commits, status, comments, historyVars>>

-----------------------------------------------------------------------------
(* The reporter.                                                           *)

Reports(r, from, next) ==
  /\ reporter[r].pc = from
  /\ reporter' = [reporter EXCEPT ![r].pc = next]

(* A defect: a missing report does not bind.                               *)
BindsReport(context, report) ==
  report # None /\ report.head = context.head /\ report.class = context.class

(* validate_reporter_inputs; a missing report is accepted.                 *)
Binds(context, report) ==
  report # None => report.head = context.head /\ report.class = context.class

(* Without the context artifact the job ends before report-pr.             *)
Download(r) ==
  /\ Reports(r, "download",
       IF runs[r].context = None THEN "no context"
       ELSE IF Binds(runs[r].context, runs[r].report) THEN "status" ELSE "rejected")
  /\ UNCHANGED <<commits, runs, status, comments, historyVars>>

(* _STATE_BY_VERDICT, and the outcomes without a report.                   *)
StateOfVerdict ==
  [not_applicable |-> "success", pass |-> "success", warn |-> "failure",
   block |-> "failure", incomplete |-> "error"]

State(context, report) ==
  IF report # None THEN StateOfVerdict[report.verdict]
  ELSE IF context.class = "not_applicable" THEN "success" ELSE "error"

PublishStatus(r) ==
  LET context == runs[r].context  report == runs[r].report
      quiet == report = None \/ report.verdict = "not_applicable"
  IN  /\ \E next \in {IF quiet THEN "done" ELSE "head", "failed"} : Reports(r, "status", next)
      /\ status' = [status EXCEPT ![context.head] = State(context, report)]
      /\ UNCHANGED <<commits, runs, comments, historyVars>>

InCommentSection == {r \in Runs : reporter[r].pc \in {"list", "write"}}

(* A defect: every run takes its commit for the head.                      *)
AlwaysHead(r) == TRUE

(* current_pr_head                                                         *)
StillHead(r) == runs[r].context.head = PrHead

ReadHead(r) ==
  /\ Reports(r, "head", IF StillHead(r) THEN "list" ELSE "done")
  /\ raced' = (raced \/ (StillHead(r) /\ InCommentSection # {}))
  /\ UNCHANGED <<commits, runs, status, comments, passed, misread>>

ListComments(r) ==
  /\ reporter[r].pc = "list"
  /\ reporter' = [reporter EXCEPT ![r] = [pc |-> "write", seen |-> Len(comments)]]
  /\ UNCHANGED <<commits, runs, status, comments, historyVars>>

(* A defect: the comment of another commit is left, and one is created.    *)
CommentedPerHead(seen, head) ==
  IF seen > 0 /\ comments[seen] = head THEN comments ELSE Append(comments, head)

(* The newest marker comment is updated; without one a comment is created. *)
Commented(seen, head) ==
  IF seen > 0 THEN [comments EXCEPT ![seen] = head] ELSE Append(comments, head)

WriteComment(r) ==
  /\ reporter[r].pc = "write"
  /\ \E next \in {"done", "failed"} :
       reporter' = [reporter EXCEPT ![r] = [pc |-> next, seen |-> 0]]
  /\ comments' = Commented(reporter[r].seen, runs[r].context.head)
  /\ UNCHANGED <<commits, runs, status, historyVars>>

FailCall(r) ==
  /\ reporter[r].pc \in {"status", "head", "list", "write"}
  /\ Reports(r, reporter[r].pc, "failed")
  /\ UNCHANGED <<commits, runs, status, comments, historyVars>>

-----------------------------------------------------------------------------
Produce(r) ==
  \/ Start(r) \/ CompareIdentity(r) \/ ListFiles(r) \/ ReadLock(r) \/ UploadContext(r)
  \/ \E verdict \in Verdicts : Qualify(r, verdict)
  \/ UploadReport(r)

Publish(r) ==
  Download(r) \/ PublishStatus(r) \/ ReadHead(r) \/ ListComments(r) \/ WriteComment(r)

PrNext ==
  \/ \E content \in Contents : Push(content)
  \/ Reopen
  \/ \E r \in Runs : Produce(r) \/ FailStep(r) \/ Publish(r) \/ FailCall(r)

PrSpec == PrInit /\ [][PrNext]_prVars

(* GitHub runs what is queued: as long as a job has a step to take, some   *)
(* job takes one.                                                          *)
FairPrSpec == PrSpec /\ WF_prVars(\E r \in Runs : Produce(r) \/ Publish(r))

-----------------------------------------------------------------------------
(* A commit whose status is success leaves the lock alone or had its own   *)
(* lock pass a check, whatever was cancelled, overtaken or reopened, unless*)
(* a push fell between the comparison of the heads and the listing of the  *)
(* files (source.py:277-299, commands.py:236-271, publisher.py:392-414).   *)
SuccessIsEarned ==
  \A c \in 1..PrHead :
    status[c] = "success" => "lock" \notin commits[c].changed \/ c \in passed \cup misread

(* The pull request has one sticky comment, as long as no two reporters    *)
(* were between reading the head and writing at the same time              *)
(* (publisher.py:419-433).                                                 *)
OneStickyComment == ~raced => Len(comments) <= 1

(* Under the same condition the comment never goes back from the report of *)
(* a commit to that of an earlier one (publisher.py:419-433).              *)
CommentNeverGoesBack ==
  [][~raced' => \A i \in DOMAIN comments : comments'[i] >= comments[i]]_prVars

(* In the end every run that left a context gave its commit a status, with *)
(* or without a report, unless a call of the API failed (publisher.py:     *)
(* 182-186, 392-414).                                                      *)
ContextGetsStatus ==
  <>[](\A r \in Runs : runs[r].context # None =>
         reporter[r].pc = "failed" \/ status[runs[r].head] # None)

(* What the design asks for: the sticky comment is never updated after the *)
(* head of the pull request has changed (publisher.py:419-433).            *)
CommentIsOfHead ==
  [][\A i \in DOMAIN comments' :
       i \notin DOMAIN comments \/ comments'[i] # comments[i] => comments'[i] = PrHead]_prVars
=============================================================================
