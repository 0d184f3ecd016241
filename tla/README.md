# A verification project for QuaLock

QuaLock qualifies a new release of a coding agent against a pinned baseline: it
runs the same canaries with both versions, several times each, and returns PASS,
WARN, BLOCK or INCOMPLETE. Around this core are a release monitor and a native
schedule for it, a scan for the first bad release, evidence bundles, protocols that
verify them, pull-request qualification, and protection of a project's own checks.

This directory holds TLA+ modules translated from the Python source, the TLC
configurations that check them, and proofs checked by TLAPS. `PROJECT.json` is the
machine-readable index: which run checks what, which definition stands for which
lines, which hazards there are, and for every property a defect it detects.

    tlc -config PairedChange.cfg MCPairedChange
    tlapm QualificationProofs.tla

Paths below are relative to `src/src/qualock/`.

## 1. Inventory

| Component | State it keeps | Operations | What is hard | What makes it correct | Here |
|---|---|---|---|---|---|
| Qualification executor (`run/executor.py`, `run/schedule.py`, `qualification/`) | loop variables of one run | `run`, `paired_schedule`, `qualify_canary`, `qualify_suite` | two budgets that compose, order of execution unlike order of results, a backend that raises | a budget is never overspent nor spent on the wrong canary; a verdict is earned by evidence | `Qualification`, `QualificationPolicy`, `QualificationSpec`, `QualificationProofs` |
| Docker attempt (`run/backend.py`, `run/docker.py`, `run/process.py`) | containers and images in a shared daemon | `run_attempt`: create, start, commit, inspect, grade, remove | processes that share names, clients killed at a timeout while the container runs on, failures between two commands | an attempt is judged on its own, finished work, and its container is nobody else's until it is over | `DockerBackend`, `DockerBackendProofs` |
| Host attempt (`run/host.py`, `run/host_backend.py`) | a workspace on the host, a process tree | the same, in a sandbox | nothing is frozen: what is inspected and graded is the live directory, and agents and setup commands leave processes behind | an attempt is judged on its own agent's work, and only a detached process can change it meanwhile | `HostBackend`, `DockerBackendProofs` |
| Evidence (`evidence/`, `commands.py`) | result directories, bundles | write, export, publish, roll back, verify | several files written in turn; a live project read again; publication by two renames among other programs | what is published is the run's; the verifier accepts it; others' directories are kept | `EvidenceBundle`, `EvidenceExport`, `QualificationProofs`, `FirstBadProofs` |
| Paired-change protocol (`protocols/paired_change/`) | sidecar, companion files | run sidecar, conditions, claims, verify | three orders of the same attempts; many conditions | a claim says no more and no less than the verdict allows | `PairedChange`, `QualificationProofs` |
| First-bad protocol (`protocols/first_bad/`) | a staging directory, a package | preflight, edges, chain, receipt | project and registry change between edges; publication | edges connect; a package is true, complete or absent | `FirstBad`, `FirstBadProofs` |
| Change targeting, targeted execution (`change_targeting/`, `targeted_execution/`) | a plan, a receipt | assess, select, run, store | a target whose facts are not all known | what was run is enough, whatever the target turns out to be | `ChangeTargeting`, `EvidenceExport`, `FirstBadProofs` |
| Release monitor (`release_monitor/`) | one state file per user and project | `monitor [--force]` | several monitors, and `baseline` under them; lost state; INCOMPLETE | a release is skipped only if it was qualified; every new one is in the end | `ReleaseMonitor`, `ReleaseMonitorProofs` |
| Baseline (`baseline/`, `commands.py`) | `.qualock/baseline.lock` | `baseline`, read, freshness | rewritten in place while others read | what is compared was measured on the same project | in `ReleaseMonitor`, `EvidenceExport` |
| Scheduler (`scheduler/`) | `registration.json`, the system's definition, the manager's trigger | `schedule enable`, `status`, `disable` on systemd, launchd and Windows | three copies of one schedule, changed one after the other by calls that fail or time out; rollback that fails | what a command says of the trigger is true | `Scheduler`, `SchedulerProofs` |
| Version bisect (`version_bisect/`) | `summary.json` | `bisect` | interruption between a check and its save | claims follow from verdicts | `VersionBisect`, `VersionBisectSpec`, `VersionBisectProofs` |
| Pricing (`pricing/`) | rate catalog, a sidecar per check | sidecar, `cost` | catalogs that change, clocks set back, usage not observed, damaged files | an estimate rests on what was observed, under one rate card | `Pricing`, `VersionBisectProofs` |
| Pull-request qualification (`github_pr/`) | a pull request, its status and comment | classify, qualify, report, publish | two workflows, a head that moves, runs cancelled and overtaken | success is earned; one comment, which does not go back | `GithubPr`, `GithubPrProofs` |
| Project protection, setup and start (`project_protection/`, `project_setup/`, `project_start/`) | `project.lock`, `config.yaml`, a signing key | `protect`, `setup`, `start` | several writers of three files that are truncated and written in place; failures that unlink | a lock verifies under the one key; `start` replaces no lock it had seen | `ProjectProtection`, `ProjectWatchProofs` |
| Project watch (`project_watch/`) | the session | poll, settle, stable cycle, `verify` | files and lock change during snapshots and checks; Ctrl-C | a result belongs to the tree and the lock it is shown for; no edit is lost | `ProjectWatch`, `ProjectWatchProofs` |
| Git source cache, scheduler runner, agents, history, reports, configuration, command line | mirrors, caches, artifacts | clone, download, compare, render | see section 6 | | not modelled |

**Interaction.** `check` (`commands.py`) reads the baseline lock and the suite, runs
the executor over a backend, and writes artifacts, which the exporter turns into a
bundle with a protocol companion. `monitor`, `bisect` and the pull-request workflow
call `check`; the schedule's trigger starts a runner that starts `monitor`; first-bad
calls `baseline`, `check` and the exporter per edge; `cost` reads the artifacts back.
All of them are ordinary processes of one user: they share `.qualock/`, the user's
state directory and the Docker daemon, and hold no locks. This is why every step that
reads or writes one of these is an action of its own in the modules below.

The hazards this leads to are listed one by one in `PROJECT.json`, each at its line,
with the properties that would show it, or with a note on why none does.

## 2. Plan

A verdict is worth what the executor and its attempts are worth; the evidence is worth
what the verdict is; the rest decides when and against what a check runs. The modules
were written in this order:

1. `QualificationPolicy`, `Qualification`, `QualificationSpec`, `QualificationProofs`
2. `DockerBackend`, `HostBackend` and the proofs of both: one attempt, many processes
3. `ReleaseMonitor` and its proofs: who may reuse a verdict, under a lock that changes
4. `VersionBisect` and `VersionBisectSpec`, and their proofs
5. `Scheduler` and its proofs: what starts the monitor
6. `ProjectProtection` and, composed with it, `ProjectWatch`, and the proofs of both
7. `EvidenceBundle` and `PairedChange`, composed with `Qualification`; the proofs of
   both are in `QualificationProofs`
8. `ChangeTargeting`, `EvidenceExport` and `FirstBad`, each composed with the one
   before it, and `FirstBadProofs` for all; `FirstBad` implements `VersionBisectSpec`
9. `GithubPr` and its proofs
10. `Pricing`, composed with `VersionBisect` in `MCVersionBisect` as what may come of a
    series of checks; the proofs of both are in `VersionBisectProofs`

Left: the stability runs of `qualock baseline` as runs of `Qualification`; a baseline
that is written under a scan of `VersionBisect`; and two schedule commands at a time.

## 3. The modules

### Qualification (with QualificationPolicy, QualificationSpec)

`QualificationExecutor.run` is a loop; its local variables are the module's
variables and its `phase` is where the loop is. `SkipCanary`, `StartCanary`,
`RunAttempt`, `FinishCanary` and `Return` are the branches of its body;
`BackendRaises` is an exception out of the backend, for which `run` has no handler.
The order of execution is the relation `Before` and not a tuple, which says the same
and can be reasoned about. What an attempt shows is its validity, its success and
its tokens, `None` when its usage was not observed. `first_orientation`, the parity
of a hash, is a free choice.

`QualificationSpec` is what a caller may rely on: canaries are measured or skipped,
nothing is measured after a skip, critical canaries are not skipped while others were
taken, and the verdict is the policy over all the evidence. `KeepsPromise` maps a
canary to its evidence, without its tokens, and a run to its result.

### EvidenceBundle and PairedChange, composed with Qualification

`EvidenceBundle` adds to `RunAttempt` and `SkipCanary` what the executor records of
them: `trace`, the attempts in the order they ran, and `skip_reason`. From these alone
`ExportedBundle` derives totals, completeness, reasons and verdicts again
(`evidence/export.py`), and `VerifyBundle` once more and in another way
(`evidence/verify.py`). `BundleVerifies` says that these agree with each other and
with the running totals of the executor. A list of attempts is a function from
places in the run, so a canary's own are the trace restricted to their places, in the
same order, and what is derived from a list is a count or a sum over those places.

`PairedChange` builds the run sidecar from the trace (`Sidecar`), binds it to the
bundle (`LayoutAccepts`, `Accepts`), evaluates each condition of the protocol
(`QualificationGates`, `CanaryGates`) and derives a claim per canary (`DeriveClaim`).
The pairs of a canary are restrictions of the trace, too; the order in which the sidecar
writes them, by id, by repetition and within a pair as they ran, is a relation between
places (`WrittenBefore`), and the list in that order (`ObservedOrder`) is each place at
its rank.
A control is what a run knows of its environment: backend, declared changes and
dimensions, the agent's support files. Conditions are over evidence that is known and
equal, or not known; digests are left out.

### DockerBackend

Each worker is a process inside `_run_attempt_result`; `frame[w].at` is the command
it is about to issue. `create` to `inspect_image` is `run_agent`, called before the
`try`, so that an exception there (`Raise`) leaves the container; `parse`,
`inspect_state` and `grade` are the `try` statement, left through `finally`. The
daemon's containers and images are keyed by the container name, which is the same
for all processes that run one canary and version (`_container_name`); the frozen tag
is a function of it. `docker create`, `commit` and `rm` may fail, and may time out
after the daemon did its part. `ClientTimesOut` is `run_process` killing the client,
not the container. The user may remove, by hand, what an attempt that ended left.

The `docker rm` of the `finally` knows the name only, and runs whatever happened.
`KeepsItsContainer` says that it never meets a container of another process whose attempt
is in progress. This rests on `run_agent` being outside the `try`: an attempt whose
`docker create` failed because the name is taken does not come to the `finally`
(`CreateInTry` is the other order).

### HostBackend

One qualification process runs its attempts in workspaces copied from the prepared
directory, to which background processes of the setup commands may go on writing
(`SetupWrites`): they run in no sandbox, and only their output is waited for. The agent
writes (`AgentWrites`), may leave processes in the background (`Forks`,
`BackgroundWrites`, `BackgroundEnds`), may hang until its timeout (`AgentTimesOut`), and
goes on when Ctrl-C ends only the qualification process (`Interrupt`, `Die`).

Its exit does not end what it left in the background: the sandbox has a PID namespace,
but its first process is bubblewrap's own, neither `--as-pid-1` nor `--die-with-parent` is
passed, and only at a timeout is the process group, with that process, killed
(`KillTree`). `run_process_tree` returns when the output is at its end (`AgentReturns`),
so a background process that holds the output open ("attached") is waited for. One that
does not ("detached") may outlive the exit. Bubblewrap's first process may hold the
output open until it has no children left, in which case no process is detached; nothing
in the repository says so, and the model does not rely on it.

So what is graded can be something else than what was inspected for protected paths,
though README.md:686 has the agent's state frozen after it exits.
`ChangedOnlyByDetached` says exactly how far: a valid attempt was inspected and graded
on its own workspace, after its agent had exited with 0, and the two differ only if the
agent left a detached process. A workspace is whose processes wrote to it and how far the
last agent got; `inspected` and `graded` are what it holds at one moment, although the
three Git commands and the copy take time, since whatever changes it during one of them
is a detached process too.

### ChangeTargeting, EvidenceExport and FirstBad, each composed with the one before

`ChangeTargeting` is operators: three-valued matching of requirements against the
facts known of a target (`MatchRequirements`), and the assessment of a signal
(`Assess`). `Suffices`, which is not in the code, says of a selection that under
every completion of the facts it covers what is then relevant.

`EvidenceExport` has one qualifying command, `check` or `check-target`: it reads the
files of the project one by one (`StartRun`, `LoadCanaries`, `ReadLock`), and writes
its artifacts in their order, each opened and closed (`OpenArtifact`,
`CloseArtifact`; the pricing sidecar may be given up). Any number of exporters read
the artifacts and the live project, compare identities, stage, and publish bundle and
companion by two renames; when the second fails, `Claim` and `Restore` are the
rollback, which takes the bundle aside, looks whether it is its own, and gives it back
if not. The project is edited and its baseline written between any two steps, and
other programs take names at the destination (`PutForeign`). A directory is an
identity whose `place` is its name.

`FirstBad` adds the orchestrator and a registry that may publish another build of a
release (`Republish`): `ReadConfig` to `Anchor` freeze the inputs, `CheckEdge` is one
edge with its runs, export and verification in a private workspace, whose outcome is
any set of canary claims; then the chain, the receipt, both verifications and the
rename. `VerifyPackage` is `verify_first_bad`. `ScanKeepsPromise` maps edges to
verdicts of `VersionBisectSpec`, whose releases are those after the baseline's.

### ReleaseMonitor

One `frame` per monitor process holds what `execute_monitor` has read: the lock of
its preflight, the latest release, the recorded release that matched, the lock its
check read. `Preflight`, `Discover`, `LoadState`, `StartCheck`, `FinishCheck` and
`SaveState` are the steps between which other processes may act: `qualock baseline`
truncates and writes the lock (`TruncateLock`, `WriteLock`), the user edits the
suite, the registry moves its tag, the state file is lost. The record carries, besides
what the code stores, the qualification that its `qualification_id` names, so that
properties can say whether it was earned.

### VersionBisect (with VersionBisectSpec)

`execute_bisect` with its four variables, and `summary.json`, replaced as a whole.
`Abort` is an exception or an interrupt anywhere. `VersionBisectSpec` judges releases
oldest first and concludes from the verdicts alone; `KeepsPromise` says that the
summary on disk, at every moment, is a state of such a scan.

### Scheduler

The three copies of a schedule: `registration`, `units` (what the system keeps on
disk: two unit files, a plist, a task) and `armed`, the definition the manager
triggers by, with `enabled` for what happens after a reboot. `enable_schedule` goes
through `compare`, `save`, the platform's installation and `verify`; a failure of the
installation rolls back through the steps of `disable_schedule`. On systemd these are
two files, daemon-reload and `enable --now`; on launchd, bootout of the old service,
the plist and bootstrap; on Windows, one call that replaces the task. `told` is what
the command printed in the end. Of systemd the module assumes: daemon-reload makes an
active timer follow its file, `enable --now` reloads, a timer whose file is gone stays
active and unknown to `disable`, a reboot starts what is linked. Of launchd: a loaded
service runs by the plist it was bootstrapped with. Of Windows: a task is created and
deleted as a whole, and may be disabled by hand.

### ProjectProtection, and ProjectWatch composed with it

`ProjectProtection` has a frame for each terminal that runs `protect`, `setup` or
`start`; `frame[s].at` is where it is. From `load` to `evidence` it is
`execute_protect`; `ensure` to `defining` is what setup writes before it; `assert` and
`compatible` are the checks of `apply_start_bootstrap`. Opening a file for writing and
closing it are two actions, with `Torn` in between, and two writers of one file leave
the later text or a mixture. An unlinked lock is still written to by who has it open,
to no effect (`write_unlinked`). `Fail` is an exception, after which setup removes the
lock; `Interrupt` is Ctrl-C, after which it does not.

`ProjectWatch` adds a working tree, edited one path at a time, and a `watch` session:
`StartWatch` freezes the control identity, `AssertBefore` to `ConcludeCycle` are
`run_stable_cycle` and what `run_watch` makes of it, `Poll` and `Compare` are the loop.
A snapshot lists the paths first and then stamps them one by one (`StampFile`), with
edits in between, so it may be of a tree that never was. `RunCheck` records which tree
each protection looked at; this is what a result must be true of.

### GithubPr

A run of the producer workflow is a step `pc` and what it has made so far: it starts
(`Start`), compares the identity of the event with the live pull request, lists its
files, reads the lock of its commit, uploads a context, checks, and uploads a report.
A step that fails leaves those marked `always()` (`FailStep`). The reporter of a run
downloads both, binds them (`Binds`), writes the status, reads the head, lists the
comments and updates or creates the sticky one. A new event cancels what is queued and
may stop what runs. GitHub is external: events, the concurrency group, artifacts, and
calls that fail, also after they took effect (`FailCall`). `passed`, `misread` and
`raced` are history, for the properties only.

### Pricing

A check starts under a configuration and a catalog and leaves a report with a pricing
sidecar: the model its event streams identify (`ResolveModel`), the one rate card in
effect at start and finish, and which token counts may be trusted (`UsageTrust`).
`Analyze` is `qualock cost`: it reads all sidecars back, sets aside what is older,
damaged or conflicting, picks the cohort and estimates. Between checks the program is
upgraded, files are damaged and the clock is set back. The samples of a canary are a
function from the places of its executions, in the report and in the history. Of the
sorted list in `_decimal_median` only the middle matters: the n-th smallest is the value
that fewer than n are below and at least n are not above (`NthSmallest`).

## 4. What the runs check

| Run | Instance | What it shows |
|---|---|---|
| `paired_change` | 2 canaries, 1 critical, 2 repetitions, attempt budget none, 4 or 7, token budget none or 3, 6 environments | budgets, priority, earned verdicts, refinement; the bundle verifies, the companion is accepted, claims agree with verdicts |
| `export_reordered` | the same with 1 repetition | violated, see below |
| `docker_backend` | Docker: 2 processes, 1 name, 4 attempts; or the host: 2 attempts | isolation through the name, validity, containers that stay, every attempt ends; who can change the work that is judged, although nothing is frozen |
| `release_monitor` | a daily and a manual monitor, 3 releases, 2 baselines, verdicts BLOCK and INCOMPLETE | reuse is earned; the record goes back only by overlap; new releases end up qualified |
| `release_monitor_downgrade` | 1 monitor, 3 releases, 2 baselines | violated, see below |
| `version_bisect` | scans: every catalog, baseline and upper bound of 5 releases; costs: 2 checks, 2 days, 3 rate catalogs, 4 agents | claims on disk are true, the scan ends, refinement; estimates are honest |
| `scheduler` | 3 platforms, 2 times, 2 commands; any sequence of commands and failures | ENABLED, DISABLED and "rolled back" mean what they say |
| `scheduler_drift` | systemd | violated, see below |
| `project_watch` | 3 terminals with 3 commands; or 1 session and 1 terminal with 2 commands, 2 files, one of them untracked, 2 edits, 2 checks | locks verify; `start` replaces only newer locks; what is shown is true; no edit is lost |
| `first_bad` | a check, its user, a baseline and 1 exporter; a check, other programs and 2 exporters; a targeted check while facts are learnt; a scan of 1 or 2 edges, with its user, and 2 builds of each release | publication, receipts, targeting, packages that verify and are true, refinement |
| `github_pr` | 2 pushes, 3 runs, verdicts pass and incomplete | success is earned, one comment that does not go back, every context gets a status |
| `github_pr_stale` | 2 pushes, 2 runs | violated, see below |

Where two systems that do not interact share a run, a variable that never changes
(`execution`, `subject`, `use`, `actors`) says which of them a behaviour is about: the
state space is the sum of theirs and not the product. Nothing of a module is replaced;
each runs under its own next-state relation.

**Bounds.** Two canaries, one of each class, are the fewest with a priority and a
"nothing after the first skip"; the proofs of the same properties are for any number.
Two repetitions have all three outcomes that the policy tells apart, none, some and
all, and both orientations of a pair. Budgets 4 and 7 are the first that pays for one
canary and the last that does not pay for both; 3 tokens are spent within the first
canary. The second attempt of one pair may be late.
A second container name adds nothing: attempts of different names share no state but
the attempt counter; four attempts let each process meet a leftover of itself and one
of the other. Two attempts on the host let what one left behind run beside the other.
Three releases are needed for a downgrade (a baseline, a recorded
release, an older one in between), two baselines for a stale record; INCOMPLETE and
BLOCK stand for verdicts that are not, and are, recorded. Five releases give intervals
of up to four with unpublished gaps. Two checks are the fewest in which one conflicts
with another, two days the fewest with a rate boundary between. The scheduler's state
is finite as it is. Three commands allow a lock, its replacement, and a third that acts
on what it saw before either. Two edits are as many unstable cycles as the watch
tolerates, two files are the fewest whose stamps may be of different moments. Two
exporters and one other program are the fewest that can get in each other's rollback;
three releases give two edges that must meet, two builds a release that changes under
them. Two context keys with two values make requirements that
match, contradict, or wait for a fact. Two pushes make a head that moves, three runs
one that is overtaken and one that reopens.

**Fairness.** The executor is checked without: that a loop over a suite ends is no
question. The scan has weak fairness of its one process, whose waits all have timeouts. `DockerBackend` has weak fairness
of each worker's own steps, since `_run` puts a timeout on every docker command, and
none of the agent's: it may hang. `ReleaseMonitor` adds that the scheduler keeps
starting monitors, and strong fairness of three things that may fail but not for ever:
the registry's answer, a check with a verdict, the save; this is of the scheduled
monitor alone, the manual one may be stopped anywhere. The watch has weak fairness of
its own steps: Git and the protections run under timeouts, and sleep returns; nobody
has to edit, or to stop. `FairPrSpec` says only that while some job has a step to take,
some job takes one. Crash, Ctrl-C and the user's actions are never fair.

**Violations.** Four statements of the repository's documents are not what the code does.

* `export_reordered`: "A completed qualification created with current QuaLock tooling
  can be exported" (README.md:150). The sidecar lists canaries by id, the verifier
  wants the order in which they ran; a run takes them in the order of their files, or
  critical ones first under an attempt budget. Where those orders differ, the export is
  refused. In the order of ids it never is: that is `CompanionAccepted`.
* `release_monitor_downgrade`: "QuaLock must not run a downgrade qualification". The
  monitor compares the latest release with the lock it read first; `execute_check`
  reads the lock again. A `qualock baseline` in between makes it a downgrade.
* `scheduler_drift`: "native drift never reports ENABLED". An `enable` that replaces a
  schedule and is cut short between writing the unit files and daemon-reload leaves
  files and registration that agree with each other and a timer that runs by the old
  definition; `inspect` has no way to see it, so `status` says ENABLED and a second
  `enable` changes nothing. Without the interruption, and without a rollback that
  warned of its failure, ENABLED is true: that is `EnabledIsTrue` of the run `scheduler`.
* `github_pr_stale`: superseded runs "must never update the sticky comment after the PR
  head has changed". The head is read once, before the comments are listed and written;
  a push in between leaves the older report in the comment, until the newer run's
  reporter writes its own.

Three remarks that no run asks about. On Windows, a task disabled by hand is ENABLED to
`status`, since `inspect` does not read that (`DisabledByHand` excepts it). A pricing
sidecar whose clock went back is written as `invalid_capture_time`, which its readers
refuse. Runs of Codex and Gemini never get a price, since their cache writes are not
observed.

## 5. What is proved

`QualificationProofs` holds for every suite, repetition count and budget, from
`SuiteAssumption`, `BudgetAssumption` and `NoneAssumption` of `Qualification`; of the
bundle, from `ResultsAssumption` of `EvidenceBundle` too; of the companion and its claims,
from `IdAssumption` and `ControlAssumption` of `PairedChange` as well.

* `Inductive`: `IInv` is `TypeOK` with three parts. `RunInv`: while a canary is run it
  is the next one in order, nothing has been skipped, its attempts still fit, and the
  tally of each side is bounded by the slots that side has had. `VisitInv`: visited
  canaries are a prefix of the order, measured ones before skipped ones, and the
  reason for the first skip still stands. `BudgetInv`: where the attempts went,
  `attempts_used + remaining_attempts = max_attempts + slot`.
* `TypeCorrect` and `BudgetRespected` need all of it: `attempts_used` is compared with
  the budget nowhere in the code, so the bound follows only from `BudgetInv` together
  with the fact, in `RunInv`, that a canary starts when all its attempts fit.
* `CriticalCanariesFirst` follows from the prefix property and the order.
* `TokenBudgetHolds` adds `UsageInv` to it: the running total is the sum of the tokens of
  the canaries measured so far and of those of the canary under way, or unknown as soon
  as one of them is; and `ClosedInv`: a canary that was started found that sum below the
  budget. The sums are over finite sets of canaries.
* `VerdictHolds` adds `ResultInv`: at the end every canary is measured or skipped, a
  skipped one has no attempts, and the result is the policy over all of them.
* `BundlesVerify`, for runs of any length: the bundle derived from the attempts alone
  is accepted by the verifier and agrees with the running totals. Its invariant, `EInv`,
  ties the two together at every step. The trace is as long as the counter and its
  tokens are the ones observed (`TraceInv`); what was recorded of each canary is what its
  attempts show, no two of which fill the same slot (`RecordInv`); the canaries' lengths
  and tokens add up to those of the whole trace (`PartsInv`); the reason for a skip still
  stands, as nothing runs after it (`ReasonInv`); and the result judges every canary by
  its attempts (`JudgedInv`). Each list that an attempt joins grows by one place, and
  every count and sum over it accordingly.
* `CompanionsAccepted` and `ClaimsFollowVerdicts`: the companion is accepted beside its
  bundle, and its claims say what the verdicts allow. The hard part is that the order of
  the sidecar, which is derived from ids and repetitions, is the order in which the
  attempts ran. For that `LayoutInv` says of every step that canaries come in the order of
  their ids (`OrderInv`), that the attempts of one canary are consecutive and fill their
  slots in turn (`Block`, `BlockInv`), and that all of an earlier canary is there before a
  later one begins (`VisitedInOrder`); so each place of the trace has as many places
  written before it as it has in front of it (`WrittenAsRun`), and its rank is its place.
  The claim of a measured canary is found condition by condition (`MeasuredClaim`): slots
  are filled once, so pairs are complete; instances differ; and the gates that remain are
  those of the evidence that the verdict was taken from.
* `ExecutorKeepsPromise`: initial states map to initial states, skipping, finishing and
  returning map to the three actions of `QualificationSpec`, all else to stuttering.

`DockerBackendProofs` holds for every number of processes, names and attempts.

* `HeldInductive`: from create until the container is removed, the container of that
  name is the attempt's own (`HeldInv`), attempts are never shared (`AttemptInv`), and
  what was frozen is what the container held (`FrozenInv`). The name is a lock that
  nobody wrote: it works because `docker create` refuses a name that is taken.
* `AttemptsJudgedOnOwnState` and `ValidAttemptsFinished` are consequences. So is
  `ContainersKept`, step by step: who removes a container holds its name, so the container
  is that attempt's, and the same step ends it.

The same module proves of `HostBackend`, for every number of attempts, who can change
what is judged; `HostAssumption` of `MCDockerBackend`, which composes the two, says that
the markers are not among the values they are told from. `SandboxesHold`: only an
attempt's own processes write to its workspace, and what it holds once the agent exited is
the agent's work or what those made of it (`HostSandboxes`); and the attempt under way has
the exit code of its own agent and, once `run_process_tree` returned, no attached process:
a detached one can start none, so from then on only detached ones write
(`HostUnderWay`). `HostAttemptsJudged` follows.

`ReleaseMonitorProofs` holds for every number of monitors, releases and baselines, from
`MonitorAssumption` and `MarkersAssumption`. `SeenInOrder` rests on the numbers of the
locks: what a monitor holds was read in the order in which it was written (`Holding`),
and every record carries a qualification against the lock it names or a later one
(`Records`). So a record that names the newest lock was measured against it
(`ReusedIsEarned`), and a monitor can put an older release in place of a newer one only
if it had found less recorded (`RegressesOnlyByOverlap`).

`FirstBadProofs` holds for every number of exporters, other programs, edits, facts and
releases, from `DirectoriesAssumption`, `SuitesAssumption` (a suite declares finitely much
coverage, of numbered sources), `SignalsAssumption` and `ReleasesAssumption`.

* `EvidenceInvariant`: the artifacts before the one being written are whole and those
  after it absent (`FilesInv`, `RunInv`); a lock that has not been replaced is of the
  project that the run had read (`LockInv`), so that an exporter which compared
  identities has the run's own (`EvidenceInv`); directories have different names, and a
  bundle is elsewhere only in the hand of a rollback (`PlaceInv`, `StepInv`), unless
  other programs took part (`QuietInv`).
* `ReceiptsVouch`, `EvidenceIsTheRun`, `NothingIsReplaced` and `OneExportAtTheDestination`
  are consequences. The last shows why the rollback is safe without a lock: the bundle it
  takes is its own or is given back, as the rename refuses a name that is taken.
* `ScanInvariant`: each edge starts at the identity at which the edge before it ended and
  under the frozen inputs (`EdgesInv`), the loop stops at the first edge that is not clean
  (`LoopInv`), and the package is made of these (`PackageInv`); hence `PackagesVerify` and
  `ClaimsAreJustified`. `ScansLeaveExports`: a behaviour with a scan in it is a behaviour
  of the other commands, so the first group of theorems holds beside a scan too.
* `TargetedRunsSuffice`: what is known of a target only grows, so requirements that match
  go on matching and those that contradict it never match again; with this, the plan that
  a run was selected by stays a cover of every impact that can still turn out to apply
  (`TargetInv`).
* `ScanKeepsItsPromise`, the refinement: checking an edge, and ending the prefix at a
  baseline, are `Judge`; a receipt that says "no bad" is `Conclude`; every other step is a
  stutter. It needs two facts more than the package's truth (`PromiseInv`): no package is
  there while edges are judged, and a prefix that ended early is clean and short, so that
  no receipt of it concludes.

`GithubPrProofs` holds for every number of pushes and runs, from the assumptions of
`GithubPr`. `RunsAreHonest`: what a run would report of its commit is earned or is no
success, and the lock it checks is that of its commit (`RunsInv`); a commit with a
success has earned it (`StatusInv`); and unless two reporters raced, the one between its
look at the head and its write knows of every comment, and reports no earlier commit
(`CommentInv`). From these, `SuccessesAreEarned`, `StickyCommentIsOne`, `CommentStays`.

`VersionBisectProofs` holds for every number of releases, from `BisectAssumption` and
`NoneAssumption`. `Invariant`: the variables of the scan always tell the truth of the
sorted interval, and the summary is what they were at the last save (`OnDisk`,
`InMemory`); between a check and its save they are one verdict ahead (`AVerdictAhead`),
and before the last save one conclusion (`TheConclusionAhead`). `ClaimsHold` needs that
the sorted interval holds every release of the interval once and in order, which is shown
by counting; `PromiseKept` maps each save to `Judge` or `Conclude`.

The same module proves `EstimatesHonest` of `Pricing`, for every history, rate catalog,
configuration and suite, from `CatalogsAssumption`, `ResultsAssumption` (finitely many
executions of different canaries, whose attempts have a usage or none), `SuitesAssumption`
and `NothingAssumption`. The inductive invariant is about files (`HistoryInv`): a sidecar
that is neither absent nor damaged is what `BuildPayload` made of the report beside it and
of some valid catalog, whichever programs have come since. The rest is what `cost` can
conclude from that alone. A price is by the one card in effect at both ends of the check
(`PricedByCard`); all prices of a cohort are by the same card, since records that know its
id by other rates were set aside (`OneCard`); a Claude run with a price named one model at
most (`ClaudeNamesOneModel`); the trust looked up for an attempt is its own, because in a
usable pairing identities differ (`TrustIsOwn`), and trusted counts were shown by its stream
(`TrustedIsShown`). Lower bounds are below upper ones through every product, sum and median:
a sum over a finite set grows with its terms (`SumsGrow`), and so does each place of the
sorted values, though the two bounds are sorted each for themselves (`PlacesGrow`).

`SchedulerProofs` holds for every set of times and commands, from `PlatformsAssumption`
and `MarkersAssumption`. `Invariant` has a part for each platform, as each has its own
reason. `SystemdHolds`: the timer's file goes last and only after the timer was stopped,
so where it is absent nothing is armed, and only a command that was cut short or that
warned leaves a timer armed by what the files do not hold. `LaunchdHolds`: a service is
booted out before its plist changes. `WindowsHolds`: the task is replaced in one step.
`EnabledHolds`, `DisabledHolds` and `RolledBackHolds` follow.

`ProjectWatchProofs` holds, for its first part, for every number of terminals and
commands, from `ProtectionAssumption` alone.

* `OneKey`, the inductive invariant: `KeyInv` says that the key a session holds is the
  one on disk and that at most one session is writing it, during which nobody holds one
  (this is `O_EXCL`); `LockInv`, that a complete lock is signed under it; `StartInv`,
  that a lock which is there after `start` has looked has a higher number.
* `LocksVerify` and `StartKeepsWhatItSaw` are the run's two properties. For the second,
  each step is shown to satisfy the action property under the invariant.

Its second part holds for every number of terminals, commands, files, edits and checks,
from `WatchAssumption` too. `WhatIsShownIsTrue` rests on two monotonic counters.
`NumberInv`: locks are numbered upwards, so the lock that `verify` read lies between the
frozen one and the one found afterwards, which are the same. `TreeInv`: as long as a path
has the stamp of the snapshot before the checks, every check has seen it so; an edit gives
it a stamp it never had, so finding the old one again proves that there was no edit.

Recursion over sequences (selecting, flattening, sorting, folding) is beyond the prover:
it would be an induction with the operator's own argument in it, which the prover cannot
instantiate. Induction over finite sets and natural numbers is within its reach, once
stated for a set (`FiniteInduction`). So lists that are reasoned about are functions from
places, sorted lists are ranks, and sums are over finite sets of places.

Only model-checked:

* the liveness properties (`AttemptsEnd`, `EventuallyQualified`,
  `EndsWithClaim`, `EventuallyCurrent`, `ContextGetsStatus`), which are beyond the prover;
* of `ProjectProtection` and `ProjectWatch`, the numbers of locks and commands in the type
  invariants: their bound is a count over sessions, and nothing rests on it.

## 6. What is left out

Parts that are not modelled:

* The scheduler's runner (`scheduler/runner.py`): a sequence of comparisons without state
  of its own; the monitor it starts is `ReleaseMonitor`. Two schedule commands at a time:
  they share no lock, and no property holds of them.
* The git source cache (`source/git.py`): what matters is what `git clone` leaves when it
  is cut short, which is not in this code.
* The stability runs of `qualock baseline`: a qualification of the baseline against
  itself; what other processes see of it, the lock, is in `ReleaseMonitor` and
  `EvidenceExport`.
* Agents' resolvers, configuration, canaries and project files, history, reports and the
  command line: input and output, parsing, rendering. Fingerprints of the suite appear as
  freshness and identities.
* Closed parsing of bundles, companions, packages and reports (`evidence/bundle_io.py`,
  the `io.py` of both protocols, `github_pr/report.py`): grammars without state.

Digests, argument lists, mounts, credentials, rendered text and agents' event streams,
beyond what `Pricing` reads of them, are data the properties above do not tell apart. A
check inside `ReleaseMonitor`, `VersionBisect`, `FirstBad` and `GithubPr` is its outcome;
inside `EvidenceExport` it is one step. `prepare` (building the canary's image) is a step
that succeeds or raises. The watch's exit codes and events, and an edit that keeps a
file's size and mtime, are not in `ProjectWatch`; an empty or mixed file is one that does
not parse. The README's promise that setup removes an older lock it cannot replace does
not hold when setup is interrupted, which `ProjectProtection` has as `Interrupt` and no
run asks about. Locks restored byte for byte by other tools are not in `ReleaseMonitor`.
