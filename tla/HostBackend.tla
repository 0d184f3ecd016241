------------------------------ MODULE HostBackend ------------------------------
(***************************************************************************)
(* One attempt without a container: LinuxHostQualificationBackend (run/    *)
(* host_backend.py) over LinuxHostRunner (run/host.py), for Antigravity.   *)
(*                                                                         *)
(* Nothing is frozen here: the agent works in a directory of the host,     *)
(* which is then inspected and copied for the grader, live.  The sandbox   *)
(* has a PID namespace of its own, whose first process is bubblewrap's and *)
(* stays until the last of its children ended: bwrap returns when the      *)
(* agent exits, and what the agent left in the background lives on.  Only  *)
(* at a timeout is the whole tree killed.  run_process_tree reads the      *)
(* agent's output to its end, so a background process that holds it open   *)
(* is waited for.  One that does not is called detached, and may run       *)
(* beside the inspection and the grader: that bubblewrap's first process   *)
(* may keep the output open on its behalf is not relied on.  Ctrl-C ends   *)
(* the qualification process and not the agent, which is in a session of   *)
(* its own.                                                                *)
(***************************************************************************)
EXTENDS Naturals

CONSTANTS MaxAttempts,  \* bound on the attempts
          Running,      \* an agent that has not exited
          None

Attempt == 1..MaxAttempts

(* Stands for what the setup commands left in the background, where a      *)
(* writer is named.                                                        *)
Setup == 0

(* What a directory holds: who wrote to it, and how far the last agent     *)
(* got; "late" and "later" are contents it was given after the agent       *)
(* exited.                                                                 *)
Content == [writers : SUBSET (Attempt \cup {Setup}),
            progress : {"untouched", "partial", "final", "late", "later"}]

Fresh == [writers |-> {}, progress |-> "untouched"]

(* A background process holds the agent's output open, or not.             *)
Kinds == {"attached", "detached"}

VARIABLES
  source,      \* the prepared directory of the canary, or None
  workspaces,  \* attempt -> what its workspace holds, or None
  agents,      \* attempt -> its agent: Running, the code it exited with, or
               \* None, not started or killed
  background,  \* attempt -> kind -> its processes in the background: "none"
               \* was started, one "runs", or all have "ended"
  next,        \* the number of the next attempt
  frame        \* where the qualification process is (at), its attempt, the
               \* exit_code, what it inspected and graded, and its outcome

tree == <<agents, background>>
vars == <<source, workspaces, tree, next, frame>>

Idle == [at |-> "idle", attempt |-> None, exit_code |-> None,
         inspected |-> None, graded |-> None, outcome |-> None]

Init ==
  /\ source = None /\ next = 1 /\ frame = Idle
  /\ workspaces = [a \in Attempt |-> None]
  /\ agents = [a \in Attempt |-> None]
  /\ background = [a \in Attempt |-> [k \in Kinds |-> "none"]]

At(point) == frame.at = point
Goto(point) == frame' = [frame EXCEPT !.at = point]
Leave(outcome) == frame' = [frame EXCEPT !.at = "finally", !.outcome = outcome]

Own == workspaces[frame.attempt]

-----------------------------------------------------------------------------
(* prepare: the base commit, and the setup commands run in it, in no       *)
(* sandbox.  What fails leaves no directory.                               *)
Prepare ==
  /\ At("idle") /\ source = None
  /\ source' = Fresh
  /\ UNCHANGED <<workspaces, tree, next, frame>>

(* A directory of its own for the attempt, and the prepared one copied     *)
(* into it; a copy that fails ends the attempt, and the qualification.     *)
CopyWorkspace ==
  /\ At("idle") /\ source # None /\ next \in Attempt
  /\ next' = next + 1
  /\ workspaces' = [workspaces EXCEPT ![next] = source]
  /\ \E point \in {"launch", "finally"} :
       frame' = [Idle EXCEPT !.at = point, !.attempt = next,
                             !.outcome = IF point = "finally" THEN "raised" ELSE None]
  /\ UNCHANGED <<source, tree>>

(* What fails here makes the attempt invalid.                              *)
LaunchAgent ==
  /\ At("launch")
  /\ \/ agents' = [agents EXCEPT ![frame.attempt] = Running] /\ Goto("agent")
     \/ Leave("invalid") /\ UNCHANGED agents
  /\ UNCHANGED <<source, workspaces, background, next>>

Runs(a, kind) == background[a][kind] = "runs"

(* Defect: the exit is waited for, and the output not read to its end.     *)
AgentReturnsAtExit ==
  /\ At("agent") /\ agents[frame.attempt] # Running
  /\ frame' = [frame EXCEPT !.at = "parse", !.exit_code = agents[frame.attempt]]
  /\ UNCHANGED <<source, workspaces, tree, next>>

(* communicate: bwrap has returned, and the output is at its end.          *)
AgentReturns ==
  /\ At("agent")
  /\ agents[frame.attempt] # Running /\ ~Runs(frame.attempt, "attached")
  /\ frame' = [frame EXCEPT !.at = "parse", !.exit_code = agents[frame.attempt]]
  /\ UNCHANGED <<source, workspaces, tree, next>>

(* killpg ends the first process of the namespace, and with it all.        *)
KillTree(a) ==
  /\ agents' = [agents EXCEPT ![a] = None]
  /\ background' = [background EXCEPT ![a] =
       [k \in Kinds |-> IF Runs(a, k) THEN "ended" ELSE @[k]]]

(* timeout_seconds are over, and the agent still runs, or something that   *)
(* has its output open.                                                    *)
AgentTimesOut ==
  /\ At("agent")
  /\ agents[frame.attempt] = Running \/ Runs(frame.attempt, "attached")
  /\ KillTree(frame.attempt)
  /\ frame' = [frame EXCEPT !.at = "parse", !.exit_code = None]
  /\ UNCHANGED <<source, workspaces, next>>

ParseEvidence ==
  /\ At("parse")
  /\ Leave("invalid") \/ Goto("inspect")
  /\ UNCHANGED <<source, workspaces, tree, next>>

(* A reason not to count the attempt, as in DockerBackend.                 *)
Rejected(observed) == observed \/ frame.exit_code # 0

(* inspect_agent_state, with a copy of .git that the agent has not         *)
(* configured; a git command that fails makes the attempt invalid, and     *)
(* what else fails raises.                                                 *)
InspectState ==
  /\ At("inspect")
  /\ \/ Leave("raised")
     \/ Leave("invalid")
     \/ \E observed \in BOOLEAN :
          \/ Rejected(observed) /\ Leave("invalid")
          \/ /\ ~Rejected(observed)
             /\ frame' = [frame EXCEPT !.at = "grade", !.inspected = Own]
  /\ UNCHANGED <<source, workspaces, tree, next>>

(* run_grader copies the workspace again, applies the patch and runs the   *)
(* commands there.  A symbolic link that leads out of the copy makes the   *)
(* attempt invalid.                                                        *)
Grade ==
  /\ At("grade")
  /\ \/ Leave("raised") \/ Leave("invalid")
     \/ \E outcome \in {"success", "failure"} :
          frame' = [frame EXCEPT !.at = "finally", !.graded = Own, !.outcome = outcome]
  /\ UNCHANGED <<source, workspaces, tree, next>>

(* Ctrl-C.  run_process_tree kills the tree at a timeout only.             *)
Interrupt ==
  /\ frame.at \in {"launch", "agent", "parse", "inspect", "grade"}
  /\ Leave("raised")
  /\ UNCHANGED <<source, workspaces, tree, next>>

(* finally: rmtree, whose failure nobody looks at.  After an exception the *)
(* qualification is over; the next one prepares a directory of its own.    *)
RemoveRoot ==
  /\ At("finally")
  /\ workspaces' \in {workspaces, [workspaces EXCEPT ![frame.attempt] = None]}
  /\ source' = IF frame.outcome = "raised" THEN None ELSE source
  /\ frame' = Idle
  /\ UNCHANGED <<tree, next>>

-----------------------------------------------------------------------------
(* The agent and what it leaves in the background, which can write to      *)
(* their own workspace only, all else is mounted read-only; what the setup *)
(* commands left; and SIGKILL.                                             *)

AgentWrites(a) ==
  /\ agents[a] = Running /\ workspaces[a] # None
  /\ workspaces' = [workspaces EXCEPT
       ![a] = [writers |-> @.writers \cup {a}, progress |-> "partial"]]
  /\ UNCHANGED <<source, tree, next, frame>>

(* Whoever has the output open can hand it on, or not.                     *)
Forks(a) ==
  /\ agents[a] = Running \/ Runs(a, "attached")
  /\ \E kind \in Kinds : background' = [background EXCEPT ![a][kind] = "runs"]
  /\ UNCHANGED <<source, workspaces, agents, next, frame>>

AgentExits(a) ==
  /\ agents[a] = Running
  /\ \E code \in {0, 1} : agents' = [agents EXCEPT ![a] = code]
  /\ workspaces' = [workspaces EXCEPT ![a] =
       IF @ = None THEN None ELSE [@ EXCEPT !.progress = "final"]]
  /\ UNCHANGED <<source, background, next, frame>>

BackgroundWrites(a) ==
  /\ \E kind \in Kinds : Runs(a, kind)
  /\ workspaces[a] # None
  /\ \E progress \in IF agents[a] = Running THEN {"partial"} ELSE {"late", "later"} :
       workspaces' = [workspaces EXCEPT
         ![a] = [writers |-> @.writers \cup {a}, progress |-> progress]]
  /\ UNCHANGED <<source, tree, next, frame>>

BackgroundEnds(a) ==
  /\ \E kind \in Kinds :
       Runs(a, kind) /\ background' = [background EXCEPT ![a][kind] = "ended"]
  /\ UNCHANGED <<source, workspaces, agents, next, frame>>

SetupWrites ==
  /\ source # None
  /\ source' = [source EXCEPT !.writers = @ \cup {Setup}]
  /\ UNCHANGED <<workspaces, tree, next, frame>>

Die ==
  /\ ~At("idle")
  /\ frame' = Idle /\ source' = None
  /\ UNCHANGED <<workspaces, tree, next>>

Next ==
  \/ Prepare \/ CopyWorkspace \/ LaunchAgent \/ AgentReturns \/ AgentTimesOut
  \/ ParseEvidence \/ InspectState \/ Grade \/ Interrupt \/ RemoveRoot \/ Die
  \/ SetupWrites
  \/ \E a \in Attempt :
       AgentWrites(a) \/ Forks(a) \/ AgentExits(a) \/ BackgroundWrites(a) \/ BackgroundEnds(a)

Spec == Init /\ [][Next]_vars

-----------------------------------------------------------------------------
(* Properties.                                                             *)

(* A valid attempt was inspected and graded on what its own agent, on a    *)
(* copy of its own, had left when it exited with 0, or on what its         *)
(* background processes made of that.  Both read the live directory, and   *)
(* what was graded can differ from what was inspected for protected paths  *)
(* only if the agent left a detached process: one that has its output open *)
(* is waited for or killed, and those of a timed-out or an interrupted     *)
(* attempt cannot reach another workspace (host_backend.py:189-293,        *)
(* host.py:79-104, 131-144, process.py:76-85).                             *)
ChangedOnlyByDetached ==
  frame.outcome \in {"success", "failure"} =>
    /\ agents[frame.attempt] = 0
    /\ \A judged \in {frame.inspected, frame.graded} :
         /\ judged.progress \in {"final", "late", "later"}
         /\ judged.writers \subseteq {frame.attempt, Setup}
    /\ frame.graded # frame.inspected => background[frame.attempt]["detached"] # "none"
=============================================================================
