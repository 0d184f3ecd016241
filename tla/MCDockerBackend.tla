--------------------------- MODULE MCDockerBackend ---------------------------
(* Attempts of two kinds: two qualification processes on one Docker        *)
(* daemon, with attempts of the same name; and one that runs its attempts  *)
(* on the host.                                                            *)
EXTENDS DockerBackend

CONSTANTS HostAttempts, Running

VARIABLES execution, source, workspaces, agents, background, nextHost, hostFrame

Host == INSTANCE HostBackend WITH
  MaxAttempts <- HostAttempts, next <- nextHost, frame <- hostFrame

(* A running process is no exit code, and what the markers stand for is no *)
(* attempt, directory or outcome.                                          *)
ASSUME HostAssumption ==
  /\ HostAttempts \in Nat /\ Running \notin {None, 0, 1}
  /\ None \notin Host!Attempt \cup Host!Content
  /\ None \notin {0, 1, "success", "failure", "invalid", "raised"}

hostVars == <<source, workspaces, agents, background, nextHost, hostFrame>>

MCVars == <<vars, execution, hostVars>>

MCInit == Init /\ Host!Init /\ execution \in {"docker", "linux-host"}

MCNext ==
  /\ \/ execution = "docker" /\ Next /\ UNCHANGED hostVars
     \/ execution = "linux-host" /\ Host!Next /\ UNCHANGED vars
  /\ UNCHANGED execution

MCSpec ==
  /\ MCInit /\ [][MCNext]_MCVars
  /\ \A w \in Workers : WF_MCVars(Step(w) /\ UNCHANGED <<execution, hostVars>>)

(* An attempt on the host is judged on its own agent's work, which only a  *)
(* detached process can change meanwhile: see HostBackend (host_backend.py: *)
(* 189-293).                                                               *)
ChangedOnlyByDetached == Host!ChangedOnlyByDetached
=============================================================================
