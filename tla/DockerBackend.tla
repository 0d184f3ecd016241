---------------------------- MODULE DockerBackend ----------------------------
(***************************************************************************)
(* One attempt in a container: DockerQualificationBackend._run_attempt_    *)
(* result (run/backend.py) over DockerCanaryRunner (run/docker.py).        *)
(*                                                                         *)
(* Each worker is a qualification process (a check, a scheduled monitor, a *)
(* bisect), runs its attempts one after the other, and shares one Docker   *)
(* daemon with the others.  A container is named after the canary, the     *)
(* side, the repetition and the agent version, and a frozen image is       *)
(* tagged after the container, so two processes, or a process and its      *)
(* earlier failed self, use the same names.  Every docker command may      *)
(* fail, and may time out after the daemon did what it was asked.          *)
(*                                                                         *)
(* The contents of a container are told apart by whose attempt they are    *)
(* and how far its agent got; argv, mounts and credentials are left out.   *)
(***************************************************************************)
EXTENDS Naturals

CONSTANTS Workers,      \* qualification processes
          Names,        \* container names
          MaxAttempts,  \* bound on the attempts of all workers
          None

ASSUME AttemptAssumption == MaxAttempts \in Nat \ {0}

Attempt == 1..MaxAttempts

(* How far the agent got in the work a container or an image holds.        *)
Progress == {"untouched", "partial", "final"}

Container == [attempt : Attempt, status : {"created", "running", "exited"},
              content : Progress, code : {0, 1}]

Image == [attempt : Attempt, content : Progress]

(* An AttemptResult that is not valid, or valid with success False or True. *)
AttemptResult == {"invalid", "failure", "success"}

(* None is no value of its own kind.                                       *)
ASSUME NoneAssumption ==
  /\ None \notin Container \cup Image \cup Attempt \cup {0, 1}
  /\ None \notin AttemptResult \cup {"raised"}

(* Where a worker is: between attempts, in run_agent, in the try           *)
(* statement that judges the frozen state, in its finally clause.          *)
InRunAgent == {"create", "start", "attached", "commit", "inspect_image"}
InTry == {"parse", "inspect_state", "grade"}
Points == {"idle"} \cup InRunAgent \cup InTry \cup {"finally"}

VARIABLES
  containers,  \* the daemon's containers, by name
  images,      \* its frozen images, by the container name they are tagged after
  next,        \* the number of the next attempt
  frame        \* what each worker holds: where it is (at), its attempt, the
               \* container_name, state.exit_code (None after a timeout),
               \* state.digest, and the outcome it leaves the try with

daemon == <<containers, images>>
vars == <<daemon, next, frame>>

Idle == [at |-> "idle", attempt |-> None, name |-> None, exit_code |-> None,
         digest |-> None, outcome |-> None]

Init ==
  /\ containers = [n \in Names |-> None] /\ images = [n \in Names |-> None]
  /\ next = 1
  /\ frame = [w \in Workers |-> Idle]

At(w, point) == frame[w].at = point

Goto(w, point) == frame' = [frame EXCEPT ![w].at = point]

(* A worker is in the attempt.                                             *)
InProgress(a) == \E w \in Workers : frame[w].attempt = a

(* The call is over, and with it what it held.                             *)
End(w) == frame' = [frame EXCEPT ![w] = Idle]

(* An exception out of run_agent, which is called before the try           *)
(* statement: the container, if there is one, stays.                       *)
Raise(w) == End(w)

(* Leaving the try statement, with a result or an exception.               *)
Leave(w, outcome) ==
  frame' = [frame EXCEPT ![w].at = "finally", ![w].outcome = outcome]

-----------------------------------------------------------------------------
(* run_agent: create, start, commit, inspect.                              *)

RunAttempt(w, n) ==
  /\ At(w, "idle") /\ next \in Attempt
  /\ next' = next + 1
  /\ frame' = [frame EXCEPT ![w] = [Idle EXCEPT !.at = "create", !.attempt = next, !.name = n]]
  /\ UNCHANGED daemon

Own(w) == containers[frame[w].name]

Exists(w) == Own(w) # None

CreateOwn(w) ==
  containers' = [containers EXCEPT ![frame[w].name] =
    [attempt |-> frame[w].attempt, status |-> "created", content |-> "untouched", code |-> 0]]

(* Defect: a leftover of the same name is replaced, with no way to tell it *)
(* from the container of another process.                                  *)
CreateReplacing(w) ==
  /\ At(w, "create")
  /\ CreateOwn(w)
  /\ Goto(w, "start")
  /\ UNCHANGED <<images, next>>

(* Defect: run_agent inside the try statement, so that the finally removes *)
(* what a failed create left, whoever's it is.                             *)
CreateInTry(w) ==
  /\ At(w, "create")
  /\ \/ ~Exists(w) /\ CreateOwn(w) /\ (Goto(w, "start") \/ Leave(w, "raised"))
     \/ Leave(w, "raised") /\ UNCHANGED containers
  /\ UNCHANGED <<images, next>>

(* docker create fails when the name is taken, and may fail or time out    *)
(* otherwise, in the last case with the container made.                    *)
Create(w) ==
  /\ At(w, "create")
  /\ \/ ~Exists(w) /\ CreateOwn(w) /\ (Goto(w, "start") \/ Raise(w))
     \/ Raise(w) /\ UNCHANGED containers
  /\ UNCHANGED <<images, next>>

(* The docker client's exit code, None if it was killed at the timeout.    *)
Started(w, exit_code) ==
  frame' = [frame EXCEPT ![w].at = "commit", ![w].exit_code = exit_code]

(* docker start --attach: the daemon starts the container, or refuses and  *)
(* the client returns an error code, which is judged like the agent's.     *)
Start(w) ==
  /\ At(w, "start")
  /\ \/ /\ Exists(w)
        /\ containers' = [containers EXCEPT ![frame[w].name].status = "running"]
        /\ Goto(w, "attached")
     \/ Started(w, 1) /\ UNCHANGED containers
  /\ UNCHANGED <<images, next>>

ClientReturns(w) ==
  /\ At(w, "attached") /\ Exists(w) /\ Own(w).status = "exited"
  /\ Started(w, Own(w).code)
  /\ UNCHANGED <<daemon, next>>

(* Defect: the attached client is waited for without a timeout.            *)
ClientWaits(w) ==
  /\ At(w, "attached")
  /\ UNCHANGED vars

(* timeout_seconds are over: run_process kills the docker client; the      *)
(* container keeps running.                                                *)
ClientTimesOut(w) ==
  /\ At(w, "attached")
  /\ Started(w, None)
  /\ UNCHANGED <<daemon, next>>

(* docker commit freezes what the container holds, finished or not.        *)
Commit(w) ==
  /\ At(w, "commit")
  /\ \/ /\ Exists(w)
        /\ images' = [images EXCEPT ![frame[w].name] =
             [attempt |-> Own(w).attempt, content |-> Own(w).content]]
        /\ Goto(w, "inspect_image") \/ Raise(w)
     \/ Raise(w) /\ UNCHANGED images
  /\ UNCHANGED <<containers, next>>

(* The digest now behind the tag is what the attempt is judged on.         *)
InspectImage(w) ==
  /\ At(w, "inspect_image")
  /\ \/ frame' = [frame EXCEPT ![w].at = "parse", ![w].digest = images[frame[w].name]]
     \/ Raise(w)
  /\ UNCHANGED <<daemon, next>>

-----------------------------------------------------------------------------
(* Judging the frozen state.                                               *)

(* The agent's output is readable, or the attempt is invalid.              *)
ParseEvidence(w) ==
  /\ At(w, "parse")
  /\ Leave(w, "invalid") \/ Goto(w, "inspect_state")
  /\ UNCHANGED <<daemon, next>>

(* Defect: `if state.exit_code:', which a timeout (None) passes.           *)
RejectedUnlessTimedOut(w, observed) == observed \/ frame[w].exit_code \notin {None, 0}

(* A reason not to count the attempt: what its evidence and its changed    *)
(* paths showed (observed), or how its agent ended.                        *)
Rejected(w, observed) == observed \/ frame[w].exit_code # 0

(* inspect_agent_state runs the frozen image, and may raise.               *)
InspectState(w) ==
  /\ At(w, "inspect_state")
  /\ \/ Leave(w, "raised")
     \/ \E observed \in BOOLEAN :
          \/ Rejected(w, observed) /\ Leave(w, "invalid")
          \/ ~Rejected(w, observed) /\ Goto(w, "grade")
  /\ UNCHANGED <<daemon, next>>

(* A grader that times out fails the agent; the attempt stays valid.       *)
Grade(w) ==
  /\ At(w, "grade")
  /\ Leave(w, "success") \/ Leave(w, "failure")
  /\ UNCHANGED <<daemon, next>>

(* Ctrl-C while judging; an interrupt in run_agent is Raise.               *)
Interrupt(w) ==
  /\ frame[w].at \in InTry
  /\ Leave(w, "raised")
  /\ UNCHANGED <<daemon, next>>

(* finally: docker rm --force, whose failure nobody looks at.              *)
RemoveContainer(w) ==
  /\ At(w, "finally")
  /\ containers' \in {containers, [containers EXCEPT ![frame[w].name] = None]}
  /\ End(w)
  /\ UNCHANGED <<images, next>>

-----------------------------------------------------------------------------
(* The environment.                                                        *)

(* The process is killed; nothing of it runs any more.                     *)
Die(w) ==
  /\ ~At(w, "idle")
  /\ End(w)
  /\ UNCHANGED <<daemon, next>>

AgentWorks(n) ==
  /\ containers[n] # None /\ containers[n].status = "running"
  /\ containers[n].content = "untouched"
  /\ containers' = [containers EXCEPT ![n].content = "partial"]
  /\ UNCHANGED <<images, next, frame>>

AgentExits(n) ==
  /\ containers[n] # None /\ containers[n].status = "running"
  /\ \E c \in {0, 1} :
       containers' = [containers EXCEPT
         ![n] = [@ EXCEPT !.status = "exited", !.content = "final", !.code = c]]
  /\ UNCHANGED <<images, next, frame>>

(* The user removes, by hand, a container that an ended attempt left.      *)
CleanUp(n) ==
  /\ containers[n] # None /\ ~InProgress(containers[n].attempt)
  /\ containers' = [containers EXCEPT ![n] = None]
  /\ UNCHANGED <<images, next, frame>>

Step(w) ==
  \/ Create(w) \/ Start(w) \/ ClientReturns(w) \/ ClientTimesOut(w)
  \/ Commit(w) \/ InspectImage(w)
  \/ ParseEvidence(w) \/ InspectState(w) \/ Grade(w) \/ RemoveContainer(w)

Next ==
  \/ \E w \in Workers : Step(w) \/ Interrupt(w) \/ Die(w) \/ \E n \in Names : RunAttempt(w, n)
  \/ \E n \in Names : AgentWorks(n) \/ AgentExits(n) \/ CleanUp(n)

Spec == Init /\ [][Next]_vars

(* Every docker command runs under a timeout, so a worker that is inside   *)
(* an attempt goes on; the agent itself may hang for ever.                 *)
FairSpec == Spec /\ \A w \in Workers : WF_vars(Step(w))

-----------------------------------------------------------------------------
(* Properties.                                                             *)

Frame == [at : Points, attempt : Attempt \cup {None}, name : Names \cup {None},
          exit_code : {0, 1, None}, digest : Image \cup {None},
          outcome : AttemptResult \cup {"raised", None}]

TypeOK ==
  /\ containers \in [Names -> Container \cup {None}]
  /\ images \in [Names -> Image \cup {None}]
  /\ next \in 1..(MaxAttempts + 1)
  /\ frame \in [Workers -> Frame]
  /\ \A w \in Workers :
       /\ At(w, "idle") => frame[w] = Idle
       /\ frame[w].digest # None <=> frame[w].at \in InTry \cup {"finally"}
       /\ frame[w].outcome # None <=> At(w, "finally")

(* An attempt is judged on the state its own container was frozen in,      *)
(* although other processes use the same container name and the same image *)
(* tag, and earlier attempts may have left either behind: the name is the  *)
(* lock, held from create until after the digest is read (docker.py:280,   *)
(* 310-316, backend.py:303).                                               *)
JudgedOwnState ==
  \A w \in Workers :
    frame[w].digest # None => frame[w].digest.attempt = frame[w].attempt

(* A valid attempt, successful or not, was judged on the finished work of  *)
(* an agent that exited by itself: never on a container frozen while its   *)
(* timed-out agent was still writing, nor on one that never started        *)
(* (backend.py:259-301).                                                   *)
ValidMeansFinished ==
  \A w \in Workers :
    frame[w].outcome \in {"success", "failure"} => frame[w].digest.content = "final"

OwnedBy(n, a) == containers[n] # None /\ containers[n].attempt = a

(* The container of an attempt in progress is neither removed nor replaced *)
(* before the attempt is over: the docker rm of a finally, which knows the *)
(* name only, never meets the container of another process that uses the   *)
(* name, because an attempt whose create failed does not come to that      *)
(* finally (backend.py:224, 302; docker.py:280, 415).                      *)
KeepsItsContainer ==
  [][\A n \in Names, a \in Attempt :
       OwnedBy(n, a) /\ InProgress(a) => OwnedBy(n, a)' \/ ~InProgress(a)']_vars

(* Every attempt ends, even when its agent never does (process.py:37-41).  *)
AttemptsEnd == \A w \in Workers : At(w, "create") ~> At(w, "idle")
=============================================================================
