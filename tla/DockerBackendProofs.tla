------------------------- MODULE DockerBackendProofs -------------------------
(***************************************************************************)
(* Proofs about one attempt, for every number of processes, names and      *)
(* attempts.  In Docker, a container name is a lock, held from create to   *)
(* the digest, whatever other processes and failed attempts do.  On the    *)
(* host, where nothing is frozen, the directory judged can be changed by   *)
(* what the agent detached, and by nothing else.                           *)
(***************************************************************************)
EXTENDS MCDockerBackend, TLAPS

-----------------------------------------------------------------------------
(* Part one: an attempt in Docker (DockerBackend).                         *)

Busy(w) == ~At(w, "idle")

(* From docker create to docker rm, the name is the worker's.              *)
Holds(w) == frame[w].at \notin {"idle", "create"}

(* Attempts are numbered apart, and a container belongs to an attempt that *)
(* was started; while the attempt runs, under the name it runs with.       *)
AttemptInv ==
  /\ \A w \in Workers : Busy(w) =>
       /\ frame[w].attempt \in Attempt /\ frame[w].attempt < next
       /\ frame[w].name \in Names
  /\ \A v, w \in Workers :
       Busy(v) /\ Busy(w) /\ frame[v].attempt = frame[w].attempt => v = w
  /\ \A n \in Names : containers[n] # None => containers[n].attempt < next
  /\ \A w \in Workers, n \in Names :
       Busy(w) /\ containers[n] # None /\ containers[n].attempt = frame[w].attempt
         => Holds(w) /\ frame[w].name = n

(* The container under a held name is the holder's.                        *)
HeldInv ==
  \A w \in Workers : Holds(w) => Exists(w) /\ Own(w).attempt = frame[w].attempt

(* What a worker froze, and then judges, is the work its exit code speaks  *)
(* of.                                                                     *)
Frozen(w) ==
  /\ At(w, "commit") /\ frame[w].exit_code = 0 => Own(w).status = "exited"
  /\ At(w, "inspect_image") =>
       /\ images[frame[w].name] # None
       /\ images[frame[w].name].attempt = frame[w].attempt
       /\ frame[w].exit_code = 0 => images[frame[w].name].content = "final"
  /\ frame[w].digest # None =>
       /\ frame[w].digest.attempt = frame[w].attempt
       /\ frame[w].exit_code = 0 => frame[w].digest.content = "final"
  /\ At(w, "grade") \/ frame[w].outcome \in {"success", "failure"}
       => frame[w].exit_code = 0

ExitedMeansFinal ==
  \A n \in Names :
    containers[n] # None /\ containers[n].status = "exited" => containers[n].content = "final"

FrozenInv == ExitedMeansFinal /\ \A w \in Workers : Frozen(w)

(* The inductive invariant.                                                *)
IInv == TypeOK /\ AttemptInv /\ HeldInv /\ FrozenInv

-----------------------------------------------------------------------------
(* Frames, field by field.                                                 *)

(* The frame of a worker that goes on with its attempt.                    *)
Moved(w, point, exit_code, digest, outcome) ==
  [at |-> point, attempt |-> frame[w].attempt, name |-> frame[w].name,
   exit_code |-> exit_code, digest |-> digest, outcome |-> outcome]

(* The fields of a frame are of their types.                               *)
LEMMA FrameRecord ==
  ASSUME NEW r \in Frame
  PROVE  /\ r.at \in Points /\ r.attempt \in Attempt \cup {None}
         /\ r.name \in Names \cup {None} /\ r.exit_code \in {0, 1, None}
         /\ r.digest \in Image \cup {None}
         /\ r.outcome \in AttemptResult \cup {"raised", None}
BY DEF Frame

(* The fields of the frame of a worker that moved.                         *)
LEMMA MovedFields ==
  ASSUME NEW w, NEW a, NEW c, NEW d, NEW o
  PROVE  /\ Moved(w, a, c, d, o).at = a
         /\ Moved(w, a, c, d, o).attempt = frame[w].attempt
         /\ Moved(w, a, c, d, o).name = frame[w].name
         /\ Moved(w, a, c, d, o).exit_code = c
         /\ Moved(w, a, c, d, o).digest = d
         /\ Moved(w, a, c, d, o).outcome = o
BY DEF Moved

(* It is a frame.                                                          *)
LEMMA MovedIsFrame ==
  ASSUME TypeOK, NEW w \in Workers, NEW a \in Points, NEW c \in {0, 1, None},
         NEW d \in Image \cup {None}, NEW o \in AttemptResult \cup {"raised", None}
  PROVE  Moved(w, a, c, d, o) \in Frame
<1>1. frame[w] \in Frame BY DEF TypeOK
<1>2. frame[w].attempt \in Attempt \cup {None} /\ frame[w].name \in Names \cup {None}
  BY <1>1, FrameRecord
<1> QED BY <1>2 DEF Moved, Frame

(* Going to another point of the attempt.                                  *)
LEMMA GotoMoves ==
  ASSUME TypeOK, NEW w \in Workers, NEW p
  PROVE  [frame[w] EXCEPT !.at = p]
           = Moved(w, p, frame[w].exit_code, frame[w].digest, frame[w].outcome)
<1>1. frame[w] \in Frame BY DEF TypeOK
<1> QED BY <1>1 DEF Moved, Frame

(* The ways the actions write a frame, as one.                             *)
LEMMA Moves ==
  ASSUME TypeOK, NEW w \in Workers, NEW p, NEW x
  PROVE  /\ Goto(w, p) =>
              frame' = [frame EXCEPT ![w] =
                   Moved(w, p, frame[w].exit_code, frame[w].digest, frame[w].outcome)]
         /\ Leave(w, x) =>
              frame' = [frame EXCEPT ![w] =
                   Moved(w, "finally", frame[w].exit_code, frame[w].digest, x)]
         /\ Started(w, x) =>
              frame' = [frame EXCEPT ![w] =
                   Moved(w, "commit", x, frame[w].digest, frame[w].outcome)]
         /\ frame' = [frame EXCEPT ![w].at = "parse", ![w].digest = x] =>
              frame' = [frame EXCEPT ![w] =
                Moved(w, "parse", frame[w].exit_code, x, frame[w].outcome)]
<1>0. frame \in [Workers -> Frame] BY DEF TypeOK
<1>1. Goto(w, p) =>
        frame' = [frame EXCEPT ![w] =
             Moved(w, p, frame[w].exit_code, frame[w].digest, frame[w].outcome)]
  BY GotoMoves DEF Goto
<1>2. [[frame[w] EXCEPT !.at = "finally"] EXCEPT !.outcome = x]
        = Moved(w, "finally", frame[w].exit_code, frame[w].digest, x)
  <2>1. ASSUME NEW q, q = Moved(w, "finally", frame[w].exit_code, frame[w].digest, frame[w].outcome)
        PROVE  [q EXCEPT !.outcome = x] = Moved(w, "finally", frame[w].exit_code, frame[w].digest, x)
    BY <2>1 DEF Moved
  <2> QED BY <2>1, GotoMoves, Zenon
<1>3. [[frame[w] EXCEPT !.at = "commit"] EXCEPT !.exit_code = x]
        = Moved(w, "commit", x, frame[w].digest, frame[w].outcome)
  <2>1. ASSUME NEW q, q = Moved(w, "commit", frame[w].exit_code, frame[w].digest, frame[w].outcome)
        PROVE  [q EXCEPT !.exit_code = x] = Moved(w, "commit", x, frame[w].digest, frame[w].outcome)
    BY <2>1 DEF Moved
  <2> QED BY <2>1, GotoMoves, Zenon
<1>4. [[frame[w] EXCEPT !.at = "parse"] EXCEPT !.digest = x]
        = Moved(w, "parse", frame[w].exit_code, x, frame[w].outcome)
  <2>1. ASSUME NEW q, q = Moved(w, "parse", frame[w].exit_code, frame[w].digest, frame[w].outcome)
        PROVE  [q EXCEPT !.digest = x] = Moved(w, "parse", frame[w].exit_code, x, frame[w].outcome)
    BY <2>1 DEF Moved
  <2> QED BY <2>1, GotoMoves, Zenon
<1>5. Leave(w, x) =>
        frame' = [frame EXCEPT ![w] =
             Moved(w, "finally", frame[w].exit_code, frame[w].digest, x)]
  BY <1>0, <1>2 DEF Leave
<1>6. Started(w, x) =>
        frame' = [frame EXCEPT ![w] =
             Moved(w, "commit", x, frame[w].digest, frame[w].outcome)]
  BY <1>0, <1>3 DEF Started
<1>7. frame' = [frame EXCEPT ![w].at = "parse", ![w].digest = x] =>
        frame' = [frame EXCEPT ![w] =
          Moved(w, "parse", frame[w].exit_code, x, frame[w].outcome)]
  BY <1>0, <1>4
<1> QED BY <1>1, <1>5, <1>6, <1>7

(* What a step that goes on with the attempt of w preserves: the numbering *)
(* of attempts, and the names their containers are held by.                *)
LEMMA MovesKeepNames ==
  ASSUME IInv, NEW w \in Workers, Busy(w),
         NEW a \in Points \ {"idle"}, NEW c, NEW d, NEW o,
         frame' = [frame EXCEPT ![w] = Moved(w, a, c, d, o)],
         next' = next,
         \A n \in Names : /\ containers'[n] # None <=> containers[n] # None
                          /\ containers'[n].attempt = containers[n].attempt,
         a = "create" <=> At(w, "create")
  PROVE  AttemptInv' /\ HeldInv'
<1>1. frame \in [Workers -> Frame] BY DEF IInv, TypeOK
<1>2. \A v \in Workers : /\ frame'[v].attempt = frame[v].attempt
                         /\ frame'[v].name = frame[v].name
                         /\ Busy(v)' <=> Busy(v)
                         /\ Holds(v)' <=> Holds(v)
  BY <1>1, MovedFields DEF Busy, Holds, At
<1>3. AttemptInv'
  BY <1>2 DEF IInv, AttemptInv
<1>4. HeldInv'
  BY <1>2 DEF IInv, HeldInv, AttemptInv, Exists, Own, Holds, Busy, At
<1> QED BY <1>3, <1>4

(* What the end of an attempt preserves.                                   *)
LEMMA EndsKeepNames ==
  ASSUME IInv, NEW w \in Workers, Busy(w), End(w), next' = next,
         \A n \in Names : n # frame[w].name => containers'[n] = containers[n],
         \/ containers'[frame[w].name] = None /\ Holds(w)
         \/ containers' = containers
         \/ /\ containers[frame[w].name] = None
            /\ containers'[frame[w].name].attempt = frame[w].attempt
  PROVE  AttemptInv' /\ HeldInv'
<1>1. frame \in [Workers -> Frame]
  BY DEF IInv, TypeOK
<1>2. /\ ~Busy(w)' /\ ~Holds(w)'
      /\ \A v \in Workers \ {w} : frame'[v] = frame[v]
  BY <1>1 DEF End, Idle, Busy, Holds, At
<1>3. /\ frame[w].attempt \in Attempt /\ frame[w].attempt < next /\ frame[w].name \in Names
  BY DEF IInv, AttemptInv
<1>5. \A v \in Workers : v # w /\ Busy(v) => frame[v].attempt # frame[w].attempt
  BY DEF IInv, AttemptInv
<1>6. \A v \in Workers : v # w /\ Holds(v) =>
        containers'[frame[v].name] = containers[frame[v].name]
  <2> SUFFICES ASSUME NEW v \in Workers, v # w, Holds(v)
               PROVE  containers'[frame[v].name] = containers[frame[v].name]
    OBVIOUS
  <2>1. Busy(v) /\ frame[v].name \in Names
    BY DEF IInv, AttemptInv, Busy, Holds, At
  <2>2. containers[frame[v].name] # None /\ containers[frame[v].name].attempt = frame[v].attempt
    BY DEF IInv, HeldInv, Exists, Own
  <2>3. CASE frame[v].name = frame[w].name
    <3>1. ~Holds(w)
      BY <1>5, <2>1, <2>2, <2>3 DEF IInv, HeldInv, Exists, Own
    <3> QED BY <2>2, <2>3, <3>1
  <2> QED BY <2>1, <2>3
<1>7. \A v \in Workers : v # w => (Busy(v)' <=> Busy(v)) /\ (Holds(v)' <=> Holds(v))
  BY <1>2 DEF Busy, Holds, At
<1>8. \A n \in Names : containers'[n] # None /\ containers'[n] # containers[n] =>
        n = frame[w].name /\ containers'[n].attempt = frame[w].attempt
  OBVIOUS
<1>9. AttemptInv'
  <2>1. ASSUME NEW v \in Workers, Busy(v)'
        PROVE  /\ frame'[v].attempt \in Attempt /\ frame'[v].attempt < next'
               /\ frame'[v].name \in Names
    BY <1>2, <1>7, <2>1 DEF IInv, AttemptInv
  <2>2. ASSUME NEW v \in Workers, NEW u \in Workers, Busy(v)', Busy(u)',
               frame'[v].attempt = frame'[u].attempt
        PROVE  v = u
    BY <1>2, <1>7, <2>2 DEF IInv, AttemptInv
  <2>3. ASSUME NEW n \in Names, containers'[n] # None
        PROVE  containers'[n].attempt < next'
    BY <1>3, <1>8, <2>3 DEF IInv, AttemptInv
  <2>4. ASSUME NEW v \in Workers, NEW n \in Names, Busy(v)', containers'[n] # None,
               containers'[n].attempt = frame'[v].attempt
        PROVE  Holds(v)' /\ frame'[v].name = n
    BY <1>2, <1>5, <1>7, <1>8, <2>4 DEF IInv, AttemptInv
  <2> QED BY <2>1, <2>2, <2>3, <2>4 DEF AttemptInv
<1>10. HeldInv'
  BY <1>2, <1>3, <1>6, <1>7 DEF IInv, HeldInv, Exists, Own, Holds, At
<1> QED BY <1>9, <1>10

(* What another worker froze stays: a step of w touches the container and  *)
(* the image of its own name only, while it holds it or takes it.          *)
LEMMA OthersFrozen ==
  ASSUME IInv, NEW w \in Workers, NEW v \in Workers, v # w, Busy(w),
         frame'[v] = frame[v],
         \A n \in Names : n # frame[w].name =>
           containers'[n] = containers[n] /\ images'[n] = images[n],
         Holds(w) \/ containers' = containers \/ containers[frame[w].name] = None,
         Holds(w) \/ images' = images
  PROVE  Frozen(v)'
<1>1. Holds(v) => /\ containers'[frame[v].name] = containers[frame[v].name]
                  /\ images'[frame[v].name] = images[frame[v].name]
  <2> SUFFICES ASSUME Holds(v)
               PROVE  /\ containers'[frame[v].name] = containers[frame[v].name]
                      /\ images'[frame[v].name] = images[frame[v].name]
    OBVIOUS
  <2>1. Busy(v) /\ frame[v].name \in Names /\ frame[v].attempt # frame[w].attempt
    BY DEF IInv, AttemptInv, Busy, Holds, At
  <2>2. containers[frame[v].name] # None /\ containers[frame[v].name].attempt = frame[v].attempt
    BY DEF IInv, HeldInv, Exists, Own
  <2>3. frame[v].name = frame[w].name => ~Holds(w)
    BY <2>1, <2>2 DEF IInv, HeldInv, Exists, Own
  <2> QED BY <2>1, <2>2, <2>3
<1>2. Frozen(v) BY DEF IInv, FrozenInv
<1>3. At(v, "commit") \/ At(v, "inspect_image") => Holds(v)
  BY DEF At, Holds
<1> QED BY <1>1, <1>2, <1>3 DEF Frozen, At, Own

(* The types a step that goes on preserves.                                *)
LEMMA MovesKeepTypes ==
  ASSUME TypeOK, NEW w \in Workers, NEW a \in Points \ {"idle"}, NEW c \in {0, 1, None},
         NEW d \in Image \cup {None}, NEW o \in AttemptResult \cup {"raised", None},
         d # None <=> a \in InTry \cup {"finally"},
         o # None <=> a = "finally",
         frame' = [frame EXCEPT ![w] = Moved(w, a, c, d, o)],
         next' = next,
         containers' \in [Names -> Container \cup {None}],
         images' \in [Names -> Image \cup {None}]
  PROVE  TypeOK'
<1>1. Moved(w, a, c, d, o) \in Frame BY MovedIsFrame
<1>2. frame' \in [Workers -> Frame] BY <1>1 DEF TypeOK
<1>3. ASSUME NEW v \in Workers
      PROVE  /\ At(v, "idle")' => frame'[v] = Idle
             /\ frame'[v].digest # None <=> frame'[v].at \in InTry \cup {"finally"}
             /\ frame'[v].outcome # None <=> At(v, "finally")'
  <2>1. CASE v = w
    <3>1. frame'[v] = Moved(w, a, c, d, o) BY <2>1 DEF TypeOK
    <3> QED BY <3>1, MovedFields DEF At
  <2>2. CASE v # w
    <3>1. frame'[v] = frame[v] BY <2>2 DEF TypeOK
    <3> QED BY <3>1 DEF TypeOK, At
  <2> QED BY <2>1, <2>2
<1> QED BY <1>2, <1>3 DEF TypeOK

(* The types the end of an attempt preserves.                              *)
LEMMA EndsKeepTypes ==
  ASSUME TypeOK, NEW w \in Workers, End(w), next' = next,
         containers' \in [Names -> Container \cup {None}],
         images' \in [Names -> Image \cup {None}]
  PROVE  TypeOK' /\ Frozen(w)'
<1>1. Idle \in Frame BY DEF Idle, Frame, Points
<1>2. frame' = [frame EXCEPT ![w] = Idle] BY DEF End
<1>3. frame' \in [Workers -> Frame] /\ frame'[w] = Idle BY <1>1, <1>2 DEF TypeOK
<1>4. ASSUME NEW v \in Workers
      PROVE  /\ At(v, "idle")' => frame'[v] = Idle
             /\ frame'[v].digest # None <=> frame'[v].at \in InTry \cup {"finally"}
             /\ frame'[v].outcome # None <=> At(v, "finally")'
  <2>1. CASE v = w
    BY <1>3, <2>1 DEF At, Idle, InTry
  <2>2. CASE v # w
    <3>1. frame'[v] = frame[v] BY <1>2, <2>2 DEF TypeOK
    <3> QED BY <3>1 DEF TypeOK, At
  <2> QED BY <2>1, <2>2
<1>5. Frozen(w)'
  BY <1>3, NoneAssumption DEF Frozen, At, Idle, AttemptResult
<1> QED BY <1>3, <1>4, <1>5 DEF TypeOK

(* A step of w that goes on with its attempt, holding its name.            *)
LEMMA WorkerMoves ==
  ASSUME IInv, NEW w \in Workers, Busy(w), NEW a \in Points \ {"idle", "create"},
         NEW c \in {0, 1, None}, NEW d \in Image \cup {None},
         NEW o \in AttemptResult \cup {"raised", None},
         d # None <=> a \in InTry \cup {"finally"},
         o # None <=> a = "finally",
         frame' = [frame EXCEPT ![w] = Moved(w, a, c, d, o)],
         next' = next, Holds(w),
         containers' \in [Names -> Container \cup {None}],
         images' \in [Names -> Image \cup {None}],
         \A n \in Names : /\ containers'[n] # None <=> containers[n] # None
                          /\ containers'[n].attempt = containers[n].attempt
                          /\ n # frame[w].name =>
                               containers'[n] = containers[n] /\ images'[n] = images[n],
         ExitedMeansFinal', Frozen(w)'
  PROVE  IInv'
<1>1. TypeOK'
  <2>1. TypeOK BY DEF IInv
  <2> QED BY ZenonT(40), <2>1, MovesKeepTypes
<1>2. AttemptInv' /\ HeldInv'
  <2>1. a = "create" <=> At(w, "create") BY DEF Holds, At
  <2> QED BY <2>1, MovesKeepNames
<1>3. ASSUME NEW v \in Workers PROVE Frozen(v)'
  <2>1. CASE v = w BY <2>1
  <2>2. CASE v # w
    <3>1. frame'[v] = frame[v] BY <2>2 DEF IInv, TypeOK
    <3> QED BY <2>2, <3>1, OthersFrozen
  <2> QED BY <2>1, <2>2
<1> QED BY <1>1, <1>2, <1>3 DEF IInv, FrozenInv

(* The last step of an attempt.                                            *)
LEMMA WorkerEnds ==
  ASSUME IInv, NEW w \in Workers, Busy(w), End(w), next' = next,
         containers' \in [Names -> Container \cup {None}],
         images' \in [Names -> Image \cup {None}],
         \A n \in Names : n # frame[w].name =>
           containers'[n] = containers[n] /\ images'[n] = images[n],
         \/ containers'[frame[w].name] = None /\ Holds(w)
         \/ containers' = containers
         \/ /\ containers[frame[w].name] = None
            /\ containers'[frame[w].name].attempt = frame[w].attempt,
         Holds(w) \/ images' = images,
         ExitedMeansFinal'
  PROVE  IInv'
<1>1. TypeOK' /\ Frozen(w)'
  <2>1. TypeOK BY DEF IInv
  <2> QED BY <2>1, EndsKeepTypes
<1>2. AttemptInv' /\ HeldInv'
  BY EndsKeepNames
<1>3. ASSUME NEW v \in Workers PROVE Frozen(v)'
  <2>1. CASE v = w BY <1>1, <2>1
  <2>2. CASE v # w
    <3>1. frame'[v] = frame[v] BY <2>2 DEF IInv, TypeOK, End
    <3> QED BY <2>2, <3>1, OthersFrozen
  <2> QED BY <2>1, <2>2
<1> QED BY <1>1, <1>2, <1>3 DEF IInv, FrozenInv

(* Raising, or dying, with the containers as they are.                     *)
LEMMA EndsInPlace ==
  ASSUME IInv, NEW w \in Workers, Busy(w), End(w), next' = next, containers' = containers, images' = images
  PROVE  IInv'
<1>1. /\ containers' \in [Names -> Container \cup {None}]
      /\ images' \in [Names -> Image \cup {None}]
  BY DEF IInv, TypeOK
<1>2. ExitedMeansFinal' BY DEF IInv, FrozenInv, ExitedMeansFinal
<1> QED BY <1>1, <1>2, WorkerEnds

(* Going on with containers and images as they are.                        *)
LEMMA MovesInPlace ==
  ASSUME IInv, NEW w \in Workers, Holds(w), Busy(w), NEW a \in Points \ {"idle", "create"},
         NEW c \in {0, 1, None}, NEW d \in Image \cup {None},
         NEW o \in AttemptResult \cup {"raised", None},
         d # None <=> a \in InTry \cup {"finally"},
         o # None <=> a = "finally",
         frame' = [frame EXCEPT ![w] = Moved(w, a, c, d, o)],
         next' = next, containers' = containers, images' = images,
         Frozen(w)'
  PROVE  IInv'
<1>1. /\ containers' \in [Names -> Container \cup {None}]
      /\ images' \in [Names -> Image \cup {None}]
  BY DEF IInv, TypeOK
<1>2. ExitedMeansFinal' BY DEF IInv, FrozenInv, ExitedMeansFinal
<1> QED BY <1>1, <1>2, WorkerMoves

(* A frame that is read.                                                   *)
LEMMA FrameOf ==
  ASSUME TypeOK, NEW w \in Workers
  PROVE  /\ frame[w] \in Frame
         /\ frame[w].at \in Points
         /\ frame[w].exit_code \in {0, 1, None}
         /\ frame[w].digest \in Image \cup {None}
         /\ frame[w].outcome \in AttemptResult \cup {"raised", None}
         /\ frame[w].digest # None <=> frame[w].at \in InTry \cup {"finally"}
         /\ frame[w].outcome # None <=> frame[w].at = "finally"
<1>1. frame[w] \in Frame BY DEF TypeOK
<1>2. /\ frame[w].at \in Points
      /\ frame[w].exit_code \in {0, 1, None}
      /\ frame[w].digest \in Image \cup {None}
      /\ frame[w].outcome \in AttemptResult \cup {"raised", None}
  BY <1>1, FrameRecord
<1> QED BY <1>1, <1>2 DEF TypeOK, At

-----------------------------------------------------------------------------
(* The steps of a worker.                                                  *)

(* The client returns: the exit code is that of the agent that exited.     *)
LEMMA ClientReturnsStep ==
  ASSUME IInv, NEW w \in Workers, ClientReturns(w) PROVE IInv'
<1>1. TypeOK /\ Holds(w) /\ Busy(w) /\ At(w, "attached")
  BY DEF IInv, ClientReturns, Holds, Busy, At
<1>2. frame' = [frame EXCEPT ![w] =
           Moved(w, "commit", Own(w).code, frame[w].digest, frame[w].outcome)]
  BY <1>1, Moves DEF ClientReturns
<1>3. Own(w).code \in {0, 1}
  BY <1>1 DEF ClientReturns, Exists, Own, IInv, AttemptInv, TypeOK, Container
<1>4. frame[w].digest = None /\ frame[w].outcome = None
  BY <1>1, FrameOf DEF At, InTry
<1>5. Frozen(w)'
  <2>1. frame'[w] = Moved(w, "commit", Own(w).code, None, None)
    BY <1>1, <1>2, <1>4 DEF TypeOK
  <2>2. containers' = containers /\ Own(w).status = "exited" BY DEF ClientReturns, daemon
  <2>3. /\ frame'[w].at = "commit" /\ frame'[w].name = frame[w].name
        /\ frame'[w].digest = None /\ frame'[w].outcome = None
    BY <2>1, MovedFields
  <2>4. Own(w)' = Own(w)
    BY <2>2, <2>3 DEF Own
  <2> QED BY <2>2, <2>3, <2>4, NoneAssumption DEF Frozen, At, AttemptResult
<1> QED
  BY <1>1, <1>2, <1>3, <1>4, <1>5, MovesInPlace DEF ClientReturns, daemon, Points, InRunAgent, InTry

(* The client is killed: the exit code is None, and rejects the attempt.   *)
LEMMA ClientTimesOutStep ==
  ASSUME IInv, NEW w \in Workers, ClientTimesOut(w) PROVE IInv'
<1>1. TypeOK /\ Holds(w) /\ Busy(w) /\ At(w, "attached")
  BY DEF IInv, ClientTimesOut, Holds, Busy, At
<1>2. frame' = [frame EXCEPT ![w] =
           Moved(w, "commit", None, frame[w].digest, frame[w].outcome)]
  BY <1>1, Moves DEF ClientTimesOut
<1>3. frame[w].digest = None /\ frame[w].outcome = None
  BY <1>1, FrameOf DEF At, InTry
<1>4. Frozen(w)'
  <2>1. frame'[w] = Moved(w, "commit", None, None, None)
    BY <1>1, <1>2, <1>3 DEF TypeOK
  <2> QED BY <2>1, MovedFields, NoneAssumption DEF Frozen, At, AttemptResult
<1> QED
  BY <1>1, <1>2, <1>3, <1>4, MovesInPlace DEF ClientTimesOut, daemon, Points, InRunAgent, InTry

(* The container is started, or refuses and returns an error code.         *)
LEMMA StartStep ==
  ASSUME IInv, NEW w \in Workers, Start(w) PROVE IInv'
<1>1. TypeOK /\ Holds(w) /\ Busy(w) /\ At(w, "start")
  BY DEF IInv, Start, Holds, Busy, At
<1>2. frame[w].digest = None /\ frame[w].outcome = None /\ frame[w].exit_code \in {0, 1, None}
  BY <1>1, FrameOf DEF At, InTry
<1>3. /\ frame[w].name \in Names /\ containers[frame[w].name] \in Container
      /\ containers[frame[w].name] # None
  BY <1>1 DEF IInv, AttemptInv, HeldInv, Exists, Own, TypeOK
<1>4. CASE Started(w, 1) /\ UNCHANGED <<containers, images, next>>
  <2>1. frame' = [frame EXCEPT ![w] = Moved(w, "commit", 1, None, None)]
    BY <1>1, <1>2, <1>4, Moves
  <2>2. frame'[w] = Moved(w, "commit", 1, None, None)
    BY <1>1, <2>1 DEF TypeOK
  <2>3. Frozen(w)'
    BY <2>2, MovedFields, NoneAssumption DEF Frozen, At, AttemptResult
  <2> QED BY <1>1, <1>4, <2>1, <2>3, MovesInPlace DEF Points, InRunAgent, InTry
<1>5. CASE /\ containers' = [containers EXCEPT ![frame[w].name].status = "running"]
           /\ Goto(w, "attached")
           /\ UNCHANGED <<images, next>>
  <2>1. frame' = [frame EXCEPT ![w] =
             Moved(w, "attached", frame[w].exit_code, None, None)]
    BY <1>1, <1>2, <1>5, Moves
  <2>2. frame'[w] = Moved(w, "attached", frame[w].exit_code, None, None)
    BY <1>1, <2>1 DEF TypeOK
  <2>3. Frozen(w)'
    BY <2>2, MovedFields, NoneAssumption DEF Frozen, At, AttemptResult
  <2>4. [containers[frame[w].name] EXCEPT !.status = "running"]
          = [attempt |-> Own(w).attempt, status |-> "running",
             content |-> Own(w).content, code |-> Own(w).code]
    BY <1>3 DEF Container, Own
  <2>5. containers' = [containers EXCEPT ![frame[w].name] =
          [attempt |-> Own(w).attempt, status |-> "running",
           content |-> Own(w).content, code |-> Own(w).code]]
    BY <1>5, <2>4
  <2>6. [attempt |-> Own(w).attempt, status |-> "running",
         content |-> Own(w).content, code |-> Own(w).code] \in Container
    BY <1>3 DEF Own, Container
  <2>7. /\ containers' \in [Names -> Container \cup {None}]
        /\ images' \in [Names -> Image \cup {None}]
    BY ZenonT(40), <1>1, <1>5, <2>5, <2>6 DEF TypeOK
  <2>8. \A n \in Names : n # frame[w].name => containers'[n] = containers[n]
    BY <1>1, <2>5 DEF TypeOK
  <2>9. /\ containers'[frame[w].name].attempt = containers[frame[w].name].attempt
        /\ containers'[frame[w].name].status = "running"
        /\ containers'[frame[w].name] # None
    BY <1>1, <1>3, <2>5, <2>6, NoneAssumption DEF TypeOK, Own
  <2>10. ExitedMeansFinal'
    BY <2>8, <2>9 DEF IInv, FrozenInv, ExitedMeansFinal
  <2> QED
    BY ZenonT(40), <1>1, <1>2, <1>3, <1>5, <2>1, <2>3, <2>7, <2>8, <2>9, <2>10, WorkerMoves
    DEF Points, InRunAgent, InTry
<1> QED BY <1>4, <1>5 DEF Start

(* What the held container holds is frozen under its name.                 *)
LEMMA CommitStep ==
  ASSUME IInv, NEW w \in Workers, Commit(w) PROVE IInv'
<1>1. TypeOK /\ Holds(w) /\ Busy(w) /\ At(w, "commit")
  BY DEF IInv, Commit, Holds, Busy, At
<1>2. frame[w].digest = None /\ frame[w].outcome = None /\ frame[w].exit_code \in {0, 1, None}
  BY <1>1, FrameOf DEF At, InTry
<1>3. /\ frame[w].name \in Names /\ Own(w) \in Container /\ Own(w) # None
      /\ Own(w).attempt = frame[w].attempt
  BY <1>1 DEF IInv, AttemptInv, HeldInv, Exists, Own, TypeOK
<1>4. containers' = containers /\ next' = next BY DEF Commit
<1>5. /\ containers' \in [Names -> Container \cup {None}] /\ ExitedMeansFinal'
      /\ frame[w].exit_code = 0 => Own(w).content = "final"
  BY <1>1, <1>3, <1>4 DEF IInv, TypeOK, FrozenInv, ExitedMeansFinal, Frozen, Own
<1>6. CASE Raise(w) /\ images' = images
  BY <1>1, <1>4, <1>6, EndsInPlace DEF Raise
<1>7. CASE /\ images' = [images EXCEPT ![frame[w].name] =
                [attempt |-> Own(w).attempt, content |-> Own(w).content]]
           /\ Goto(w, "inspect_image") \/ Raise(w)
  <2>1. [attempt |-> Own(w).attempt, content |-> Own(w).content] \in Image
    BY <1>3 DEF Container, Image
  <2>2. /\ images' \in [Names -> Image \cup {None}]
        /\ images'[frame[w].name] = [attempt |-> Own(w).attempt, content |-> Own(w).content]
        /\ \A n \in Names : n # frame[w].name => images'[n] = images[n]
    BY <1>1, <1>3, <1>7, <2>1 DEF TypeOK
  <2>3. CASE Raise(w)
    BY <1>1, <1>4, <1>5, <2>2, <2>3, WorkerEnds DEF Raise
  <2>4. CASE Goto(w, "inspect_image")
    <3>1. frame' = [frame EXCEPT ![w] =
               Moved(w, "inspect_image", frame[w].exit_code, None, None)]
      BY <1>1, <1>2, <2>4, Moves
    <3>2. frame'[w] = Moved(w, "inspect_image", frame[w].exit_code, None, None)
      BY <1>1, <3>1 DEF TypeOK
    <3>3. images'[frame[w].name] # None
      BY <2>1, <2>2, NoneAssumption
    <3>4. Frozen(w)'
      BY <1>3, <1>5, <2>2, <3>2, <3>3, MovedFields, NoneAssumption
      DEF Frozen, At, AttemptResult
    <3> QED
      BY <1>1, <1>2, <1>4, <1>5, <2>2, <3>1, <3>4, WorkerMoves DEF Points, InRunAgent, InTry
  <2> QED BY <1>7, <2>3, <2>4
<1> QED BY <1>6, <1>7 DEF Commit

(* The digest read is that of the image just frozen.                       *)
LEMMA InspectImageStep ==
  ASSUME IInv, NEW w \in Workers, InspectImage(w) PROVE IInv'
<1>1. TypeOK /\ Holds(w) /\ Busy(w) /\ At(w, "inspect_image")
  BY DEF IInv, InspectImage, Holds, Busy, At
<1>2. frame[w].outcome = None /\ frame[w].exit_code \in {0, 1, None}
  BY <1>1, FrameOf DEF At
<1>3. containers' = containers /\ images' = images /\ next' = next
  BY DEF InspectImage, daemon
<1>4. CASE Raise(w)
  BY <1>1, <1>3, <1>4, EndsInPlace DEF Raise
<1>5. CASE /\ frame' = [frame EXCEPT ![w].at = "parse", ![w].digest = images[frame[w].name]]
  <2>0. PICK image : image = images[frame[w].name] OBVIOUS
  <2>1. frame' = [frame EXCEPT ![w] = Moved(w, "parse", frame[w].exit_code, image, frame[w].outcome)]
    <3>1. frame' = [frame EXCEPT ![w].at = "parse", ![w].digest = image]
      BY <1>5, <2>0
    <3> QED BY <1>1, <1>2, <3>1, Moves
  <2>2. frame'[w] = Moved(w, "parse", frame[w].exit_code, image, frame[w].outcome)
    BY <1>1, <2>1 DEF TypeOK
  <2>3. /\ frame[w].name \in Names /\ image \in Image /\ image # None
        /\ image.attempt = frame[w].attempt
        /\ frame[w].exit_code = 0 => image.content = "final"
    BY <1>1, <2>0 DEF IInv, AttemptInv, TypeOK, FrozenInv, Frozen
  <2>4. Frozen(w)'
    BY <1>2, <2>2, <2>3, MovedFields, NoneAssumption DEF Frozen, At, AttemptResult
  <2>5. /\ "parse" \in Points \ {"idle", "create"}
        /\ image # None <=> "parse" \in InTry \cup {"finally"}
        /\ frame[w].outcome # None <=> "parse" = "finally"
        /\ image \in Image \cup {None} /\ frame[w].outcome \in AttemptResult \cup {"raised", None}
        /\ frame[w].exit_code \in {0, 1, None}
    BY <1>2, <1>5, <2>3 DEF Points, InTry
  <2> QED BY ZenonT(40), <1>1, <1>3, <2>1, <2>4, <2>5, MovesInPlace
<1> QED BY <1>4, <1>5 DEF InspectImage

(* Leaving the try statement.                                              *)
LEMMA LeaveStep ==
  ASSUME IInv, NEW w \in Workers, frame[w].at \in InTry,
         NEW o \in AttemptResult \cup {"raised"}, Leave(w, o),
         o \in {"success", "failure"} => frame[w].exit_code = 0,
         UNCHANGED <<daemon, next>>
  PROVE  IInv'
<1>1. TypeOK /\ Holds(w) /\ Busy(w)
  BY DEF IInv, Holds, Busy, At, InTry
<1>2. /\ frame[w].exit_code \in {0, 1, None}
      /\ frame[w].digest \in Image \cup {None} /\ frame[w].digest # None
  BY <1>1, FrameOf
<1>3. frame' = [frame EXCEPT ![w] =
           Moved(w, "finally", frame[w].exit_code, frame[w].digest, o)]
  BY <1>1, Moves
<1>4. frame'[w] = Moved(w, "finally", frame[w].exit_code, frame[w].digest, o)
  BY <1>1, <1>3 DEF TypeOK
<1>5. Frozen(w)'
  BY <1>2, <1>4, MovedFields DEF IInv, FrozenInv, Frozen, At
<1>6. o # None BY NoneAssumption
<1> QED
  BY <1>1, <1>2, <1>3, <1>5, <1>6, MovesInPlace DEF daemon, Points, InTry

(* Going on inside the try statement; only an exit code of 0 is graded.    *)
LEMMA JudgeStep ==
  ASSUME IInv, NEW w \in Workers, frame[w].at \in InTry,
         NEW p \in {"inspect_state", "grade"}, Goto(w, p),
         p = "grade" => frame[w].exit_code = 0,
         UNCHANGED <<daemon, next>>
  PROVE  IInv'
<1>1. TypeOK /\ Holds(w) /\ Busy(w)
  BY DEF IInv, Holds, Busy, At, InTry
<1>2. /\ frame[w].exit_code \in {0, 1, None} /\ frame[w].outcome = None
      /\ frame[w].digest \in Image \cup {None} /\ frame[w].digest # None
  BY <1>1, FrameOf DEF InTry
<1>3. frame' = [frame EXCEPT ![w] =
           Moved(w, p, frame[w].exit_code, frame[w].digest, frame[w].outcome)]
  BY <1>1, <1>2, Moves
<1>4. frame'[w] = Moved(w, p, frame[w].exit_code, frame[w].digest, frame[w].outcome)
  BY <1>1, <1>3 DEF TypeOK
<1>5. Frozen(w)'
  BY SMTT(30), <1>2, <1>4, MovedFields, NoneAssumption DEF IInv, FrozenInv, Frozen, At, AttemptResult
<1>6. /\ p \in Points \ {"idle", "create"}
      /\ frame[w].digest # None <=> p \in InTry \cup {"finally"}
      /\ frame[w].outcome # None <=> p = "finally"
      /\ frame[w].outcome \in AttemptResult \cup {"raised", None}
      /\ frame[w].exit_code \in {0, 1, None} /\ frame[w].digest \in Image \cup {None}
      /\ next' = next /\ containers' = containers /\ images' = images
  BY <1>2 DEF Points, InTry, daemon
<1> QED BY ZenonT(40), <1>1, <1>3, <1>5, <1>6, MovesInPlace

(* Evidence, state and grader, and an interrupt while judging.             *)
LEMMA JudgingStep ==
  ASSUME IInv, NEW w \in Workers,
         ParseEvidence(w) \/ InspectState(w) \/ Grade(w) \/ Interrupt(w)
  PROVE  IInv'
<1>1. CASE ParseEvidence(w)
  BY <1>1, LeaveStep, JudgeStep DEF ParseEvidence, At, InTry, AttemptResult
<1>2. CASE InspectState(w)
  BY <1>2, LeaveStep, JudgeStep DEF InspectState, Rejected, At, InTry, AttemptResult
<1>3. CASE Grade(w)
  <2>1. frame[w].exit_code = 0 BY <1>3 DEF Grade, IInv, FrozenInv, Frozen
  <2> QED BY <1>3, <2>1, LeaveStep DEF Grade, At, InTry, AttemptResult
<1>4. CASE Interrupt(w)
  BY <1>4, LeaveStep DEF Interrupt
<1> QED BY <1>1, <1>2, <1>3, <1>4

(* The holder removes its container, or fails to.                          *)
LEMMA RemoveContainerStep ==
  ASSUME IInv, NEW w \in Workers, RemoveContainer(w) PROVE IInv'
<1>1. TypeOK /\ Holds(w) /\ Busy(w)
  BY DEF IInv, RemoveContainer, Holds, Busy, At
<1>2. images' = images /\ next' = next BY DEF RemoveContainer
<1>3. CASE containers' = containers
  BY <1>1, <1>2, <1>3, EndsInPlace DEF RemoveContainer
<1>4. CASE containers' = [containers EXCEPT ![frame[w].name] = None]
  <2>1. frame[w].name \in Names BY <1>1 DEF IInv, AttemptInv
  <2>2. /\ containers' \in [Names -> Container \cup {None}]
        /\ images' \in [Names -> Image \cup {None}]
        /\ containers'[frame[w].name] = None
        /\ \A n \in Names : n # frame[w].name => containers'[n] = containers[n]
    BY <1>1, <1>2, <1>4, <2>1 DEF TypeOK
  <2>3. ExitedMeansFinal' BY <2>2 DEF IInv, FrozenInv, ExitedMeansFinal
  <2> QED BY <1>1, <1>2, <1>4, <2>2, <2>3, WorkerEnds DEF RemoveContainer
<1> QED BY <1>3, <1>4 DEF RemoveContainer

(* A killed process leaves the daemon as it is.                            *)
LEMMA DieStep ==
  ASSUME IInv, NEW w \in Workers, Die(w) PROVE IInv'
BY EndsInPlace DEF Die, Busy, daemon

(* docker create takes a free name only.                                   *)
LEMMA CreateStep ==
  ASSUME IInv, NEW w \in Workers, Create(w) PROVE IInv'
<1>1. TypeOK /\ Busy(w) /\ ~Holds(w) /\ At(w, "create")
  BY DEF IInv, Create, Holds, Busy, At
<1>2. images' = images /\ next' = next BY DEF Create
<1>4. frame[w].name \in Names /\ frame[w].attempt \in Attempt /\ frame[w].attempt < next
  BY <1>1 DEF IInv, AttemptInv
<1>5. CASE Raise(w) /\ UNCHANGED containers
  BY <1>1, <1>2, <1>5, EndsInPlace DEF Raise
<1>6. CASE ~Exists(w) /\ CreateOwn(w) /\ (Goto(w, "start") \/ Raise(w))
  <2>1. PICK c \in Container : /\ c.attempt = frame[w].attempt /\ c.status = "created"
                               /\ containers' = [containers EXCEPT ![frame[w].name] = c]
    <3>1. [attempt |-> frame[w].attempt, status |-> "created", content |-> "untouched",
           code |-> 0] \in Container
      BY <1>4 DEF Container, Progress
    <3> QED BY <1>6, <3>1 DEF CreateOwn
  <2>2. /\ containers' \in [Names -> Container \cup {None}]
        /\ images' \in [Names -> Image \cup {None}]
        /\ containers'[frame[w].name] = c /\ c # None
        /\ containers[frame[w].name] = None
        /\ \A n \in Names : n # frame[w].name => containers'[n] = containers[n]
    BY <1>1, <1>2, <1>4, <1>6, <2>1, NoneAssumption DEF TypeOK, Exists, Own
  <2>3. ExitedMeansFinal'
    BY <2>1, <2>2 DEF IInv, FrozenInv, ExitedMeansFinal
  <2>4. CASE Raise(w)
    BY <1>1, <1>2, <2>1, <2>2, <2>3, <2>4, WorkerEnds DEF Raise
  <2>5. CASE Goto(w, "start")
    <3>1. frame[w].digest = None /\ frame[w].outcome = None /\ frame[w].exit_code \in {0, 1, None}
      BY <1>1, FrameOf DEF At, InTry
    <3>2. frame' = [frame EXCEPT ![w] =
               Moved(w, "start", frame[w].exit_code, None, None)]
      BY <1>1, <2>5, <3>1, Moves
    <3>3. /\ frame'[w] = Moved(w, "start", frame[w].exit_code, None, None)
          /\ \A v \in Workers : v # w => frame'[v] = frame[v]
      BY <1>1, <3>2 DEF TypeOK
    <3>4. /\ frame'[w].at = "start" /\ frame'[w].attempt = frame[w].attempt
          /\ frame'[w].name = frame[w].name
      BY <3>3, MovedFields
    <3>5. TypeOK'
      BY <1>1, <1>2, <2>2, <3>1, <3>2, MovesKeepTypes DEF Points, InRunAgent, InTry
    <3>6. \A v \in Workers : /\ frame'[v].attempt = frame[v].attempt
                             /\ frame'[v].name = frame[v].name
                             /\ Busy(v)' <=> Busy(v)
                             /\ Holds(v)' <=> Holds(v) \/ v = w
      BY <1>1, <3>3, <3>4 DEF Busy, Holds, At
    <3>7. \A v \in Workers : v # w /\ Busy(v) => frame[v].attempt # frame[w].attempt
      BY <1>1 DEF IInv, AttemptInv
    <3>8. \A v \in Workers : Holds(v) => frame[v].name # frame[w].name
      BY <2>2 DEF IInv, HeldInv, Exists, Own
    <3>9. \A n \in Names : containers[n] # None => containers[n].attempt # frame[w].attempt
      BY <1>1 DEF IInv, AttemptInv
    <3>10. AttemptInv'
      BY <1>2, <1>4, <2>1, <2>2, <3>2, <3>6, <3>7, <3>9 DEF IInv, AttemptInv
    <3>11. HeldInv'
      <4>1. \A v \in Workers : Holds(v) => frame[v].name \in Names
        BY DEF IInv, AttemptInv, Holds, Busy, At
      <4> QED BY <1>4, <2>1, <2>2, <3>6, <3>8, <4>1 DEF IInv, HeldInv, Exists, Own
    <3>12. ASSUME NEW v \in Workers PROVE Frozen(v)'
      <4>1. CASE v = w
        BY <3>3, <4>1, MovedFields, NoneAssumption DEF Frozen, At, AttemptResult
      <4>2. CASE v # w
        BY <1>1, <1>2, <2>2, <3>3, <4>2, OthersFrozen
      <4> QED BY <4>1, <4>2
    <3> QED BY <2>3, <3>5, <3>10, <3>11, <3>12 DEF IInv, FrozenInv
  <2> QED BY <1>6, <2>4, <2>5
<1> QED BY <1>5, <1>6 DEF Create

(* A new attempt has a number no container bears yet.                      *)
LEMMA RunAttemptStep ==
  ASSUME IInv, NEW w \in Workers, NEW n \in Names, RunAttempt(w, n) PROVE IInv'
<1>1. TypeOK /\ ~Busy(w) /\ next \in Attempt /\ next \in Nat /\ next' = next + 1
  BY AttemptAssumption DEF IInv, RunAttempt, Busy, TypeOK, Attempt
<1>2. containers' = containers /\ images' = images
  BY DEF RunAttempt, daemon
<1>3. PICK r \in Frame : /\ r.at = "create" /\ r.attempt = next /\ r.name = n
                         /\ r.digest = None /\ r.outcome = None
                         /\ frame' = [frame EXCEPT ![w] = r]
  <2>1. [Idle EXCEPT !.at = "create", !.attempt = next, !.name = n]
          = [at |-> "create", attempt |-> next, name |-> n, exit_code |-> None,
             digest |-> None, outcome |-> None]
    <3>1. ASSUME NEW q, q = [at |-> "create", attempt |-> None, name |-> None,
                             exit_code |-> None, digest |-> None, outcome |-> None]
          PROVE  [q EXCEPT !.attempt = next]
                   = [at |-> "create", attempt |-> next, name |-> None, exit_code |-> None,
                      digest |-> None, outcome |-> None]
      BY <3>1
    <3>2. ASSUME NEW q, q = [at |-> "create", attempt |-> next, name |-> None,
                             exit_code |-> None, digest |-> None, outcome |-> None]
          PROVE  [q EXCEPT !.name = n]
                   = [at |-> "create", attempt |-> next, name |-> n, exit_code |-> None,
                      digest |-> None, outcome |-> None]
      BY <3>2
    <3>3. [Idle EXCEPT !.at = "create"]
            = [at |-> "create", attempt |-> None, name |-> None, exit_code |-> None,
               digest |-> None, outcome |-> None]
      BY DEF Idle
    <3> QED BY <3>1, <3>2, <3>3, Zenon
  <2>2. [at |-> "create", attempt |-> next, name |-> n, exit_code |-> None,
         digest |-> None, outcome |-> None] \in Frame
    BY <1>1 DEF Frame, Points, InRunAgent
  <2> QED BY <2>1, <2>2 DEF RunAttempt
<1>4. frame'[w] = r /\ \A v \in Workers : v # w => frame'[v] = frame[v]
  BY <1>1, <1>3 DEF TypeOK
<1>5. /\ Busy(w)' /\ ~Holds(w)'
      /\ \A v \in Workers : v # w => (Busy(v)' <=> Busy(v)) /\ (Holds(v)' <=> Holds(v))
  BY <1>3, <1>4 DEF Busy, Holds, At
<1>6. TypeOK'
  <2>1. frame' \in [Workers -> Frame] BY <1>1, <1>3 DEF TypeOK
  <2>2. next' \in 1..(MaxAttempts + 1) BY <1>1, AttemptAssumption DEF Attempt
  <2>3. ASSUME NEW v \in Workers
        PROVE  /\ At(v, "idle")' => frame'[v] = Idle
               /\ frame'[v].digest # None <=> frame'[v].at \in InTry \cup {"finally"}
               /\ frame'[v].outcome # None <=> At(v, "finally")'
    <3>1. CASE v = w BY <1>3, <1>4, <3>1 DEF At, InTry
    <3>2. CASE v # w BY <1>1, <1>4, <3>2 DEF TypeOK, At
    <3> QED BY <3>1, <3>2
  <2> QED BY <1>1, <1>2, <2>1, <2>2, <2>3 DEF TypeOK
<1>7. /\ \A v \in Workers : Busy(v) => frame[v].attempt \in Nat /\ frame[v].attempt < next
      /\ \A m \in Names : containers[m] # None =>
           containers[m].attempt \in Nat /\ containers[m].attempt < next
  BY <1>1, AttemptAssumption DEF IInv, AttemptInv, TypeOK, Container, Attempt
<1>8. AttemptInv'
  <2>1. ASSUME NEW v \in Workers, Busy(v)'
        PROVE  /\ frame'[v].attempt \in Attempt /\ frame'[v].attempt < next'
               /\ frame'[v].name \in Names
    <3>1. CASE v = w BY <1>1, <1>2, <1>3, <1>4, <3>1 DEF IInv, AttemptInv
    <3>2. CASE v # w BY <1>1, <1>2, <1>4, <1>5, <1>7, <2>1, <3>2 DEF IInv, AttemptInv
    <3> QED BY <3>1, <3>2
  <2>2. ASSUME NEW v \in Workers, NEW u \in Workers, Busy(v)', Busy(u)',
               frame'[v].attempt = frame'[u].attempt
        PROVE  v = u
    BY <1>1, <1>3, <1>4, <1>5, <1>7, <2>2 DEF IInv, AttemptInv
  <2>3. ASSUME NEW m \in Names, containers'[m] # None
        PROVE  containers'[m].attempt < next'
    BY <1>1, <1>2, <1>7, <2>3
  <2>4. ASSUME NEW v \in Workers, NEW m \in Names, Busy(v)', containers'[m] # None,
               containers'[m].attempt = frame'[v].attempt
        PROVE  Holds(v)' /\ frame'[v].name = m
    BY <1>1, <1>2, <1>3, <1>4, <1>5, <1>7, <2>4 DEF IInv, AttemptInv
  <2> QED BY <2>1, <2>2, <2>3, <2>4 DEF AttemptInv
<1>9. HeldInv'
  BY <1>2, <1>4, <1>5 DEF IInv, HeldInv, Exists, Own
<1>10. ASSUME NEW v \in Workers PROVE Frozen(v)'
  <2>1. CASE v = w
    BY <1>3, <1>4, <2>1, NoneAssumption DEF Frozen, At, AttemptResult
  <2>2. CASE v # w
    BY <1>2, <1>4, <2>2 DEF IInv, FrozenInv, Frozen, At, Own
  <2> QED BY <2>1, <2>2
<1> QED
  BY <1>2, <1>6, <1>8, <1>9, <1>10 DEF IInv, FrozenInv, ExitedMeansFinal

-----------------------------------------------------------------------------
(* The environment.                                                        *)

(* A container that goes on, whatever it holds now, is still its attempt's. *)
LEMMA ContainerGoesOn ==
  ASSUME IInv, NEW n \in Names, containers[n] # None, containers[n].status = "running",
         NEW c \in Container, c.attempt = containers[n].attempt,
         c.status = "exited" => c.content = "final",
         containers' = [containers EXCEPT ![n] = c],
         UNCHANGED <<images, next, frame>>
  PROVE  IInv'
<1>1. /\ containers' \in [Names -> Container \cup {None}]
      /\ containers'[n] = c /\ c # None
      /\ \A m \in Names : m # n => containers'[m] = containers[m]
  BY NoneAssumption DEF IInv, TypeOK
<1>2. \A m \in Names : /\ containers'[m] # None <=> containers[m] # None
                       /\ containers'[m].attempt = containers[m].attempt
  BY <1>1
<1>3. TypeOK' BY <1>1 DEF IInv, TypeOK, At
<1>4. AttemptInv' BY <1>2 DEF IInv, AttemptInv, Busy, Holds, At
<1>5. \A w \in Workers : Holds(w) => frame[w].name \in Names
  BY DEF IInv, AttemptInv, Holds, Busy, At
<1>6. HeldInv' BY <1>2, <1>5 DEF IInv, HeldInv, Exists, Own, Holds
<1>7. ExitedMeansFinal' BY <1>1 DEF IInv, FrozenInv, ExitedMeansFinal
<1>8. ASSUME NEW w \in Workers PROVE Frozen(w)'
  <2>1. At(w, "commit") => frame[w].name \in Names BY <1>5 DEF Holds, At
  <2>2. At(w, "commit") /\ frame[w].exit_code = 0 => frame[w].name # n
    BY <2>1 DEF IInv, FrozenInv, Frozen, Own
  <2> QED BY <1>1, <2>1, <2>2 DEF IInv, FrozenInv, Frozen, At, Own
<1> QED BY <1>3, <1>4, <1>6, <1>7, <1>8 DEF IInv, FrozenInv

(* The agent changes what its container holds.                             *)
LEMMA AgentWorksStep ==
  ASSUME IInv, NEW n \in Names, AgentWorks(n) PROVE IInv'
<1>1. containers[n] \in Container /\ containers \in [Names -> Container \cup {None}]
  BY DEF IInv, TypeOK, AgentWorks
<1> DEFINE c == [attempt |-> containers[n].attempt, status |-> containers[n].status,
                 content |-> "partial", code |-> containers[n].code]
<1>2. [containers[n] EXCEPT !.content = "partial"] = c
  BY <1>1 DEF Container
<1>3. containers' = [containers EXCEPT ![n] = c]
  BY <1>1, <1>2 DEF AgentWorks
<1>4. c \in Container /\ c.attempt = containers[n].attempt /\ c.status # "exited"
  BY <1>1 DEF Container, Progress, AgentWorks
<1> HIDE DEF c
<1> QED BY <1>3, <1>4, ContainerGoesOn DEF AgentWorks

(* The agent finishes.                                                     *)
LEMMA AgentExitsStep ==
  ASSUME IInv, NEW n \in Names, AgentExits(n) PROVE IInv'
<1>1. containers[n] \in Container /\ containers \in [Names -> Container \cup {None}]
  BY DEF IInv, TypeOK, AgentExits
<1>2. PICK k \in {0, 1} : containers' = [containers EXCEPT
        ![n] = [@ EXCEPT !.status = "exited", !.content = "final", !.code = k]]
  BY DEF AgentExits
<1> DEFINE c == [attempt |-> containers[n].attempt, status |-> "exited",
                 content |-> "final", code |-> k]
<1>3. [containers[n] EXCEPT !.status = "exited", !.content = "final", !.code = k] = c
  <2>1. [containers[n] EXCEPT !.status = "exited"]
          = [attempt |-> containers[n].attempt, status |-> "exited",
             content |-> containers[n].content, code |-> containers[n].code]
    BY <1>1 DEF Container
  <2>2. ASSUME NEW q, q = [attempt |-> containers[n].attempt, status |-> "exited",
                           content |-> containers[n].content, code |-> containers[n].code]
        PROVE  [q EXCEPT !.content = "final"]
                 = [attempt |-> containers[n].attempt, status |-> "exited",
                    content |-> "final", code |-> containers[n].code]
    BY <2>2
  <2>3. ASSUME NEW q, q = [attempt |-> containers[n].attempt, status |-> "exited",
                           content |-> "final", code |-> containers[n].code]
        PROVE  [q EXCEPT !.code = k] = c
    BY <2>3
  <2> QED BY <2>1, <2>2, <2>3, Zenon
<1>4. containers' = [containers EXCEPT ![n] = c]
  BY <1>1, <1>2, <1>3
<1>5. c \in Container /\ c.attempt = containers[n].attempt /\ c.content = "final"
  BY <1>1 DEF Container, Progress
<1> HIDE DEF c
<1> QED BY <1>4, <1>5, ContainerGoesOn DEF AgentExits

(* Removing by hand what an ended attempt left touches no held name.       *)
LEMMA CleanUpStep ==
  ASSUME IInv, NEW n \in Names, CleanUp(n) PROVE IInv'
<1>1. /\ containers' \in [Names -> Container \cup {None}]
      /\ containers'[n] = None
      /\ \A m \in Names : m # n => containers'[m] = containers[m]
  BY DEF IInv, TypeOK, CleanUp
<1>2. UNCHANGED <<images, next, frame>> BY DEF CleanUp
<1>3. \A w \in Workers : Holds(w) => frame[w].name \in Names /\ frame[w].name # n
  BY DEF IInv, AttemptInv, HeldInv, Exists, Own, Holds, Busy, At, CleanUp, InProgress
<1>4. TypeOK' BY <1>1, <1>2 DEF IInv, TypeOK, At
<1>5. AttemptInv' BY <1>1, <1>2 DEF IInv, AttemptInv, Busy, Holds, At
<1>6. HeldInv' BY <1>1, <1>2, <1>3 DEF IInv, HeldInv, Exists, Own, Holds
<1>7. FrozenInv'
  BY <1>1, <1>2, <1>3 DEF IInv, FrozenInv, ExitedMeansFinal, Frozen, At, Own, Holds
<1> QED BY <1>4, <1>5, <1>6, <1>7 DEF IInv

-----------------------------------------------------------------------------
(* The theorems.                                                           *)

(* From its creation to its removal, whatever other processes do and       *)
(* whatever earlier attempts left, the container under the name of an      *)
(* attempt is that attempt's, and what is frozen from it too: docker       *)
(* create refuses a name that is taken (docker.py:280), and nothing but    *)
(* the holder's docker rm gives it free (backend.py:302).                  *)
THEOREM HeldInductive == Spec => []IInv
<1>1. Init => IInv
  <2> SUFFICES ASSUME Init PROVE IInv
    OBVIOUS
  <2>1. Idle \in Frame BY DEF Idle, Frame, Points
  <2>2. \A w \in Workers : frame[w] = Idle BY DEF Init
  <2>3. TypeOK
    <3>1. next \in 1..(MaxAttempts + 1) BY AttemptAssumption DEF Init
    <3>2. \A w \in Workers : /\ At(w, "idle") => frame[w] = Idle
                             /\ frame[w].digest # None <=> frame[w].at \in InTry \cup {"finally"}
                             /\ frame[w].outcome # None <=> At(w, "finally")
      <4>1. ASSUME NEW w \in Workers
            PROVE  frame[w].at = "idle" /\ frame[w].digest = None /\ frame[w].outcome = None
        BY <2>2 DEF Idle
      <4> QED BY <2>2, <4>1 DEF At, InTry
    <3>3. frame \in [Workers -> Frame] BY <2>1 DEF Init
    <3>4. /\ containers \in [Names -> Container \cup {None}]
          /\ images \in [Names -> Image \cup {None}]
      BY DEF Init
    <3> QED BY <3>1, <3>2, <3>3, <3>4 DEF TypeOK
  <2>4. ASSUME NEW w \in Workers PROVE ~Busy(w) /\ ~Holds(w)
    <3>1. frame[w].at = "idle" BY <2>2 DEF Idle
    <3> QED BY <3>1 DEF Busy, Holds, At
  <2>5. AttemptInv /\ HeldInv
    BY <2>4 DEF Init, AttemptInv, HeldInv
  <2>6. FrozenInv
    BY <2>2, NoneAssumption
    DEF Init, FrozenInv, ExitedMeansFinal, Frozen, At, Idle, AttemptResult
  <2> QED BY <2>3, <2>5, <2>6 DEF IInv
<1>2. IInv /\ [Next]_vars => IInv'
  <2> SUFFICES ASSUME IInv, [Next]_vars PROVE IInv'
    OBVIOUS
  <2>1. CASE UNCHANGED vars
    BY <2>1 DEF vars, daemon, IInv, TypeOK, AttemptInv, HeldInv, FrozenInv, ExitedMeansFinal,
                Frozen, Busy, Holds, At, Exists, Own
  <2>2. ASSUME NEW w \in Workers, Step(w) \/ Interrupt(w) \/ Die(w) PROVE IInv'
    BY <2>2, CreateStep, StartStep, ClientReturnsStep, ClientTimesOutStep, CommitStep,
       InspectImageStep, JudgingStep, RemoveContainerStep, DieStep DEF Step
  <2>3. ASSUME NEW w \in Workers, NEW n \in Names, RunAttempt(w, n) PROVE IInv'
    BY <2>3, RunAttemptStep
  <2>4. ASSUME NEW n \in Names, AgentWorks(n) \/ AgentExits(n) \/ CleanUp(n) PROVE IInv'
    BY <2>4, AgentWorksStep, AgentExitsStep, CleanUpStep
  <2> QED BY <2>1, <2>2, <2>3, <2>4 DEF Next
<1> QED BY <1>1, <1>2, PTL DEF Spec

(* The states are of their types.                                          *)
THEOREM StatesTyped == Spec => []TypeOK
<1>1. IInv => TypeOK BY DEF IInv
<1> QED BY <1>1, HeldInductive, PTL

(* An attempt is judged on the state its own container was frozen in, for  *)
(* every number of processes that share names (docker.py:280, 310-316).    *)
THEOREM AttemptsJudgedOnOwnState == Spec => []JudgedOwnState
<1>1. IInv => JudgedOwnState BY DEF IInv, FrozenInv, Frozen, JudgedOwnState
<1> QED BY <1>1, HeldInductive, PTL

(* A valid attempt was judged on the finished work of an agent that exited *)
(* by itself (backend.py:259-301).                                         *)
THEOREM ValidAttemptsFinished == Spec => []ValidMeansFinished
<1>1. IInv => ValidMeansFinished
  <2> SUFFICES ASSUME IInv, NEW w \in Workers, frame[w].outcome \in {"success", "failure"}
               PROVE  frame[w].digest.content = "final"
    BY DEF ValidMeansFinished
  <2>1. frame[w].outcome # None BY NoneAssumption DEF AttemptResult
  <2>2. frame[w].digest # None BY <2>1, FrameOf DEF IInv
  <2> QED BY <2>2 DEF IInv, FrozenInv, Frozen
<1> QED BY <1>1, HeldInductive, PTL

(* A container is removed, or its name taken again, only when the attempt  *)
(* it belongs to is over.                                                  *)
LEMMA ContainersStay ==
  ASSUME IInv, [Next]_vars, NEW n \in Names, NEW a \in Attempt,
         OwnedBy(n, a), InProgress(a), InProgress(a)'
  PROVE  OwnedBy(n, a)'
<1>1. PICK v \in Workers : frame[v].attempt = a
  BY DEF InProgress
<1>2. \A u \in Workers : frame[u].attempt = a => Busy(u)
  BY NoneAssumption DEF IInv, TypeOK, Busy, Idle
<1>3. \A u \in Workers : frame[u].attempt = a => u = v
  BY <1>1, <1>2 DEF IInv, AttemptInv
<1>4. Holds(v) /\ frame[v].name = n
  BY <1>1, <1>2 DEF IInv, AttemptInv, OwnedBy
<1>5. /\ containers \in [Names -> Container \cup {None}] /\ frame \in [Workers -> Frame]
      /\ containers[n] # None /\ containers[n] \in Container /\ containers[n].attempt = a
  BY DEF IInv, TypeOK, OwnedBy
<1>6. CASE containers' = containers
  BY <1>5, <1>6 DEF OwnedBy
<1>7. ASSUME NEW w \in Workers, Create(w), containers' # containers PROVE OwnedBy(n, a)'
  <2>1. frame[w].name # n
    BY <1>5, <1>7 DEF Create, Exists, Own
  <2>2. containers'[n] = containers[n]
    BY <1>5, <1>7, <2>1 DEF Create, CreateOwn
  <2> QED BY <1>5, <2>2 DEF OwnedBy
<1>8. ASSUME NEW w \in Workers, Start(w), containers' # containers PROVE OwnedBy(n, a)'
  <2>1. containers' = [containers EXCEPT ![frame[w].name] =
                          [containers[frame[w].name] EXCEPT !.status = "running"]]
    BY <1>8 DEF Start
  <2>2. [containers[n] EXCEPT !.status = "running"].attempt = a
        /\ [containers[n] EXCEPT !.status = "running"] \in Container
    BY <1>5 DEF Container
  <2>3. containers'[n] \in {containers[n], [containers[n] EXCEPT !.status = "running"]}
    BY <1>5, <2>1
  <2> QED BY <1>5, <2>2, <2>3, NoneAssumption DEF OwnedBy
<1>9. ASSUME NEW w \in Workers, RemoveContainer(w) PROVE OwnedBy(n, a)'
  <2>1. CASE frame[w].name = n
    <3>1. Holds(w) /\ frame[w].attempt = a
      BY <1>5, <1>9, <2>1 DEF RemoveContainer, Holds, At, IInv, HeldInv, Own
    <3>2. frame'[w] = Idle /\ \A u \in Workers : u # w => frame'[u] = frame[u]
      BY <1>5, <1>9 DEF RemoveContainer, End
    <3>3. \A u \in Workers : frame'[u].attempt # a
      BY <1>3, <3>1, <3>2, NoneAssumption DEF Idle
    <3> QED BY <3>3 DEF InProgress
  <2>2. CASE frame[w].name # n
    BY <1>5, <1>9, <2>2 DEF RemoveContainer, OwnedBy
  <2> QED BY <2>1, <2>2
<1>10. ASSUME NEW m \in Names, CleanUp(m) PROVE OwnedBy(n, a)'
  <2>1. m # n
    BY <1>5, <1>10 DEF CleanUp
  <2> QED BY <1>5, <1>10, <2>1 DEF CleanUp, OwnedBy
<1>11. ASSUME NEW m \in Names, AgentWorks(m) PROVE OwnedBy(n, a)'
  <2>1. [containers[n] EXCEPT !.content = "partial"].attempt = a
        /\ [containers[n] EXCEPT !.content = "partial"] \in Container
    BY <1>5 DEF Container, Progress
  <2>2. containers'[n] \in {containers[n], [containers[n] EXCEPT !.content = "partial"]}
    BY <1>5, <1>11 DEF AgentWorks
  <2> QED BY <1>5, <2>1, <2>2, NoneAssumption DEF OwnedBy
<1>12. ASSUME NEW m \in Names, AgentExits(m) PROVE OwnedBy(n, a)'
  <2>1. PICK k \in {0, 1} : containers' = [containers EXCEPT
          ![m] = [@ EXCEPT !.status = "exited", !.content = "final", !.code = k]]
    BY <1>12 DEF AgentExits
  <2> DEFINE c == [attempt |-> a, status |-> "exited", content |-> "final", code |-> k]
  <2>2. [[[containers[n] EXCEPT !.status = "exited"] EXCEPT !.content = "final"] EXCEPT !.code = k] = c
    <3>1. [containers[n] EXCEPT !.status = "exited"]
            = [attempt |-> a, status |-> "exited",
               content |-> containers[n].content, code |-> containers[n].code]
      BY <1>5 DEF Container
    <3>2. ASSUME NEW q, q = [attempt |-> a, status |-> "exited",
                             content |-> containers[n].content, code |-> containers[n].code]
          PROVE  [q EXCEPT !.content = "final"]
                   = [attempt |-> a, status |-> "exited",
                      content |-> "final", code |-> containers[n].code]
      BY <3>2
    <3>3. ASSUME NEW q, q = [attempt |-> a, status |-> "exited",
                             content |-> "final", code |-> containers[n].code]
          PROVE  [q EXCEPT !.code = k] = c
      BY <3>3
    <3> QED BY <3>1, <3>2, <3>3, Zenon
  <2>3. c \in Container /\ c.attempt = a
    BY DEF Container, Progress
  <2>4. containers'[n] \in {containers[n], c}
    <3> HIDE DEF c
    <3> QED BY <1>5, <2>1, <2>2
  <2> HIDE DEF c
  <2> QED BY <1>5, <2>3, <2>4, NoneAssumption DEF OwnedBy
<1> QED
  BY <1>6, <1>7, <1>8, <1>9, <1>10, <1>11, <1>12
  DEF Next, Step, Interrupt, Die, RunAttempt, ClientReturns, ClientTimesOut, Commit,
      InspectImage, ParseEvidence, InspectState, Grade, vars, daemon

(* The container of an attempt stays until the attempt is over, for every  *)
(* number of processes that share names, whatever fails: no docker rm      *)
(* meets another process's container (backend.py:224, 302; docker.py:280). *)
THEOREM ContainersKept == Spec => KeepsItsContainer
<1>1. IInv /\ [Next]_vars =>
        [\A n \in Names, a \in Attempt :
           OwnedBy(n, a) /\ InProgress(a) => OwnedBy(n, a)' \/ ~InProgress(a)']_vars
  BY ContainersStay
<1> QED BY <1>1, HeldInductive, PTL DEF Spec, KeepsItsContainer

-----------------------------------------------------------------------------
(* Part two: an attempt on the host (HostBackend, as MCDockerBackend        *)
(* composes it): its workspace is live, and only what its agent detached    *)
(* can write to it once it is judged.                                       *)

HostPoints == {"idle", "launch", "agent", "parse", "inspect", "grade", "finally"}
HostOutcomes == {"success", "failure", "invalid", "raised"}

HostFrame == [at : HostPoints, attempt : Host!Attempt \cup {None}, exit_code : {None, 0, 1},
          inspected : Host!Content \cup {None}, graded : Host!Content \cup {None},
          outcome : HostOutcomes \cup {None}]

(* What no agent has worked in yet.                                        *)
Prepared == [writers : SUBSET {Host!Setup}, progress : {"untouched"}]

AfterExit == {"final", "late", "later"}

HostTypes ==
  /\ source \in Prepared \cup {None}
  /\ workspaces \in [Host!Attempt -> Host!Content \cup {None}]
  /\ agents \in [Host!Attempt -> {None, Running, 0, 1}]
  /\ background \in [Host!Attempt -> [Host!Kinds -> {"none", "runs", "ended"}]]
  /\ nextHost \in Nat
  /\ hostFrame \in HostFrame

(* An attempt not made yet has nothing.                                    *)
Unmade(a) ==
  workspaces[a] = None /\ agents[a] = None /\ \A k \in Host!Kinds : background[a][k] = "none"

(* Nobody else writes to the workspace of an attempt, and once its agent   *)
(* exited it is what the agent left, or its background processes.          *)
HostSandboxes ==
  /\ \A a \in Host!Attempt :
       workspaces[a] # None =>
         /\ workspaces[a].writers \subseteq {a, Host!Setup}
         /\ agents[a] \in {0, 1} => workspaces[a].progress \in AfterExit
  /\ \A a \in Host!Attempt : a >= nextHost => Unmade(a)

HasDetached(a) == background[a]["detached"] # "none"

(* The attempt under way has its workspace, and, once run_process_tree     *)
(* returned, its agent's exit code and no process with its output open.    *)
HostUnderWay ==
  /\ hostFrame.at # "finally" => hostFrame.outcome = None
  /\ hostFrame.at # "idle" => hostFrame.attempt \in Host!Attempt /\ hostFrame.attempt < nextHost
  /\ hostFrame.at \in {"launch", "agent", "parse", "inspect", "grade"} => Host!Own # None
  /\ hostFrame.at \in {"parse", "inspect", "grade"} =>
       /\ agents[hostFrame.attempt] = hostFrame.exit_code
       /\ ~Host!Runs(hostFrame.attempt, "attached")
  /\ hostFrame.at = "grade" =>
       /\ hostFrame.exit_code = 0
       /\ hostFrame.inspected.progress \in AfterExit
       /\ hostFrame.inspected.writers \subseteq {hostFrame.attempt, Host!Setup}
       /\ Host!Own # hostFrame.inspected => HasDetached(hostFrame.attempt)

HostIInv == HostTypes /\ HostSandboxes /\ HostUnderWay /\ Host!ChangedOnlyByDetached

-----------------------------------------------------------------------------
LEMMA HostFreshIsPrepared == Host!Fresh \in Prepared
BY DEF Host!Fresh, Prepared

LEMMA HostPreparedIsContent ==
  ASSUME NEW p \in Prepared
  PROVE  p \in Host!Content /\ p.writers \subseteq {Host!Setup}
BY DEF Prepared, Host!Content

(* Initially there is no attempt.                                          *)
LEMMA HostInitInv == ASSUME Host!Init PROVE HostIInv
<1>1. HostTypes
  BY HostAssumption DEF Host!Init, HostTypes, Host!Idle, HostFrame, HostPoints
<1>2. HostSandboxes
  BY HostAssumption DEF Host!Init, HostSandboxes, Unmade
<1>3. hostFrame = Host!Idle
  BY DEF Host!Init
<1>4. HostUnderWay /\ Host!ChangedOnlyByDetached
  BY <1>3, HostAssumption DEF HostUnderWay, Host!ChangedOnlyByDetached, Host!Idle
<1> QED BY <1>1, <1>2, <1>4 DEF HostIInv

(* A step that leaves the sandboxes alone.                                 *)
LEMMA HostLeaveStep ==
  ASSUME HostIInv, NEW o \in {"invalid", "raised"}, Host!Leave(o), hostFrame.at # "idle",
         UNCHANGED <<source, workspaces, Host!tree, nextHost>>
  PROVE  HostIInv'
<1>1. hostFrame' \in HostFrame /\ hostFrame'.at = "finally" /\ hostFrame'.outcome = o
      /\ hostFrame'.attempt = hostFrame.attempt
  BY DEF HostIInv, HostTypes, HostFrame, HostPoints, HostOutcomes, Host!Leave
<1>2. HostTypes' /\ HostSandboxes'
  BY <1>1 DEF HostIInv, HostTypes, HostSandboxes, Unmade, Host!tree
<1>3. HostUnderWay' /\ Host!ChangedOnlyByDetached'
  BY <1>1 DEF HostIInv, HostUnderWay, Host!ChangedOnlyByDetached
<1> QED BY <1>2, <1>3 DEF HostIInv

(* What is not prepared yet, or still changed by the setup commands, is no *)
(* attempt's.                                                              *)
LEMMA HostSourceStep ==
  ASSUME HostIInv, source' \in Prepared \cup {None},
         UNCHANGED <<workspaces, Host!tree, nextHost, hostFrame>>
  PROVE  HostIInv'
BY DEF HostIInv, HostTypes, HostSandboxes, Unmade, HostUnderWay, Host!ChangedOnlyByDetached,
       HasDetached, Host!Runs, Host!tree, Host!Own

LEMMA HostSetupWritesInv == ASSUME HostIInv, Host!SetupWrites PROVE HostIInv'
<1>1. source \in Prepared
  BY DEF HostIInv, HostTypes, Host!SetupWrites
<1>2. [source EXCEPT !.writers = source.writers \cup {Host!Setup}] \in Prepared
  BY <1>1 DEF Prepared
<1> QED BY <1>2, HostSourceStep DEF Host!SetupWrites

LEMMA HostCopyInv == ASSUME HostIInv, Host!CopyWorkspace PROVE HostIInv'
<1>1. PICK point \in {"launch", "finally"} :
        hostFrame' = [at |-> point, attempt |-> nextHost, exit_code |-> None, inspected |-> None,
                  graded |-> None, outcome |-> IF point = "finally" THEN "raised" ELSE None]
  BY DEF Host!CopyWorkspace, Host!Idle
<1>2. /\ source \in Prepared /\ nextHost \in Host!Attempt /\ nextHost' = nextHost + 1
      /\ workspaces' = [workspaces EXCEPT ![nextHost] = source]
      /\ source' = source /\ agents' = agents /\ background' = background
  BY DEF Host!CopyWorkspace, HostIInv, HostTypes, Host!tree
<1>3. source \in Host!Content /\ source.writers \subseteq {Host!Setup}
  BY <1>2, HostPreparedIsContent
<1>4. hostFrame' \in HostFrame
  BY <1>1, <1>2 DEF HostFrame, HostPoints, HostOutcomes
<1>5. HostTypes'
  BY <1>2, <1>3, <1>4 DEF HostIInv, HostTypes
<1>6. agents[nextHost] = None
  BY <1>2, HostAssumption DEF HostIInv, HostTypes, HostSandboxes, Unmade, Host!Attempt
<1>7. HostSandboxes'
  BY <1>2, <1>3, <1>6, HostAssumption
     DEF HostIInv, HostTypes, HostSandboxes, Unmade, Host!Attempt
<1>8. workspaces'[nextHost] # None
  BY <1>2, <1>3, HostAssumption DEF HostIInv, HostTypes
<1>9. HostUnderWay' /\ Host!ChangedOnlyByDetached'
  BY <1>1, <1>2, <1>8, HostAssumption
     DEF HostIInv, HostTypes, HostUnderWay, Host!ChangedOnlyByDetached, Host!Own, Host!Attempt
<1> QED BY <1>5, <1>7, <1>9 DEF HostIInv

LEMMA HostLaunchInv == ASSUME HostIInv, Host!LaunchAgent PROVE HostIInv'
<1>1. CASE Host!Leave("invalid") /\ UNCHANGED agents
  BY <1>1, HostLeaveStep DEF Host!LaunchAgent, Host!At, Host!tree
<1>2. CASE agents' = [agents EXCEPT ![hostFrame.attempt] = Running] /\ Host!Goto("agent")
  <2>1. /\ hostFrame.at = "launch" /\ hostFrame.attempt \in Host!Attempt /\ hostFrame.attempt < nextHost
        /\ source' = source /\ workspaces' = workspaces /\ background' = background
        /\ nextHost' = nextHost /\ hostFrame' = [hostFrame EXCEPT !.at = "agent"]
    BY <1>2 DEF Host!LaunchAgent, Host!At, Host!Goto, HostIInv, HostUnderWay
  <2>2. hostFrame' \in HostFrame /\ hostFrame'.at = "agent" /\ hostFrame'.attempt = hostFrame.attempt
        /\ hostFrame'.outcome = hostFrame.outcome
    BY <2>1 DEF HostIInv, HostTypes, HostFrame, HostPoints
  <2>3. HostTypes' /\ HostSandboxes'
    BY <1>2, <2>1, <2>2, HostAssumption
       DEF HostIInv, HostTypes, HostSandboxes, Unmade, Host!Attempt
  <2>4. HostUnderWay' /\ Host!ChangedOnlyByDetached'
    BY <2>1, <2>2, HostAssumption DEF HostIInv, HostUnderWay, Host!ChangedOnlyByDetached, Host!Own
  <2> QED BY <2>3, <2>4 DEF HostIInv
<1> QED BY <1>1, <1>2 DEF Host!LaunchAgent

(* run_process_tree returns when nobody has the agent's output open.       *)
LEMMA HostReturnsInv == ASSUME HostIInv, Host!AgentReturns PROVE HostIInv'
<1>1. /\ hostFrame.at = "agent" /\ hostFrame.attempt \in Host!Attempt
      /\ agents[hostFrame.attempt] \in {None, 0, 1}
      /\ ~Host!Runs(hostFrame.attempt, "attached")
  BY DEF Host!AgentReturns, Host!At, HostIInv, HostTypes, HostUnderWay
<1>2. /\ hostFrame' \in HostFrame /\ hostFrame'.at = "parse" /\ hostFrame'.attempt = hostFrame.attempt
      /\ hostFrame'.exit_code = agents[hostFrame.attempt] /\ hostFrame'.outcome = hostFrame.outcome
  BY <1>1 DEF Host!AgentReturns, HostIInv, HostTypes, HostFrame, HostPoints
<1>3. HostTypes' /\ HostSandboxes'
  BY <1>2 DEF Host!AgentReturns, HostIInv, HostTypes, HostSandboxes, Unmade, Host!tree
<1>4. HostUnderWay' /\ Host!ChangedOnlyByDetached'
  BY <1>1, <1>2, HostAssumption
     DEF Host!AgentReturns, HostIInv, HostUnderWay, Host!ChangedOnlyByDetached, Host!Own,
         Host!Runs, Host!tree
<1> QED BY <1>3, <1>4 DEF HostIInv

(* At the timeout nothing of the tree is left.                             *)
LEMMA HostTimesOutInv == ASSUME HostIInv, Host!AgentTimesOut PROVE HostIInv'
<1> DEFINE a == hostFrame.attempt
<1>1. /\ hostFrame.at = "agent" /\ a \in Host!Attempt /\ a < nextHost
      /\ source' = source /\ workspaces' = workspaces /\ nextHost' = nextHost
      /\ Host!KillTree(a)
  BY DEF Host!AgentTimesOut, Host!At, HostIInv, HostUnderWay
<1>2. /\ hostFrame' \in HostFrame /\ hostFrame'.at = "parse" /\ hostFrame'.attempt = a
      /\ hostFrame'.exit_code = None /\ hostFrame'.outcome = hostFrame.outcome
  BY <1>1 DEF Host!AgentTimesOut, HostIInv, HostTypes, HostFrame, HostPoints
<1>3. /\ agents' \in [Host!Attempt -> {None, Running, 0, 1}] /\ agents'[a] = None
      /\ background' \in [Host!Attempt -> [Host!Kinds -> {"none", "runs", "ended"}]]
      /\ background'[a]["attached"] # "runs"
      /\ \A b \in Host!Attempt : b # a => agents'[b] = agents[b] /\ background'[b] = background[b]
  <2> DEFINE killed == [k \in Host!Kinds |->
                          IF background[a][k] = "runs" THEN "ended" ELSE background[a][k]]
  <2>1. agents' = [agents EXCEPT ![a] = None] /\ background' = [background EXCEPT ![a] = killed]
    BY <1>1 DEF Host!KillTree, Host!Runs
  <2>2. killed \in [Host!Kinds -> {"none", "runs", "ended"}] /\ killed["attached"] # "runs"
    BY <1>1 DEF HostIInv, HostTypes, Host!Kinds
  <2> HIDE DEF killed
  <2> QED BY <1>1, <2>1, <2>2 DEF HostIInv, HostTypes
<1> HIDE DEF a
<1>4. HostTypes'
  BY <1>1, <1>2, <1>3 DEF HostIInv, HostTypes
<1>5. HostSandboxes'
  <2>1. a \in Nat /\ nextHost \in Nat /\ ~(a >= nextHost)
    BY <1>1, HostAssumption DEF HostIInv, HostTypes, Host!Attempt
  <2>2. ASSUME NEW b \in Host!Attempt, b >= nextHost
        PROVE  Unmade(b)'
    BY <1>1, <1>3, <2>1, <2>2 DEF HostIInv, HostSandboxes, Unmade
  <2>3. ASSUME NEW b \in Host!Attempt, workspaces'[b] # None
        PROVE  /\ workspaces'[b].writers \subseteq {b, Host!Setup}
               /\ agents'[b] \in {0, 1} => workspaces'[b].progress \in AfterExit
    BY <1>1, <1>3, <2>3, HostAssumption DEF HostIInv, HostSandboxes
  <2> QED BY <1>1, <2>2, <2>3 DEF HostSandboxes
<1>6. HostUnderWay' /\ Host!ChangedOnlyByDetached'
  BY <1>1, <1>2, <1>3, HostAssumption
     DEF HostIInv, HostUnderWay, Host!ChangedOnlyByDetached, Host!Own, Host!Runs, a
<1> QED BY <1>4, <1>5, <1>6 DEF HostIInv

LEMMA HostParseInv == ASSUME HostIInv, Host!ParseEvidence PROVE HostIInv'
<1>1. CASE Host!Leave("invalid")
  BY <1>1, HostLeaveStep DEF Host!ParseEvidence, Host!At
<1>2. CASE Host!Goto("inspect")
  <2>1. /\ hostFrame.at = "parse" /\ hostFrame' \in HostFrame /\ hostFrame'.at = "inspect"
        /\ hostFrame'.attempt = hostFrame.attempt /\ hostFrame'.exit_code = hostFrame.exit_code
        /\ hostFrame'.outcome = hostFrame.outcome
    BY <1>2 DEF Host!ParseEvidence, Host!At, Host!Goto, HostIInv, HostTypes, HostFrame, HostPoints
  <2>2. HostTypes' /\ HostSandboxes'
    BY <2>1 DEF Host!ParseEvidence, HostIInv, HostTypes, HostSandboxes, Unmade, Host!tree
  <2>3. HostUnderWay' /\ Host!ChangedOnlyByDetached'
    BY <2>1, HostAssumption
       DEF Host!ParseEvidence, HostIInv, HostUnderWay, Host!ChangedOnlyByDetached, Host!Own,
           Host!Runs, Host!tree
  <2> QED BY <2>2, <2>3 DEF HostIInv
<1> QED BY <1>1, <1>2 DEF Host!ParseEvidence

(* The workspace of an agent that exited with 0.                           *)
LEMMA HostOwnWork ==
  ASSUME HostIInv, hostFrame.at \in {"inspect", "grade"}, hostFrame.exit_code = 0
  PROVE  /\ hostFrame.attempt \in Host!Attempt /\ agents[hostFrame.attempt] = 0
         /\ Host!Own \in Host!Content /\ Host!Own.progress \in AfterExit
         /\ Host!Own.writers \subseteq {hostFrame.attempt, Host!Setup}
<1>1. hostFrame.attempt \in Host!Attempt /\ agents[hostFrame.attempt] = 0 /\ Host!Own # None
  BY DEF HostIInv, HostUnderWay
<1> QED BY <1>1 DEF HostIInv, HostTypes, HostSandboxes, Host!Own

(* What is inspected is what an agent that exited with 0 left, or what its *)
(* background processes made of it.                                        *)
LEMMA HostInspectInv == ASSUME HostIInv, Host!InspectState PROVE HostIInv'
<1>1. CASE Host!Leave("raised") \/ Host!Leave("invalid")
  BY <1>1, HostLeaveStep DEF Host!InspectState, Host!At
<1>2. CASE hostFrame.exit_code = 0 /\ hostFrame' = [hostFrame EXCEPT !.at = "grade", !.inspected = Host!Own]
  <2>1. hostFrame.at = "inspect"
    BY DEF Host!InspectState, Host!At
  <2>2. /\ hostFrame' \in HostFrame /\ hostFrame'.at = "grade" /\ hostFrame'.attempt = hostFrame.attempt
        /\ hostFrame'.exit_code = 0 /\ hostFrame'.inspected = Host!Own
        /\ hostFrame'.outcome = hostFrame.outcome
    BY <1>2, <2>1, HostOwnWork DEF HostIInv, HostTypes, HostFrame, HostPoints
  <2>3. HostTypes' /\ HostSandboxes'
    BY <2>2 DEF Host!InspectState, HostIInv, HostTypes, HostSandboxes, Unmade, Host!tree
  <2>4. Host!Own' = Host!Own
    BY <2>2 DEF Host!InspectState, Host!Own
  <2>5. HostUnderWay'
    BY <1>2, <2>1, <2>2, <2>4, HostOwnWork, HostAssumption
       DEF Host!InspectState, HostIInv, HostUnderWay, Host!Runs, Host!tree
  <2>6. Host!ChangedOnlyByDetached'
    BY <2>1, <2>2, HostAssumption DEF HostIInv, HostUnderWay, Host!ChangedOnlyByDetached
  <2> QED BY <2>3, <2>5, <2>6 DEF HostIInv
<1> QED BY <1>1, <1>2 DEF Host!InspectState, Host!Rejected

(* What is graded is what was inspected, if the agent detached nothing.    *)
LEMMA HostGradeInv == ASSUME HostIInv, Host!Grade PROVE HostIInv'
<1>1. CASE Host!Leave("raised") \/ Host!Leave("invalid")
  BY <1>1, HostLeaveStep DEF Host!Grade, Host!At
<1>2. CASE \E o \in {"success", "failure"} :
             hostFrame' = [hostFrame EXCEPT !.at = "finally", !.graded = Host!Own, !.outcome = o]
  <2>1. PICK o \in {"success", "failure"} :
          hostFrame' = [hostFrame EXCEPT !.at = "finally", !.graded = Host!Own, !.outcome = o]
    BY <1>2
  <2>2. /\ hostFrame.at = "grade" /\ hostFrame.exit_code = 0 /\ hostFrame.attempt < nextHost
        /\ hostFrame.inspected.progress \in AfterExit
        /\ hostFrame.inspected.writers \subseteq {hostFrame.attempt, Host!Setup}
        /\ Host!Own # hostFrame.inspected => HasDetached(hostFrame.attempt)
    BY DEF Host!Grade, Host!At, HostIInv, HostUnderWay
  <2>3. /\ hostFrame' \in HostFrame /\ hostFrame'.at = "finally" /\ hostFrame'.attempt = hostFrame.attempt
        /\ hostFrame'.graded = Host!Own /\ hostFrame'.inspected = hostFrame.inspected
    BY <2>1, <2>2, HostOwnWork DEF HostIInv, HostTypes, HostFrame, HostPoints, HostOutcomes
  <2>4. HostTypes' /\ HostSandboxes'
    BY <2>3 DEF Host!Grade, HostIInv, HostTypes, HostSandboxes, Unmade, Host!tree
  <2>5. HostUnderWay'
    BY <2>2, <2>3, HostOwnWork DEF Host!Grade, HostUnderWay
  <2>6. Host!ChangedOnlyByDetached'
    BY <2>2, <2>3, HostOwnWork
       DEF Host!Grade, Host!ChangedOnlyByDetached, HasDetached, AfterExit, Host!tree
  <2> QED BY <2>4, <2>5, <2>6 DEF HostIInv
<1> QED BY <1>1, <1>2 DEF Host!Grade

LEMMA HostIdleAgain ==
  ASSUME HostIInv, hostFrame' = Host!Idle, Host!tree' = Host!tree, nextHost' = nextHost,
         source' \in {None, source},
         \A a \in Host!Attempt : workspaces'[a] \in {workspaces[a], None},
         workspaces' \in [Host!Attempt -> Host!Content \cup {None}]
  PROVE  HostIInv'
<1>1. hostFrame' \in HostFrame /\ hostFrame'.at = "idle" /\ hostFrame'.outcome = None
  BY DEF Host!Idle, HostFrame, HostPoints
<1>2. HostTypes' /\ HostSandboxes'
  BY <1>1, HostAssumption DEF HostIInv, HostTypes, HostSandboxes, Unmade, Host!tree
<1>3. HostUnderWay' /\ Host!ChangedOnlyByDetached'
  BY <1>1, HostAssumption DEF HostUnderWay, Host!ChangedOnlyByDetached
<1> QED BY <1>2, <1>3 DEF HostIInv

LEMMA HostRemoveInv == ASSUME HostIInv, Host!RemoveRoot PROVE HostIInv'
<1>1. hostFrame.attempt \in Host!Attempt
  BY DEF Host!RemoveRoot, Host!At, HostIInv, HostUnderWay
<1>2. /\ workspaces' \in [Host!Attempt -> Host!Content \cup {None}]
      /\ \A a \in Host!Attempt : workspaces'[a] \in {workspaces[a], None}
  BY <1>1 DEF Host!RemoveRoot, HostIInv, HostTypes
<1>3. source' \in {None, source} /\ hostFrame' = Host!Idle /\ Host!tree' = Host!tree /\ nextHost' = nextHost
  BY DEF Host!RemoveRoot, HostIInv, HostTypes
<1> QED BY <1>2, <1>3, HostIdleAgain

LEMMA HostDieInv == ASSUME HostIInv, Host!Die PROVE HostIInv'
<1>1. /\ hostFrame' = Host!Idle /\ source' = None /\ Host!tree' = Host!tree /\ nextHost' = nextHost
      /\ workspaces' = workspaces
  BY DEF Host!Die
<1>2. /\ workspaces' \in [Host!Attempt -> Host!Content \cup {None}]
      /\ \A a \in Host!Attempt : workspaces'[a] \in {workspaces[a], None}
  BY <1>1 DEF HostIInv, HostTypes
<1> QED BY <1>1, <1>2, HostIdleAgain

(* The processes of an attempt write to its workspace only; while it is    *)
(* graded, only a detached one does.                                       *)
LEMMA HostWritesInv ==
  ASSUME HostIInv, NEW a \in Host!Attempt, NEW p \in {"partial", "late", "later"},
         agents[a] \in {0, 1} => p \in AfterExit,
         hostFrame.at = "grade" /\ hostFrame.attempt = a => HasDetached(a),
         workspaces[a] # None,
         workspaces' = [workspaces EXCEPT
           ![a] = [writers |-> workspaces[a].writers \cup {a}, progress |-> p]],
         UNCHANGED <<source, Host!tree, nextHost, hostFrame>>
  PROVE  HostIInv'
<1>1. [writers |-> workspaces[a].writers \cup {a}, progress |-> p] \in Host!Content
  BY DEF HostIInv, HostTypes, Host!Content
<1>2. /\ workspaces'[a] = [writers |-> workspaces[a].writers \cup {a}, progress |-> p]
      /\ \A b \in Host!Attempt : b # a => workspaces'[b] = workspaces[b]
      /\ workspaces' \in [Host!Attempt -> Host!Content \cup {None}]
  BY <1>1 DEF HostIInv, HostTypes
<1>3. /\ workspaces'[a] # None /\ workspaces'[a].writers \subseteq {a, Host!Setup}
      /\ workspaces'[a].progress = p
  BY <1>1, <1>2, HostAssumption DEF HostIInv, HostSandboxes
<1>4. a < nextHost
  <2>1. a \in Nat /\ nextHost \in Nat
    BY HostAssumption DEF HostIInv, HostTypes, Host!Attempt
  <2>2. ~(a >= nextHost)
    BY DEF HostIInv, HostSandboxes, Unmade
  <2> QED BY <2>1, <2>2
<1>5. HostTypes' /\ HostSandboxes'
  BY <1>2, <1>3, <1>4, HostAssumption
     DEF HostIInv, HostTypes, HostSandboxes, Unmade, Host!tree, Host!Attempt
<1>6. HostUnderWay'
  BY <1>2, <1>3 DEF HostIInv, HostUnderWay, HasDetached, Host!Own, Host!Runs, Host!tree
<1>7. Host!ChangedOnlyByDetached'
  BY DEF HostIInv, Host!ChangedOnlyByDetached, Host!tree
<1> QED BY <1>5, <1>6, <1>7 DEF HostIInv

LEMMA HostBackgroundWritesInv ==
  ASSUME HostIInv, NEW a \in Host!Attempt, Host!BackgroundWrites(a) PROVE HostIInv'
<1>1. PICK p \in {"partial", "late", "later"} :
        /\ agents[a] # Running => p # "partial"
        /\ workspaces' = [workspaces EXCEPT
             ![a] = [writers |-> workspaces[a].writers \cup {a}, progress |-> p]]
  BY DEF Host!BackgroundWrites
<1>2. agents[a] \in {0, 1} => p \in AfterExit
  BY <1>1, HostAssumption DEF AfterExit
<1>3. hostFrame.at = "grade" /\ hostFrame.attempt = a => HasDetached(a)
  BY DEF Host!BackgroundWrites, HostIInv, HostUnderWay, Host!Runs, HasDetached, Host!Kinds
<1> QED BY <1>1, <1>2, <1>3, HostWritesInv DEF Host!BackgroundWrites

(* A background process is started, or ends.                               *)
LEMMA HostBackgroundStep ==
  ASSUME HostIInv, NEW a \in Host!Attempt, a < nextHost,
         NEW kind \in Host!Kinds, NEW s \in {"runs", "ended"},
         background' = [background EXCEPT ![a][kind] = s],
         hostFrame.at \in {"parse", "inspect", "grade"} /\ hostFrame.attempt = a => s = "ended",
         UNCHANGED <<source, workspaces, agents, nextHost, hostFrame>>
  PROVE  HostIInv'
<1>1. /\ background' \in [Host!Attempt -> [Host!Kinds -> {"none", "runs", "ended"}]]
      /\ \A b \in Host!Attempt : b # a => background'[b] = background[b]
      /\ background'[a] = [background[a] EXCEPT ![kind] = s]
  BY DEF HostIInv, HostTypes
<1>2. /\ background'[a][kind] = s
      /\ \A k \in Host!Kinds : k # kind => background'[a][k] = background[a][k]
  BY <1>1 DEF HostIInv, HostTypes
<1>3. \A b \in Host!Attempt : HasDetached(b) => HasDetached(b)'
  BY <1>1, <1>2 DEF HasDetached, Host!Kinds
<1>4. HostTypes'
  BY <1>1 DEF HostIInv, HostTypes
<1>5. HostSandboxes'
  BY <1>1, HostAssumption DEF HostIInv, HostTypes, HostSandboxes, Unmade, Host!Attempt
<1>6. hostFrame.at \in {"parse", "inspect", "grade"} => ~Host!Runs(hostFrame.attempt, "attached")'
  BY <1>1, <1>2 DEF HostIInv, HostUnderWay, Host!Runs, Host!Kinds
<1>7. HostUnderWay'
  BY <1>3, <1>6 DEF HostIInv, HostUnderWay, Host!Own
<1>8. Host!ChangedOnlyByDetached'
  BY <1>3, HostAssumption
     DEF HostIInv, HostUnderWay, Host!ChangedOnlyByDetached, HasDetached
<1> QED BY <1>4, <1>5, <1>7, <1>8 DEF HostIInv

LEMMA HostForksInv == ASSUME HostIInv, NEW a \in Host!Attempt, Host!Forks(a) PROVE HostIInv'
<1>1. PICK kind \in Host!Kinds : background' = [background EXCEPT ![a][kind] = "runs"]
  BY DEF Host!Forks
<1>2. agents[a] = Running \/ background[a]["attached"] = "runs"
  BY DEF Host!Forks, Host!Runs
<1>3. a < nextHost
  BY <1>2, HostAssumption
     DEF HostIInv, HostTypes, HostSandboxes, Unmade, Host!Attempt, Host!Kinds
<1>4. ~(hostFrame.at \in {"parse", "inspect", "grade"} /\ hostFrame.attempt = a)
  BY <1>2, HostAssumption
     DEF HostIInv, HostTypes, HostUnderWay, HostFrame, Host!Runs
<1> QED BY <1>1, <1>3, <1>4, HostBackgroundStep DEF Host!Forks

LEMMA HostBackgroundEndsInv ==
  ASSUME HostIInv, NEW a \in Host!Attempt, Host!BackgroundEnds(a) PROVE HostIInv'
<1>1. PICK kind \in Host!Kinds : /\ background[a][kind] = "runs"
                                 /\ background' = [background EXCEPT ![a][kind] = "ended"]
  BY DEF Host!BackgroundEnds, Host!Runs
<1>2. a < nextHost
  BY <1>1, HostAssumption
     DEF HostIInv, HostTypes, HostSandboxes, Unmade, Host!Attempt
<1> QED BY <1>1, <1>2, HostBackgroundStep DEF Host!BackgroundEnds

LEMMA HostExitsInv == ASSUME HostIInv, NEW a \in Host!Attempt, Host!AgentExits(a) PROVE HostIInv'
<1>1. PICK c \in {0, 1} : agents' = [agents EXCEPT ![a] = c]
  BY DEF Host!AgentExits
<1>2. /\ agents[a] = Running /\ UNCHANGED <<source, background, nextHost, hostFrame>>
      /\ workspaces' = [workspaces EXCEPT ![a] =
           IF workspaces[a] = None THEN None ELSE [workspaces[a] EXCEPT !.progress = "final"]]
  BY DEF Host!AgentExits
<1>3. workspaces[a] # None =>
        /\ [workspaces[a] EXCEPT !.progress = "final"] \in Host!Content
        /\ [workspaces[a] EXCEPT !.progress = "final"].progress = "final"
        /\ [workspaces[a] EXCEPT !.progress = "final"].writers = workspaces[a].writers
  BY DEF HostIInv, HostTypes, Host!Content
<1>4. /\ workspaces' \in [Host!Attempt -> Host!Content \cup {None}]
      /\ \A b \in Host!Attempt : b # a => workspaces'[b] = workspaces[b]
      /\ workspaces'[a] # None => workspaces[a] # None /\ workspaces'[a].progress = "final"
           /\ workspaces'[a].writers \subseteq {a, Host!Setup}
      /\ workspaces[a] # None => workspaces'[a] # None
  BY <1>2, <1>3, HostAssumption DEF HostIInv, HostTypes, HostSandboxes
<1>5. /\ agents' \in [Host!Attempt -> {None, Running, 0, 1}]
      /\ \A b \in Host!Attempt : b # a => agents'[b] = agents[b]
  BY <1>1 DEF HostIInv, HostTypes
<1>6. a < nextHost
  BY <1>2, HostAssumption DEF HostIInv, HostTypes, HostSandboxes, Unmade, Host!Attempt
<1>7. HostTypes'
  BY <1>2, <1>4, <1>5 DEF HostIInv, HostTypes
<1>8. HostSandboxes'
  BY <1>2, <1>4, <1>5, <1>6, HostAssumption
     DEF HostIInv, HostTypes, HostSandboxes, Unmade, AfterExit, Host!Attempt
<1>9. hostFrame.at \in {"parse", "inspect", "grade"} => hostFrame.attempt # a
  BY <1>2, HostAssumption DEF HostIInv, HostTypes, HostUnderWay, HostFrame
<1>10. HostUnderWay'
  BY <1>2, <1>4, <1>5, <1>9 DEF HostIInv, HostUnderWay, Host!Own, Host!Runs, HasDetached
<1>11. hostFrame.outcome \in {"success", "failure"} =>
         hostFrame.attempt # a /\ hostFrame.attempt \in Host!Attempt
  BY <1>2, HostAssumption DEF HostIInv, HostUnderWay, Host!ChangedOnlyByDetached
<1>12. Host!ChangedOnlyByDetached'
  BY <1>2, <1>5, <1>11 DEF HostIInv, Host!ChangedOnlyByDetached
<1> QED BY <1>7, <1>8, <1>10, <1>12 DEF HostIInv

-----------------------------------------------------------------------------
LEMMA HostNextInv == ASSUME HostIInv, [Host!Next]_hostVars PROVE HostIInv'
<1>1. CASE Host!Prepare
  BY <1>1, HostFreshIsPrepared, HostSourceStep DEF Host!Prepare
<1>2. CASE Host!CopyWorkspace BY <1>2, HostCopyInv
<1>3. CASE Host!LaunchAgent BY <1>3, HostLaunchInv
<1>4. CASE Host!AgentReturns BY <1>4, HostReturnsInv
<1>5. CASE Host!AgentTimesOut BY <1>5, HostTimesOutInv
<1>6. CASE Host!ParseEvidence BY <1>6, HostParseInv
<1>7. CASE Host!InspectState BY <1>7, HostInspectInv
<1>8. CASE Host!Grade BY <1>8, HostGradeInv
<1>9. CASE Host!Interrupt BY <1>9, HostLeaveStep DEF Host!Interrupt
<1>10. CASE Host!RemoveRoot BY <1>10, HostRemoveInv
<1>11. CASE Host!Die BY <1>11, HostDieInv
<1>12. CASE Host!SetupWrites BY <1>12, HostSetupWritesInv
<1>13. ASSUME NEW a \in Host!Attempt, Host!AgentWrites(a) PROVE HostIInv'
  <2>1. /\ agents[a] \notin {0, 1}
        /\ ~(hostFrame.at = "grade" /\ hostFrame.attempt = a)
    BY <1>13, HostAssumption DEF Host!AgentWrites, HostIInv, HostUnderWay
  <2> QED BY <1>13, <2>1, HostWritesInv DEF Host!AgentWrites
<1>14. ASSUME NEW a \in Host!Attempt, Host!Forks(a) PROVE HostIInv'
  BY <1>14, HostForksInv
<1>15. ASSUME NEW a \in Host!Attempt, Host!AgentExits(a) PROVE HostIInv'
  BY <1>15, HostExitsInv
<1>16. ASSUME NEW a \in Host!Attempt, Host!BackgroundWrites(a) PROVE HostIInv'
  BY <1>16, HostBackgroundWritesInv
<1>17. ASSUME NEW a \in Host!Attempt, Host!BackgroundEnds(a) PROVE HostIInv'
  BY <1>17, HostBackgroundEndsInv
<1>18. CASE UNCHANGED hostVars
  BY <1>18, HostSourceStep DEF HostIInv, HostTypes, hostVars, Host!tree
<1> QED BY <1>1, <1>2, <1>3, <1>4, <1>5, <1>6, <1>7, <1>8, <1>9, <1>10, <1>11, <1>12,
           <1>13, <1>14, <1>15, <1>16, <1>17, <1>18 DEF Host!Next

(* The inductive invariant of the composition: nobody but the processes of  *)
(* an attempt writes to its workspace, the attempt under way has the exit   *)
(* code of its own agent and no process with its output open any more, and  *)
(* while it is graded only what the agent detached still writes             *)
(* (host_backend.py:189-293, host.py:79-84, process.py:76-85).              *)
THEOREM SandboxesHold == MCSpec => []HostIInv
<1>1. MCInit => HostIInv
  BY HostInitInv DEF MCInit
<1>2. HostIInv /\ [MCNext]_MCVars => HostIInv'
  BY HostNextInv DEF MCNext, MCVars
<1> QED  BY <1>1, <1>2, PTL DEF MCSpec

(* An attempt on the host is judged on the work of its own agent, and what  *)
(* is graded differs from what was inspected only if the agent detached a   *)
(* process, for every number of attempts (host_backend.py:189-293).         *)
THEOREM HostAttemptsJudged == MCSpec => []ChangedOnlyByDetached
<1>1. HostIInv => ChangedOnlyByDetached
  BY DEF HostIInv, ChangedOnlyByDetached
<1> QED  BY <1>1, SandboxesHold, PTL
=============================================================================
