------------------------- MODULE VersionBisectProofs -------------------------
(***************************************************************************)
(* Proofs about what comes of a series of checks.  A scan for the first    *)
(* bad release, for every number of releases: what the summary on disk     *)
(* claims is true of every published release, and the scan keeps the       *)
(* promise of VersionBisectSpec, wherever it is cut short.  And the cost   *)
(* estimate, for every history of checks and every rate catalog: it is     *)
(* honest.                                                                 *)
(***************************************************************************)
EXTENDS VersionBisect, Pricing, FiniteSetTheorems, WellFoundedInduction, TLAPS

(* What a summary tells of a list: the first n of it passed, and the scan  *)
(* goes on, ended with the list, or ended with another verdict for the     *)
(* next one.                                                               *)
GoesOn(p, list, n) ==
  /\ Len(p.steps) = n /\ p.first_bad = None
  /\ p.stop_reason = None \/ (p.stop_reason = "NO_BAD_FOUND" /\ n = Len(list))

EndsWith(p, list, n, verdict) ==
  /\ n < Len(list) /\ Len(p.steps) = n + 1
  /\ p.steps[n + 1] = [version |-> list[n + 1], verdict |-> verdict]
  /\ p.first_bad = IF verdict = "BLOCK" THEN list[n + 1] ELSE None
  /\ p.stop_reason = StopAfter(verdict)

Tells(p, list, from, n) ==
  /\ \A i \in 1..n : p.steps[i] = [version |-> list[i], verdict |-> "PASS"]
  /\ p.last_known_good = IF n = 0 THEN from ELSE list[n]
  /\ GoesOn(p, list, n) \/ \E verdict \in Verdicts \ {"PASS"} : EndsWith(p, list, n, verdict)

True(p, list, from) ==
  p \in BisectSummary /\ \E n \in 0..Len(list) : Tells(p, list, from, n)

Scanned == Payload(steps, last_known_good, first_bad, stop_reason)

Types ==
  /\ baseline \in Version /\ upper \in Version /\ catalog \in SUBSET Version
  /\ at \in {"start", "check", "save", "last_save", "returned", "raised"}

(* The scan's variables are always true; the summary is them, or lags by   *)
(* one verdict, or by the conclusion.                                      *)
Unstarted ==
  at = "start" => steps = <<>> /\ first_bad = None /\ stop_reason = None /\ summary = None

OnDisk == summary # None => True(summary, Candidates, baseline)

InMemory ==
  at \in {"check", "save", "last_save"} =>
    summary # None /\ summary.stop_reason = None /\ True(Scanned, Candidates, baseline)

UpToDate == at = "check" => summary = Scanned

AVerdictAhead ==
  at = "save" =>
    \E step \in BisectStep :
      /\ steps = Append(summary.steps, step)
      /\ stop_reason = StopAfter(step.verdict)
      /\ Len(summary.steps) < Len(Candidates)

TheConclusionAhead ==
  at = "last_save" =>
    /\ stop_reason = "NO_BAD_FOUND"
    /\ steps = summary.steps /\ Len(steps) = Len(Candidates)

(* The inductive invariant.                                                *)
IInv ==
  /\ Types /\ Unstarted /\ OnDisk /\ InMemory /\ UpToDate
  /\ AVerdictAhead /\ TheConclusionAhead

-----------------------------------------------------------------------------
(* Sorting.                                                                *)

LEMMA VersionsFinite ==
  ASSUME NEW S \in SUBSET Version
  PROVE  IsFiniteSet(S) /\ Cardinality(S) \in Nat /\ S \subseteq Nat
<1>1. IsFiniteSet(Version) /\ Version \subseteq Nat
  BY BisectAssumption, FS_Interval DEF Version
<1>2. IsFiniteSet(S)
  BY <1>1, FS_Subset
<1> QED  BY <1>1, <1>2, FS_CardinalityType

(* Those that are not newer than a version.                                *)
UpTo(S, v) == {w \in S : w <= v}

LEMMA UpToGrows ==
  ASSUME NEW S \in SUBSET Version, NEW v \in S, NEW u \in S, v < u
  PROVE  /\ UpTo(S, v) \in SUBSET UpTo(S, u)
         /\ Cardinality(UpTo(S, v)) < Cardinality(UpTo(S, u))
<1>1. S \subseteq Nat /\ IsFiniteSet(S)
  BY VersionsFinite
<1>2. ASSUME NEW w \in UpTo(S, v) PROVE w \in UpTo(S, u)
  <2>1. w \in Nat /\ v \in Nat /\ u \in Nat /\ w \in S /\ w <= v
    BY <1>1, <1>2 DEF UpTo
  <2>2. w <= u
    BY <2>1
  <2> QED  BY <2>1, <2>2 DEF UpTo
<1>3. u \in UpTo(S, u) /\ u \notin UpTo(S, v)
  <2>1. u \in Nat /\ v \in Nat /\ u <= u /\ ~(u <= v)
    BY <1>1
  <2> QED  BY <2>1 DEF UpTo
<1>4. UpTo(S, v) \in SUBSET UpTo(S, u) /\ UpTo(S, u) \in SUBSET S
  BY <1>2 DEF UpTo
<1>5. IsFiniteSet(UpTo(S, u))
  BY <1>1, <1>4, FS_Subset
<1>6. /\ Cardinality(UpTo(S, v)) <= Cardinality(UpTo(S, u))
      /\ Cardinality(UpTo(S, v)) = Cardinality(UpTo(S, u)) => UpTo(S, v) = UpTo(S, u)
  BY <1>4, <1>5, FS_Subset
<1>7. IsFiniteSet(UpTo(S, v)) /\ Cardinality(UpTo(S, v)) \in Nat /\ Cardinality(UpTo(S, u)) \in Nat
  BY <1>4, <1>5, FS_Subset, FS_CardinalityType
<1>8. UpTo(S, v) # UpTo(S, u)
  BY <1>3
<1> QED  BY <1>4, <1>6, <1>7, <1>8

LEMMA UpToCounts ==
  ASSUME NEW S \in SUBSET Version, NEW v \in S
  PROVE  Cardinality(UpTo(S, v)) \in 1..Cardinality(S)
<1>1. S \subseteq Nat /\ IsFiniteSet(S) /\ Cardinality(S) \in Nat
  BY VersionsFinite
<1>2. v \in Nat /\ v <= v
  BY <1>1
<1>3. UpTo(S, v) \in SUBSET S /\ v \in UpTo(S, v)
  BY <1>2 DEF UpTo
<1>4. IsFiniteSet(UpTo(S, v)) /\ Cardinality(UpTo(S, v)) <= Cardinality(S)
  BY <1>1, <1>3, FS_Subset
<1>5. Cardinality(UpTo(S, v)) \in Nat
  BY <1>4, FS_CardinalityType
<1>6. Cardinality(UpTo(S, v)) # 0
  BY <1>3, <1>4, FS_EmptySet
<1> QED  BY <1>1, <1>4, <1>5, <1>6

(* Each place of the list has one version: the number of those that are    *)
(* not newer counts the versions through.                                  *)
LEMMA RanksCount ==
  ASSUME NEW S \in SUBSET Version, NEW i \in 1..Cardinality(S)
  PROVE  \E v \in S : Cardinality(UpTo(S, v)) = i
<1> DEFINE n == Cardinality(S)
           rank == [v \in S |-> Cardinality(UpTo(S, v))]
<1>1. IsFiniteSet(S) /\ n \in Nat /\ S \subseteq Nat
  BY VersionsFinite
<1>2. \A v \in S : rank[v] \in 1..n
  BY UpToCounts
<1>3. ASSUME NEW v \in S, NEW u \in S, rank[v] = rank[u], v # u PROVE FALSE
  <2>1. (v < u \/ u < v) /\ rank[v] \in Nat /\ rank[u] \in Nat
    BY <1>1, <1>2, <1>3
  <2>2. CASE v < u
    <3>1. rank[v] < rank[u]
      BY <2>2, UpToGrows
    <3> QED  BY <2>1, <3>1, <1>3
  <2>3. CASE u < v
    <3>1. rank[u] < rank[v]
      BY <2>3, UpToGrows
    <3> QED  BY <2>1, <3>1, <1>3
  <2> QED  BY <2>1, <2>2, <2>3
<1>4. rank \in [S -> 1..n]
  BY <1>2
<1>5. rank \in Injection(S, 1..n)
  <2> HIDE DEF rank
  <2> QED  BY <1>3, <1>4 DEF Injection, IsInjective
<1>6. IsFiniteSet(1..n) /\ Cardinality(1..n) = n
  <2>1. 1 \in Int /\ n \in Int /\ n - 1 + 1 = n /\ (1 > n => n = 0)
    BY <1>1
  <2> QED  BY <2>1, FS_Interval
<1>7. rank \in Surjection(S, 1..n)
  <2> HIDE DEF rank
  <2> QED  BY <1>1, <1>5, <1>6, FS_Injection
<1>8. PICK v \in S : rank[v] = i
  <2> HIDE DEF rank
  <2> QED  BY <1>7 DEF Surjection
<1> QED  BY <1>8

(* A set sorted by version is a list of it: strictly ascending, with every *)
(* version of the set (commands.py:96-100).                                *)
LEMMA OldestFirstSorts ==
  ASSUME NEW S \in SUBSET Version
  PROVE  /\ OldestFirst(S) \in [1..Cardinality(S) -> S] /\ OldestFirst(S) \in Seq(S)
         /\ Len(OldestFirst(S)) = Cardinality(S) /\ Cardinality(S) \in Nat
         /\ \A v \in S : \E i \in 1..Cardinality(S) : OldestFirst(S)[i] = v
         /\ \A i, j \in 1..Cardinality(S) : i < j => OldestFirst(S)[i] < OldestFirst(S)[j]
<1> DEFINE n == Cardinality(S)
           c == OldestFirst(S)
<1>1. IsFiniteSet(S) /\ n \in Nat /\ S \subseteq Nat
  BY VersionsFinite
<1>2. ASSUME NEW i \in 1..n PROVE c[i] \in S /\ Cardinality(UpTo(S, c[i])) = i
  <2>1. c[i] = CHOOSE v \in S : Cardinality(UpTo(S, v)) = i
    BY DEF OldestFirst, UpTo
  <2> QED  BY <2>1, RanksCount
<1>3. c \in [1..n -> S]
  BY <1>2 DEF OldestFirst
<1>4. c \in Seq(S) /\ Len(c) = n
  <2> HIDE DEF c
  <2> QED  BY <1>1, <1>3
<1>5. ASSUME NEW v \in S, NEW u \in S, Cardinality(UpTo(S, v)) = Cardinality(UpTo(S, u))
      PROVE  v = u
  <2>1. Cardinality(UpTo(S, v)) \in Nat /\ v \in Nat /\ u \in Nat
    BY <1>1, UpToCounts
  <2>2. ~(v < u)
    BY <1>5, <2>1, UpToGrows
  <2>3. ~(u < v)
    BY <1>5, <2>1, UpToGrows
  <2> QED  BY <2>1, <2>2, <2>3
<1>6. ASSUME NEW v \in S PROVE \E i \in 1..n : c[i] = v
  <2>1. Cardinality(UpTo(S, v)) \in 1..n
    BY UpToCounts
  <2>2. PICK i \in 1..n : i = Cardinality(UpTo(S, v))
    BY <2>1
  <2>3. c[i] \in S /\ Cardinality(UpTo(S, c[i])) = Cardinality(UpTo(S, v))
    BY <1>2, <2>2
  <2>4. c[i] = v
    <3> HIDE DEF c
    <3> QED  BY <1>5, <2>3
  <2> QED  BY <2>4
<1>7. ASSUME NEW i \in 1..n, NEW j \in 1..n, i < j PROVE c[i] < c[j]
  <2>1. c[i] \in S /\ c[j] \in S /\ Cardinality(UpTo(S, c[i])) = i /\ Cardinality(UpTo(S, c[j])) = j
    BY <1>2
  <2>2. i \in Nat /\ j \in Nat /\ c[i] \in Nat /\ c[j] \in Nat
    <3> DEFINE ci == c[i]
               cj == c[j]
    <3>1. ci \in S /\ cj \in S
      BY <2>1
    <3> HIDE DEF ci, cj
    <3>2. ci \in Nat /\ cj \in Nat
      BY <1>1, <3>1
    <3>3. i \in Nat /\ j \in Nat
      BY <1>1
    <3> QED  BY <3>2, <3>3 DEF ci, cj
  <2>3. ~(c[j] < c[i])
    <3> HIDE DEF c
    <3>1. SUFFICES ASSUME c[j] < c[i] PROVE FALSE
      OBVIOUS
    <3>2. Cardinality(UpTo(S, c[j])) < Cardinality(UpTo(S, c[i]))
      BY <2>1, <3>1, UpToGrows
    <3> QED  BY <1>7, <2>1, <2>2, <3>2
  <2>4. c[i] # c[j]
    BY <2>1, <1>7, <2>2
  <2> QED  BY <2>2, <2>3, <2>4
<1> QED  BY <1>1, <1>3, <1>4, <1>6, <1>7

LEMMA CandidatesSorted ==
  ASSUME baseline \in Version, upper \in Version, catalog \in SUBSET Version
  PROVE  /\ Candidates \in Seq(Version) /\ Len(Candidates) \in Nat
         /\ \A i \in 1..Len(Candidates) :
              /\ Candidates[i] \in Interval /\ Candidates[i] \in Version
              /\ Candidates[i] \in Nat /\ baseline < Candidates[i]
         /\ \A v \in Interval : \E i \in 1..Len(Candidates) : Candidates[i] = v
         /\ \A i, j \in 1..Len(Candidates) : i < j => Candidates[i] < Candidates[j]
<1>1. Interval \in SUBSET Version
  BY DEF Interval
<1>2. /\ Candidates \in [1..Cardinality(Interval) -> Interval] /\ Candidates \in Seq(Interval)
      /\ Len(Candidates) = Cardinality(Interval) /\ Cardinality(Interval) \in Nat
      /\ \A v \in Interval : \E i \in 1..Cardinality(Interval) : Candidates[i] = v
      /\ \A i, j \in 1..Cardinality(Interval) : i < j => Candidates[i] < Candidates[j]
  BY <1>1, OldestFirstSorts DEF Candidates
<1>3. Candidates \in Seq(Version)
  BY <1>1, <1>2
<1>4. \A v \in Interval : v \in Version /\ v \in Nat /\ baseline < v
  BY DEF Interval, Version
<1> QED  BY <1>2, <1>3, <1>4

LEMMA CandidatesFrozen ==
  ASSUME UNCHANGED request
  PROVE  /\ Candidates' = Candidates /\ Interval' = Interval
         /\ baseline' = baseline /\ upper' = upper /\ catalog' = catalog
BY DEF request, Candidates, Interval, OldestFirst

-----------------------------------------------------------------------------
(* What a summary tells stays true as the scan goes on.                    *)

LEMMA StopIsNot ==
  ASSUME NEW verdict \in Verdicts
  PROVE  /\ StopAfter(verdict) \in BisectStop \cup {None}
         /\ StopAfter(verdict) = None <=> verdict = "PASS"
         /\ StopAfter(verdict) = "FIRST_BAD_FOUND" <=> verdict = "BLOCK"
         /\ StopAfter(verdict) # "NO_BAD_FOUND"
BY NoneAssumption DEF StopAfter, BisectStop, Verdicts

LEMMA NothingTold ==
  ASSUME NEW list \in Seq(Version), NEW from \in Version
  PROVE  True([candidates |-> list, steps |-> <<>>, last_known_good |-> from,
               first_bad |-> None, stop_reason |-> None], list, from)
<1> DEFINE p == [candidates |-> list, steps |-> <<>>, last_known_good |-> from,
                 first_bad |-> None, stop_reason |-> None]
<1>1. p \in BisectSummary
  BY DEF BisectSummary
<1>2. Tells(p, list, from, 0)
  BY DEF Tells, GoesOn
<1> QED  BY <1>1, <1>2 DEF True

(* While nothing stops the scan, what it saw passed.                       *)
LEMMA StillGoing ==
  ASSUME NEW list \in Seq(Version), NEW from \in Version,
         NEW p, True(p, list, from), p.stop_reason = None
  PROVE  /\ p \in BisectSummary /\ Len(p.steps) \in 0..Len(list)
         /\ Tells(p, list, from, Len(p.steps)) /\ GoesOn(p, list, Len(p.steps))
<1>1. PICK n \in 0..Len(list) : Tells(p, list, from, n)
  BY DEF True
<1>2. GoesOn(p, list, n)
  <2>1. \A verdict \in Verdicts \ {"PASS"} : ~EndsWith(p, list, n, verdict)
    BY StopIsNot DEF EndsWith
  <2> QED  BY <1>1, <2>1 DEF Tells
<1>3. Len(p.steps) = n
  BY <1>2 DEF GoesOn
<1> QED  BY <1>1, <1>2, <1>3 DEF True

LEMMA OneMoreVerdict ==
  ASSUME NEW list \in Seq(Version), NEW from \in Version,
         NEW p, True(p, list, from), p.stop_reason = None,
         Len(p.steps) < Len(list), NEW verdict \in Verdicts,
         NEW version, version = list[Len(p.steps) + 1],
         NEW q, q = [candidates |-> list,
                     steps |-> Append(p.steps, [version |-> version, verdict |-> verdict]),
                     last_known_good |-> IF verdict = "PASS" THEN version ELSE p.last_known_good,
                     first_bad |-> IF verdict = "BLOCK" THEN version ELSE None,
                     stop_reason |-> StopAfter(verdict)]
  PROVE  True(q, list, from)
<1> DEFINE n == Len(p.steps)
<1>1. /\ p \in BisectSummary /\ n \in 0..Len(list)
      /\ Tells(p, list, from, n) /\ GoesOn(p, list, n)
  BY StillGoing
<1>2. n \in Nat /\ Len(list) \in Nat /\ n + 1 \in 1..Len(list)
  BY <1>1
<1>3. p.steps \in Seq(BisectStep) /\ p.last_known_good \in Version
  BY <1>1 DEF BisectSummary
<1>4. version \in Version /\ [version |-> version, verdict |-> verdict] \in BisectStep
  BY <1>2 DEF BisectStep
<1>5. /\ q.steps \in Seq(BisectStep) /\ Len(q.steps) = n + 1
      /\ \A i \in 1..n : q.steps[i] = p.steps[i]
      /\ q.steps[n + 1] = [version |-> version, verdict |-> verdict]
  BY <1>3, <1>4
<1>6. q \in BisectSummary
  <2>1. q.first_bad \in Version \cup {None} /\ q.last_known_good \in Version
    BY <1>3, <1>4
  <2>2. q.stop_reason \in BisectStop \cup {None}
    BY StopIsNot
  <2> QED  BY <1>5, <2>1, <2>2 DEF BisectSummary
<1>7. CASE verdict = "PASS"
  <2>1. q.last_known_good = list[n + 1] /\ q.first_bad = None /\ q.stop_reason = None
    BY <1>7, StopIsNot
  <2>2. ASSUME NEW i \in 1..(n + 1)
        PROVE  q.steps[i] = [version |-> list[i], verdict |-> "PASS"]
    <3>1. CASE i = n + 1
      BY <3>1, <1>5, <1>7
    <3>2. CASE i # n + 1
      <4>1. i \in 1..n
        BY <3>2, <1>2
      <4> QED  BY <4>1, <1>1, <1>5 DEF Tells
    <3> QED  BY <3>1, <3>2
  <2>3. Tells(q, list, from, n + 1)
    BY <1>2, <1>5, <2>1, <2>2 DEF Tells, GoesOn
  <2>4. n + 1 \in 0..Len(list)
    BY <1>2
  <2> QED  BY <1>6, <2>3, <2>4 DEF True
<1>8. CASE verdict # "PASS"
  <2>1. q.last_known_good = p.last_known_good
    BY <1>8
  <2>2. EndsWith(q, list, n, verdict)
    BY <1>2, <1>5 DEF EndsWith
  <2>3. Tells(q, list, from, n)
    BY <1>1, <1>5, <1>8, <2>1, <2>2 DEF Tells
  <2> QED  BY <1>1, <1>6, <2>3 DEF True
<1> QED  BY <1>7, <1>8

LEMMA NothingBad ==
  ASSUME NEW list \in Seq(Version), NEW from \in Version,
         NEW p, True(p, list, from), p.stop_reason = None, Len(p.steps) = Len(list),
         NEW q, q = [candidates |-> list, steps |-> p.steps,
                     last_known_good |-> p.last_known_good, first_bad |-> p.first_bad,
                     stop_reason |-> "NO_BAD_FOUND"]
  PROVE  True(q, list, from)
<1> DEFINE n == Len(p.steps)
<1>1. /\ p \in BisectSummary /\ n \in 0..Len(list)
      /\ Tells(p, list, from, n) /\ GoesOn(p, list, n)
  BY StillGoing
<1>2. q \in BisectSummary
  BY <1>1 DEF BisectSummary, BisectStop
<1>3. Tells(q, list, from, n)
  BY <1>1 DEF Tells, GoesOn
<1> QED  BY <1>1, <1>2, <1>3 DEF True

-----------------------------------------------------------------------------
(* The inductive invariant, action by action.                              *)

LEMMA NoneIsNoSummary ==
  ASSUME NEW p \in BisectSummary PROVE p # None
BY NoneAssumption

LEMMA InitHolds == Init => IInv
BY DEF Init, IInv, Types, Unstarted, OnDisk, InMemory, UpToDate, AVerdictAhead,
       TheConclusionAhead

LEMMA StutterKeeps == ASSUME IInv, UNCHANGED vars PROVE IInv'
<1>1. /\ UNCHANGED request /\ UNCHANGED <<at, steps, last_known_good, first_bad, stop_reason, summary>>
  BY DEF vars, scan
<1>2. Candidates' = Candidates /\ UNCHANGED <<baseline, upper, catalog>>
  BY <1>1, CandidatesFrozen
<1> QED  BY <1>1, <1>2 DEF IInv, Types, Unstarted, OnDisk, InMemory, UpToDate, AVerdictAhead,
       TheConclusionAhead, Scanned, Payload

(* A scan that is given up leaves the summary as it was.                   *)
LEMMA EndKeeps ==
  ASSUME IInv, UNCHANGED <<request, scan, summary>>, at' \in {"raised", "returned"}
  PROVE  IInv'
<1>1. UNCHANGED request /\ UNCHANGED <<steps, last_known_good, first_bad, stop_reason, summary>>
  BY DEF scan
<1>2. Candidates' = Candidates /\ UNCHANGED <<baseline, upper, catalog>>
  BY <1>1, CandidatesFrozen
<1> QED  BY <1>1, <1>2 DEF IInv, Types, Unstarted, OnDisk, InMemory, UpToDate, AVerdictAhead,
       TheConclusionAhead

LEMMA RefuseKeeps == ASSUME IInv, Refuse PROVE IInv'
BY EndKeeps DEF Refuse

LEMMA AbortKeeps == ASSUME IInv, Abort PROVE IInv'
BY EndKeeps DEF Abort

LEMMA CreateKeeps == ASSUME IInv, Create PROVE IInv'
<1>1. /\ UNCHANGED request /\ UNCHANGED <<steps, first_bad, stop_reason>>
      /\ at = "start" /\ at' = "check" /\ last_known_good' = baseline
      /\ summary' = Payload(<<>>, baseline, None, None)
  BY DEF Create
<1>2. Candidates' = Candidates /\ UNCHANGED <<baseline, upper, catalog>>
  BY <1>1, CandidatesFrozen
<1>3. Types /\ steps = <<>> /\ first_bad = None /\ stop_reason = None
  BY <1>1 DEF IInv, Unstarted
<1>4. Candidates \in Seq(Version) /\ baseline \in Version
  BY <1>3, CandidatesSorted DEF Types
<1>5. True(summary', Candidates, baseline) /\ summary'.stop_reason = None
  BY <1>1, <1>4, NothingTold DEF Payload
<1>6. summary' # None
  BY <1>5, NoneIsNoSummary DEF True
<1>7. summary' = Scanned'
  BY <1>1, <1>2, <1>3 DEF Scanned, Payload
<1>8. Types' /\ Unstarted'
  BY <1>1, <1>2, <1>3 DEF Types, Unstarted
<1>9. OnDisk' /\ InMemory' /\ UpToDate'
  BY <1>1, <1>2, <1>5, <1>6, <1>7 DEF OnDisk, InMemory, UpToDate
<1>10. AVerdictAhead' /\ TheConclusionAhead'
  BY <1>1 DEF AVerdictAhead, TheConclusionAhead
<1> QED  BY <1>8, <1>9, <1>10 DEF IInv

LEMMA CheckKeeps == ASSUME IInv, NEW verdict \in Verdicts, Check(verdict) PROVE IInv'
<1> DEFINE version == Candidates[Len(steps) + 1]
           step == [version |-> version, verdict |-> verdict]
<1>1. /\ UNCHANGED request /\ UNCHANGED summary /\ at = "check" /\ at' = "save"
      /\ Len(steps) < Len(Candidates)
      /\ steps' = Append(steps, step)
      /\ last_known_good' = (IF verdict = "PASS" THEN version ELSE last_known_good)
      /\ first_bad' = (IF verdict = "BLOCK" THEN version ELSE None)
      /\ stop_reason' = StopAfter(verdict)
  BY DEF Check, LastGood
<1>2. Candidates' = Candidates /\ UNCHANGED <<baseline, upper, catalog>>
  BY <1>1, CandidatesFrozen
<1>3. /\ Types /\ OnDisk /\ summary = Scanned /\ summary # None
      /\ summary.stop_reason = None /\ True(summary, Candidates, baseline)
  BY <1>1 DEF IInv, InMemory, UpToDate
<1>4. Candidates \in Seq(Version) /\ baseline \in Version
  BY <1>3, CandidatesSorted DEF Types
<1>5. summary.steps = steps /\ summary.last_known_good = last_known_good
  BY <1>3 DEF Scanned, Payload
<1>6. Scanned' = [candidates |-> Candidates,
                  steps |-> Append(summary.steps, step),
                  last_known_good |-> IF verdict = "PASS" THEN version
                                      ELSE summary.last_known_good,
                  first_bad |-> IF verdict = "BLOCK" THEN version ELSE None,
                  stop_reason |-> StopAfter(verdict)]
  BY <1>1, <1>2, <1>5 DEF Scanned, Payload
<1>7. Len(summary.steps) < Len(Candidates) /\ version = Candidates[Len(summary.steps) + 1]
  BY <1>1, <1>5
<1>8. True(Scanned', Candidates, baseline)
  <2> HIDE DEF version
  <2> QED  BY <1>3, <1>4, <1>6, <1>7, OneMoreVerdict
<1>9. Len(steps) \in Nat /\ Len(Candidates) \in Nat
  BY <1>3, <1>4, <1>5, StillGoing
<1>10. step \in BisectStep
  <2>1. Len(steps) + 1 \in 1..Len(Candidates)
    BY <1>1, <1>9
  <2>2. version \in Version
    BY <1>4, <2>1
  <2> QED  BY <2>2 DEF BisectStep
<1>11. Types' /\ Unstarted' /\ UpToDate' /\ TheConclusionAhead'
  BY <1>1, <1>2, <1>3 DEF Types, Unstarted, UpToDate, TheConclusionAhead
<1>12. OnDisk' /\ InMemory'
  BY <1>1, <1>2, <1>3, <1>8 DEF OnDisk, InMemory
<1>13. AVerdictAhead'
  <2>1. steps' = Append(summary'.steps, step) /\ stop_reason' = StopAfter(step.verdict)
        /\ Len(summary'.steps) < Len(Candidates')
    BY <1>1, <1>2, <1>5
  <2> HIDE DEF step
  <2> QED  BY <2>1, <1>10 DEF AVerdictAhead
<1> QED  BY <1>11, <1>12, <1>13 DEF IInv

(* A save puts on disk what the scan knows.                                *)
LEMMA SaveTells ==
  ASSUME IInv, at \in {"save", "last_save"}, UNCHANGED <<request, scan>>, summary' = Scanned
  PROVE  /\ Candidates' = Candidates /\ UNCHANGED <<baseline, upper, catalog>>
         /\ summary' = Scanned' /\ True(summary', Candidates, baseline)
         /\ OnDisk' /\ summary' # None
<1>1. UNCHANGED request /\ UNCHANGED <<steps, last_known_good, first_bad, stop_reason>>
  BY DEF scan
<1>2. Candidates' = Candidates /\ UNCHANGED <<baseline, upper, catalog>>
  BY <1>1, CandidatesFrozen
<1>3. summary' = Scanned'
  BY <1>1, <1>2 DEF Scanned, Payload
<1>4. True(Scanned, Candidates, baseline)
  BY DEF IInv, InMemory
<1>5. summary' # None
  BY <1>4, NoneIsNoSummary DEF True
<1> QED  BY <1>2, <1>3, <1>4, <1>5 DEF OnDisk

LEMMA SaveKeeps == ASSUME IInv, Save PROVE IInv'
<1>1. /\ UNCHANGED <<request, scan>> /\ at = "save" /\ summary' = Scanned
      /\ UNCHANGED <<steps, stop_reason>>
      /\ at' \in {"check", "returned", "raised"} /\ (at' = "check" => stop_reason = None)
  BY DEF Save, Scanned, scan
<1>2. /\ Candidates' = Candidates /\ UNCHANGED <<baseline, upper, catalog>>
      /\ summary' = Scanned' /\ True(summary', Candidates, baseline)
      /\ OnDisk' /\ summary' # None
  BY <1>1, SaveTells
<1>3. Types' /\ Unstarted' /\ UpToDate' /\ AVerdictAhead' /\ TheConclusionAhead'
  BY <1>1, <1>2 DEF IInv, Types, Unstarted, UpToDate, AVerdictAhead, TheConclusionAhead
<1>4. InMemory'
  <2>1. summary'.stop_reason = stop_reason
    BY <1>1 DEF Scanned, Payload
  <2> QED  BY <1>1, <1>2, <2>1 DEF InMemory
<1> QED  BY <1>2, <1>3, <1>4 DEF IInv

LEMMA LastSaveKeeps == ASSUME IInv, LastSave PROVE IInv'
<1>1. UNCHANGED <<request, scan>> /\ at = "last_save" /\ summary' = Scanned /\ at' = "returned"
  BY DEF LastSave, Scanned
<1>2. /\ Candidates' = Candidates /\ UNCHANGED <<baseline, upper, catalog>> /\ OnDisk'
  BY <1>1, SaveTells
<1> QED  BY <1>1, <1>2 DEF IInv, Types, Unstarted, InMemory, UpToDate, AVerdictAhead,
       TheConclusionAhead

LEMMA NoBadFoundKeeps == ASSUME IInv, NoBadFound PROVE IInv'
<1>1. /\ at = "check" /\ at' = "last_save" /\ Len(steps) = Len(Candidates)
      /\ stop_reason' = "NO_BAD_FOUND" /\ UNCHANGED request
      /\ UNCHANGED <<steps, last_known_good, first_bad, summary>>
  BY DEF NoBadFound
<1>2. Candidates' = Candidates /\ UNCHANGED <<baseline, upper, catalog>>
  BY <1>1, CandidatesFrozen
<1>3. /\ Types /\ OnDisk /\ summary = Scanned /\ summary # None
      /\ summary.stop_reason = None /\ True(summary, Candidates, baseline)
  BY <1>1 DEF IInv, InMemory, UpToDate
<1>4. Candidates \in Seq(Version) /\ baseline \in Version
  BY <1>3, CandidatesSorted DEF Types
<1>5. /\ summary.steps = steps /\ summary.last_known_good = last_known_good
      /\ summary.first_bad = first_bad
  BY <1>3 DEF Scanned, Payload
<1>6. Scanned' = [candidates |-> Candidates, steps |-> summary.steps,
                  last_known_good |-> summary.last_known_good,
                  first_bad |-> summary.first_bad, stop_reason |-> "NO_BAD_FOUND"]
  BY <1>1, <1>2, <1>5 DEF Scanned, Payload
<1>7. True(Scanned', Candidates, baseline)
  BY <1>1, <1>3, <1>4, <1>5, <1>6, NothingBad
<1>8. Types' /\ Unstarted' /\ UpToDate' /\ AVerdictAhead' /\ TheConclusionAhead'
  BY <1>1, <1>2, <1>3, <1>5 DEF Types, Unstarted, UpToDate, AVerdictAhead, TheConclusionAhead
<1>9. OnDisk' /\ InMemory'
  BY <1>1, <1>2, <1>3, <1>7 DEF OnDisk, InMemory
<1> QED  BY <1>8, <1>9 DEF IInv

LEMMA NextKeeps == ASSUME IInv, [Next]_vars PROVE IInv'
BY StutterKeeps, RefuseKeeps, CreateKeeps, CheckKeeps, SaveKeeps, NoBadFoundKeeps,
   LastSaveKeeps, AbortKeeps DEF Next

(* The scan's variables and the summary are always related as IInv says:   *)
(* the summary is what the scan knew at its last save, and both are true   *)
(* (commands.py:133-196).                                                  *)
THEOREM Invariant == Spec => []IInv
<1>1. Init => IInv
  BY InitHolds
<1>2. IInv /\ [Next]_vars => IInv'
  BY NextKeeps
<1> QED  BY <1>1, <1>2, PTL DEF Spec

-----------------------------------------------------------------------------
(* What the summary claims.                                                *)

LEMMA TrueClaims == ASSUME IInv PROVE ClaimsAreTrue
<1> SUFFICES ASSUME summary # None
             PROVE  /\ \A v \in Interval : v <= summary.last_known_good => Passed(v)
                    /\ summary.first_bad # None <=> summary.stop_reason = "FIRST_BAD_FOUND"
                    /\ summary.first_bad # None =>
                         /\ \A v \in Interval :
                              v < summary.first_bad => v <= summary.last_known_good
                         /\ Last(summary.steps)
                            = [version |-> summary.first_bad, verdict |-> "BLOCK"]
                    /\ summary.stop_reason = "NO_BAD_FOUND" => \A v \in Interval : Passed(v)
  BY DEF ClaimsAreTrue
<1> DEFINE c == Candidates
           p == summary
<1>1. baseline \in Nat /\ baseline \in Version /\ True(p, c, baseline)
  BY DEF IInv, Types, OnDisk, Version
<1>2. /\ c \in Seq(Version) /\ Len(c) \in Nat
      /\ \A i \in 1..Len(c) : c[i] \in Version /\ c[i] \in Nat /\ baseline < c[i]
      /\ \A v \in Interval : \E i \in 1..Len(c) : c[i] = v
      /\ \A i, j \in 1..Len(c) : i < j => c[i] < c[j]
  BY CandidatesSorted DEF IInv, Types
<1> HIDE DEF c
<1>3. PICK n \in 0..Len(c) : Tells(p, c, baseline, n)
  BY <1>1 DEF True
<1>4. p.steps \in Seq(BisectStep) /\ Len(p.steps) \in Nat /\ n \in Nat
  BY <1>1 DEF True, BisectSummary
<1>5. Len(p.steps) >= n
  <2>1. Len(p.steps) = n \/ Len(p.steps) = n + 1
    BY <1>3 DEF Tells, GoesOn, EndsWith
  <2> QED  BY <1>4, <2>1
<1>6. ASSUME NEW i \in 1..n PROVE Passed(c[i])
  <2>1. i \in 1..Len(p.steps) /\ p.steps[i] = [version |-> c[i], verdict |-> "PASS"]
    BY <1>3, <1>4, <1>5 DEF Tells
  <2> QED  BY <2>1 DEF Passed
<1>7. ASSUME NEW v \in Interval, v <= p.last_known_good PROVE Passed(v)
  <2>1. PICK i \in 1..Len(c) : c[i] = v
    BY <1>2
  <2>2. i \in Nat /\ c[i] \in Nat /\ baseline < c[i]
    BY <1>2
  <2>3. n # 0 /\ p.last_known_good = c[n]
    BY <1>1, <1>3, <1>7, <2>1, <2>2 DEF Tells
  <2>4. n \in 1..Len(c) /\ c[n] \in Nat
    BY <1>2, <1>4, <2>3
  <2>5. ~(n < i)
    <3>1. SUFFICES ASSUME n < i PROVE FALSE
      OBVIOUS
    <3>2. c[n] < c[i]
      BY <1>2, <2>4, <3>1
    <3> QED  BY <3>2, <1>7, <2>1, <2>2, <2>3, <2>4
  <2>6. i \in 1..n
    BY <2>2, <1>4, <2>5
  <2> QED  BY <1>6, <2>1, <2>6
<1>8. p.first_bad # None <=> p.stop_reason = "FIRST_BAD_FOUND"
  <2>1. CASE GoesOn(p, c, n)
    BY <2>1, NoneAssumption DEF GoesOn, BisectStop
  <2>2. ASSUME NEW verdict \in Verdicts \ {"PASS"}, EndsWith(p, c, n, verdict)
        PROVE  p.first_bad # None <=> p.stop_reason = "FIRST_BAD_FOUND"
    <3>1. n + 1 \in 1..Len(c)
      BY <1>2, <1>4, <2>2 DEF EndsWith
    <3>2. c[n + 1] # None
      BY <1>2, <3>1, NoneAssumption
    <3> QED  BY <2>2, <3>2, StopIsNot DEF EndsWith
  <2> QED  BY <1>3, <2>1, <2>2 DEF Tells
<1>9. ASSUME p.first_bad # None
      PROVE  /\ \A v \in Interval : v < p.first_bad => v <= p.last_known_good
             /\ Last(p.steps) = [version |-> p.first_bad, verdict |-> "BLOCK"]
  <2>1. EndsWith(p, c, n, "BLOCK")
    BY <1>3, <1>9 DEF Tells, GoesOn, EndsWith
  <2>2. /\ n + 1 \in 1..Len(c) /\ p.first_bad = c[n + 1] /\ Len(p.steps) = n + 1
        /\ p.steps[n + 1] = [version |-> c[n + 1], verdict |-> "BLOCK"]
    BY <1>2, <1>4, <2>1 DEF EndsWith
  <2>3. Last(p.steps) = [version |-> p.first_bad, verdict |-> "BLOCK"]
    BY <2>2 DEF Last
  <2>4. ASSUME NEW v \in Interval, v < p.first_bad PROVE v <= p.last_known_good
    <3>1. PICK i \in 1..Len(c) : c[i] = v
      BY <1>2
    <3>2. i \in Nat /\ c[i] \in Nat /\ c[n + 1] \in Nat
      BY <1>2, <2>2
    <3>3. i < n + 1
      <4>1. SUFFICES ASSUME ~(i < n + 1) PROVE FALSE
        OBVIOUS
      <4>2. i = n + 1 \/ n + 1 < i
        BY <4>1, <3>2, <1>4
      <4>3. c[n + 1] <= c[i]
        BY <1>2, <2>2, <3>2, <4>2
      <4> QED  BY <4>3, <2>2, <2>4, <3>1, <3>2
    <3>4. n \in 1..Len(c) /\ n # 0 /\ (i = n \/ i < n)
      BY <1>2, <1>4, <3>2, <3>3
    <3>5. c[i] <= c[n]
      BY <1>2, <3>2, <3>4
    <3>6. p.last_known_good = c[n]
      BY <1>3, <3>4 DEF Tells
    <3> QED  BY <3>1, <3>5, <3>6
  <2> QED  BY <2>3, <2>4
<1>10. ASSUME p.stop_reason = "NO_BAD_FOUND", NEW v \in Interval PROVE Passed(v)
  <2>1. n = Len(c)
    BY <1>3, <1>10, StopIsNot, NoneAssumption DEF Tells, GoesOn, EndsWith, BisectStop
  <2>2. PICK i \in 1..n : c[i] = v
    BY <1>2, <2>1
  <2> QED  BY <1>6, <2>2
<1> QED  BY <1>7, <1>8, <1>9, <1>10

(* Whenever a scan is cut short, and whatever was published and asked for, *)
(* the summary on disk claims only what is so: every release up to the     *)
(* last known good passed, a first bad release is the next one and was     *)
(* blocked, and "no bad" means that all passed (commands.py:133-186).      *)
THEOREM ClaimsHold == Spec => []ClaimsAreTrue
<1>1. IInv => ClaimsAreTrue
  BY TrueClaims
<1> QED  BY <1>1, Invariant, PTL

-----------------------------------------------------------------------------
(* The promise of VersionBisectSpec.                                       *)

LEMMA ListIsFunction ==
  ASSUME NEW S, NEW list \in Seq(S), NEW n, Len(list) = n
  PROVE  list \in [1..n -> S]
OBVIOUS

LEMMA PromiseInit == ASSUME IInv, Init PROVE Promise!Init
<1>1. Interval \in SUBSET Version
  BY DEF IInv, Types, Interval
<1>2. Candidates \in {OldestFirst(versions) : versions \in SUBSET Version}
  BY <1>1 DEF Candidates
<1>3. summary = None
  BY DEF Init
<1> QED  BY <1>2, <1>3 DEF Promise!Init

LEMMA PromiseStands ==
  ASSUME UNCHANGED <<request, summary>>
  PROVE  UNCHANGED Promise!vars
<1>1. Candidates' = Candidates /\ summary' = summary
  BY CandidatesFrozen
<1> QED  BY <1>1 DEF Promise!vars

LEMMA PromiseBegun == ASSUME IInv, Create PROVE UNCHANGED Promise!vars
<1>1. /\ summary' = [candidates |-> Candidates, steps |-> <<>>, last_known_good |-> baseline,
                     first_bad |-> None, stop_reason |-> None]
      /\ UNCHANGED request /\ at = "start"
  BY DEF Create, Payload
<1>2. summary = None
  BY <1>1 DEF IInv, Unstarted
<1>3. Candidates' = Candidates
  BY <1>1, CandidatesFrozen
<1>4. Len(summary'.steps) = 0 /\ summary'.stop_reason = None
  BY <1>1
<1>5. [i \in 1..Len(summary'.steps) |-> summary'.steps[i].verdict] = <<>>
  BY <1>4
<1> QED  BY <1>2, <1>3, <1>4, <1>5 DEF Promise!vars

(* Saving a verdict is giving it.                                          *)
LEMMA PromiseJudge == ASSUME IInv, Save PROVE Promise!Judge
<1>1. /\ at = "save" /\ UNCHANGED <<request, scan>> /\ summary' = Scanned
  BY DEF Save, Scanned
<1>2. Candidates' = Candidates /\ summary' = Scanned' /\ summary' # None
  BY <1>1, SaveTells
<1>3. summary # None /\ summary.stop_reason = None /\ summary \in BisectSummary
  BY <1>1 DEF IInv, InMemory, OnDisk, True
<1>4. PICK step \in BisectStep :
        /\ steps = Append(summary.steps, step)
        /\ stop_reason = StopAfter(step.verdict)
        /\ Len(summary.steps) < Len(Candidates)
  BY <1>1 DEF IInv, AVerdictAhead
<1>5. summary'.steps = Append(summary.steps, step) /\ summary'.stop_reason = StopAfter(step.verdict)
  BY <1>1, <1>4 DEF Scanned, Payload
<1>6. summary.steps \in Seq(BisectStep) /\ step.verdict \in Verdicts
  BY <1>3 DEF BisectSummary, BisectStep
<1> DEFINE given == [i \in 1..Len(summary.steps) |-> summary.steps[i].verdict]
           now == [i \in 1..Len(summary'.steps) |-> summary'.steps[i].verdict]
<1>7. Len(given) = Len(summary.steps) /\ given \in Seq(Verdicts)
  <2>1. \A i \in 1..Len(summary.steps) : summary.steps[i].verdict \in Verdicts
    <3>1. \A i \in 1..Len(summary.steps) : summary.steps[i] \in BisectStep
      BY <1>6
    <3> QED  BY <3>1 DEF BisectStep
  <2> QED  BY <1>6, <2>1
<1>8. now = Append(given, step.verdict)
  <2>1. Len(summary'.steps) = Len(summary.steps) + 1 /\ Len(summary.steps) \in Nat
    BY <1>5, <1>6
  <2>2. now \in [1..(Len(summary.steps) + 1) -> Verdicts]
    <3>1. \A i \in 1..Len(summary'.steps) : summary'.steps[i] \in BisectStep
      BY <1>5, <1>6
    <3> QED  BY <2>1, <3>1 DEF BisectStep
  <2>3. ASSUME NEW i \in 1..(Len(summary.steps) + 1)
        PROVE  now[i] = Append(given, step.verdict)[i]
    <3>1. summary'.steps[i] = IF i = Len(summary.steps) + 1 THEN step ELSE summary.steps[i]
      BY <1>5, <1>6
    <3>2. Append(given, step.verdict)[i]
          = IF i = Len(summary.steps) + 1 THEN step.verdict ELSE given[i]
      <4> HIDE DEF given
      <4> QED  BY <1>6, <1>7
    <3> QED  BY <2>1, <3>1, <3>2
  <2>4. Append(given, step.verdict) \in [1..(Len(summary.steps) + 1) -> Verdicts]
    <3> HIDE DEF given
    <3>1. Append(given, step.verdict) \in Seq(Verdicts)
      BY <1>6, <1>7
    <3>2. Len(Append(given, step.verdict)) = Len(summary.steps) + 1
      BY <1>6, <1>7
    <3> QED  BY <3>1, <3>2, ListIsFunction
  <2> HIDE DEF now, given
  <2> QED  BY <2>2, <2>3, <2>4
<1>9. StopAfter(step.verdict) = Promise!ClaimOf[step.verdict]
  BY <1>6 DEF StopAfter, Promise!ClaimOf, Verdicts
<1> HIDE DEF given, now
<1>10. /\ (IF summary = None THEN None ELSE summary.stop_reason) = None
       /\ Len(IF summary = None THEN <<>> ELSE given) < Len(Candidates)
  BY <1>3, <1>4, <1>7
<1>11. (IF summary' = None THEN <<>> ELSE now) = Append(IF summary = None THEN <<>> ELSE given, step.verdict)
  BY <1>2, <1>3, <1>8
<1>12. (IF summary' = None THEN None ELSE summary'.stop_reason) = Promise!ClaimOf[step.verdict]
  BY <1>2, <1>5, <1>9
<1>13. \E v \in Verdicts :
         /\ (IF summary' = None THEN <<>> ELSE now)
            = Append(IF summary = None THEN <<>> ELSE given, v)
         /\ (IF summary' = None THEN None ELSE summary'.stop_reason) = Promise!ClaimOf[v]
  BY <1>6, <1>11, <1>12
<1>14. Promise!Verdicts = Verdicts
  BY DEF Promise!Verdicts, Verdicts
<1> QED  BY <1>2, <1>10, <1>13, <1>14 DEF Promise!Judge, given, now

(* Saving the end of the list is concluding.                               *)
LEMMA PromiseConclude == ASSUME IInv, LastSave PROVE Promise!Conclude
<1>1. at = "last_save" /\ UNCHANGED <<request, scan>> /\ summary' = Scanned
  BY DEF LastSave, Scanned
<1>2. Candidates' = Candidates /\ summary' # None
  BY <1>1, SaveTells
<1>3. /\ summary # None /\ summary.stop_reason = None /\ summary \in BisectSummary
      /\ stop_reason = "NO_BAD_FOUND" /\ steps = summary.steps /\ Len(steps) = Len(Candidates)
  BY <1>1 DEF IInv, InMemory, OnDisk, True, TheConclusionAhead
<1>4. summary'.steps = summary.steps /\ summary'.stop_reason = "NO_BAD_FOUND"
  BY <1>1, <1>3 DEF Scanned, Payload
<1>5. Len([i \in 1..Len(summary.steps) |-> summary.steps[i].verdict]) = Len(summary.steps)
  <2>1. summary.steps \in Seq(BisectStep)
    BY <1>3 DEF BisectSummary
  <2> QED  BY <2>1
<1> QED  BY <1>2, <1>3, <1>4, <1>5 DEF Promise!Conclude

(* The scan implements its abstract specification: what is on disk is at   *)
(* every moment a prefix of judging the releases oldest first, each only   *)
(* after all older ones passed, with the claim that follows from the       *)
(* verdicts (commands.py:133-196, storage.py:88-147).                      *)
THEOREM PromiseKept == Spec => KeepsPromise
<1>1. IInv /\ Init => Promise!Init
  BY PromiseInit
<1>2. ASSUME IInv, [Next]_vars PROVE [Promise!Next]_(Promise!vars)
  <2>1. CASE UNCHANGED <<request, summary>>
    BY <2>1, PromiseStands
  <2>2. CASE Create
    BY <1>2, <2>2, PromiseBegun
  <2>3. CASE Save
    BY <1>2, <2>3, PromiseJudge DEF Promise!Next
  <2>4. CASE LastSave
    BY <1>2, <2>4, PromiseConclude DEF Promise!Next
  <2> QED  BY <1>2, <2>1, <2>2, <2>3, <2>4
           DEF Next, vars, Refuse, Check, NoBadFound, Abort
<1> QED  BY <1>1, <1>2, Invariant, PTL DEF Spec, KeepsPromise, Promise!Spec

-----------------------------------------------------------------------------
(* The cost estimate: what is in the history.                              *)

ValidCatalogs == {deck \in Catalogs : ValidCatalog(deck)}

WrittenBy(h, deck) ==
  h.sidecar = BuildPayload([config |-> h.config, cards |-> deck, started |-> h.started],
                           h.finished, h.result)

(* A report is of a check there may be, and the sidecar beside it is what  *)
(* the check wrote by the catalog it started with, or none, or damaged.    *)
AsWritten(h) ==
  /\ h.config \in Configs /\ h.result \in Results[h.config.agent]
  /\ h.sidecar \in {Nothing, Damaged} \/ \E deck \in ValidCatalogs : WrittenBy(h, deck)

CheckInv ==
  run # Nothing =>
    \E config \in Configs, deck \in ValidCatalogs :
      run = [config |-> config, cards |-> deck, started |-> run.started]

HistoryInv ==
  /\ history \in Seq({history[i] : i \in Reports})
  /\ \A i \in Reports : AsWritten(history[i])

CostInv == cards \in ValidCatalogs /\ CheckInv /\ HistoryInv

LEMMA CostInitHolds == ASSUME CostInit PROVE CostInv
<1>1. history = <<>> /\ Reports = {}
  BY DEF CostInit, Reports
<1>2. {history[i] : i \in Reports} = {}
  BY <1>1
<1> QED  BY <1>1, <1>2 DEF CostInit, CostInv, CheckInv, HistoryInv, ValidCatalogs

LEMMA HistoryStays ==
  ASSUME HistoryInv, UNCHANGED history PROVE HistoryInv'
BY DEF HistoryInv, AsWritten, WrittenBy, Reports, ValidCatalogs

LEMMA FinishKeeps ==
  ASSUME CostInv, FinishCheck PROVE HistoryInv'
<1>0. PICK result \in Results[run.config.agent] : \E sidecar \in WriteSidecar(result) :
        history' = Append(history,
          [config |-> run.config, started |-> run.started, finished |-> day,
           result |-> result, sidecar |-> sidecar])
  BY DEF FinishCheck
<1>1. PICK sidecar \in WriteSidecar(result) :
        history' = Append(history,
          [config |-> run.config, started |-> run.started, finished |-> day,
           result |-> result, sidecar |-> sidecar])
  BY <1>0
<1> DEFINE S == {history[i] : i \in Reports}
           h == [config |-> run.config, started |-> run.started, finished |-> day,
                 result |-> result, sidecar |-> sidecar]
<1>2. history \in Seq(S) /\ \A i \in Reports : AsWritten(history[i])
  BY DEF CostInv, HistoryInv
<1>3. AsWritten(h)
  <2>1. PICK config \in Configs, deck \in ValidCatalogs :
          run = [config |-> config, cards |-> deck, started |-> run.started]
    BY DEF CostInv, CheckInv, FinishCheck
  <2>2. run.config = config /\ run.cards = deck
    BY <2>1
  <2>3. sidecar # Nothing => WrittenBy(h, deck)
    <3>1. sidecar # Nothing => sidecar = BuildPayload(run, day, result)
      BY <1>1 DEF WriteSidecar
    <3> HIDE DEF h
    <3>2. run = [config |-> h.config, cards |-> deck, started |-> h.started]
          /\ h.finished = day /\ h.result = result /\ h.sidecar = sidecar
      BY <2>1, <2>2 DEF h
    <3> QED  BY <3>1, <3>2 DEF WrittenBy
  <2> QED  BY <2>1, <2>2, <2>3 DEF AsWritten
<1> HIDE DEF S, h
<1>4. history' = Append(history, h)
  BY <1>1 DEF h
<1>5. history \in Seq(S \cup {h}) /\ Len(history) \in Nat
  <2>1. S \subseteq S \cup {h}
    OBVIOUS
  <2> QED  BY <1>2, <2>1
<1>6. /\ Reports' = 1..(Len(history) + 1)
      /\ \A i \in Reports' : history'[i] = IF i \in Reports THEN history[i] ELSE h
  <2>1. Len(history') = Len(history) + 1
    BY <1>4, <1>5
  <2> QED  BY <1>4, <1>5, <2>1 DEF Reports
<1>7. history' \in Seq({history[i] : i \in Reports}')
  <2>1. history' \in Seq(S \cup {h}) /\ Len(history') = Len(history) + 1
    BY <1>4, <1>5
  <2>2. history' = [i \in Reports' |-> history'[i]]
    BY <2>1, <1>6
  <2> QED  BY <2>2, <1>5, <1>6
<1>8. \A i \in Reports' : AsWritten(history'[i])
  BY <1>2, <1>3, <1>6
<1> QED  BY <1>7, <1>8 DEF HistoryInv, AsWritten, WrittenBy, ValidCatalogs

LEMMA DamageKeeps ==
  ASSUME HistoryInv, Damage PROVE HistoryInv'
<1> DEFINE n == Len(history)
           S == {history[i] : i \in Reports}
           h == [history[n] EXCEPT !.sidecar = Damaged]
<1>1. history \in Seq(S) /\ history # <<>> /\ \A i \in Reports : AsWritten(history[i])
  BY DEF HistoryInv, Damage
<1>2. history' = [history EXCEPT ![n] = h]
  BY DEF Damage
<1> HIDE DEF S, h
<1>3. n \in Reports /\ n \in Nat /\ DOMAIN history = Reports
  BY <1>1 DEF Reports
<1>4. AsWritten(h)
  <2>1. h.config = history[n].config /\ h.result = history[n].result
        /\ (h.sidecar = history[n].sidecar \/ h.sidecar = Damaged)
        /\ h.started = history[n].started /\ h.finished = history[n].finished
    BY DEF h
  <2> QED  BY <1>1, <1>3, <2>1 DEF AsWritten, WrittenBy
<1>5. /\ DOMAIN history' = Reports /\ Reports' = Reports
      /\ \A i \in Reports : history'[i] = IF i = n THEN h ELSE history[i]
      /\ history' = [i \in Reports |-> history'[i]]
  <2>1. history' \in Seq(S \cup {h}) /\ Len(history') = n
    <3>1. history \in Seq(S \cup {h})
      BY <1>1
    <3> QED  BY <1>2, <1>3, <3>1
  <2> QED  BY <1>2, <1>3, <2>1 DEF Reports
<1>6. history' \in Seq({history[i] : i \in Reports}')
  <2>1. Reports = 1..n
    BY DEF Reports
  <2> QED  BY <1>3, <1>5, <2>1
<1>7. \A i \in Reports' : AsWritten(history'[i])
  BY <1>1, <1>4, <1>5
<1> QED  BY <1>6, <1>7 DEF HistoryInv, AsWritten, WrittenBy, ValidCatalogs

LEMMA CostInductive == CostSpec => []CostInv
<1>1. ASSUME CostInv, [CostNext]_costVars PROVE CostInv'
  <2>1. CASE FinishCheck
    BY <1>1, <2>1, FinishKeeps DEF FinishCheck, CostInv, CheckInv, ValidCatalogs
  <2>2. CASE Damage
    BY <1>1, <2>2, DamageKeeps DEF Damage, CostInv, CheckInv, ValidCatalogs
  <2>3. ASSUME NEW config \in Configs, StartCheck(config) PROVE CostInv'
    <3>1. CheckInv'
      BY <1>1, <2>3 DEF StartCheck, CostInv, CheckInv, ValidCatalogs
    <3> QED  BY <1>1, <2>3, <3>1, HistoryStays DEF StartCheck, CostInv, ValidCatalogs
  <2>4. ASSUME UNCHANGED history, UNCHANGED run \/ run' = Nothing, cards' \in ValidCatalogs
        PROVE  CostInv'
    BY <1>1, <2>4, HistoryStays DEF CostInv, CheckInv, ValidCatalogs
  <2>5. CASE NextDay \/ ClockBack \/ Upgrade \/ AbortCheck \/ UNCHANGED costVars
    BY <1>1, <2>4, <2>5
       DEF NextDay, ClockBack, Upgrade, AbortCheck, costVars, CostInv, ValidCatalogs
  <2> QED  BY <1>1, <2>1, <2>2, <2>3, <2>5 DEF CostNext
<1> QED  BY <1>1, CostInitHolds, PTL DEF CostSpec

-----------------------------------------------------------------------------
(* Sums and order statistics of finitely many numbers.                     *)

LEMMA Least ==
  ASSUME NEW T, T \subseteq Nat, T # {}
  PROVE  \E n \in T : \A m \in T : n <= m
<1> DEFINE R == {ss \in Nat \X Nat : ss[1] < ss[2]}
<1>1. IsWellFoundedOn(R, Nat)
  BY NatLessThanWellFounded DEF OpToRel
<1>2. PICK n \in T : \A m \in T : ~(<<m, n>> \in R)
  <2> HIDE DEF R
  <2> QED  BY <1>1, WFMin
<1>3. ASSUME NEW m \in T PROVE n <= m
  <2>1. <<m, n>> \in Nat \X Nat /\ ~(<<m, n>> \in R)
    BY <1>2
  <2>2. ~(m < n)
    BY <2>1
  <2> QED  BY <2>2
<1> QED  BY <1>3

LEMMA OneFewer ==
  ASSUME NEW S, IsFiniteSet(S), NEW s \in SUBSET S, s # {}, NEW x \in s
  PROVE  /\ s \ {x} \in SUBSET S /\ Cardinality(s) \in Nat \ {0}
         /\ Cardinality(s \ {x}) = Cardinality(s) - 1
<1>1. IsFiniteSet(s) /\ Cardinality(s) \in Nat
  BY FS_Subset, FS_CardinalityType
<1>2. Cardinality(s) # 0
  BY <1>1, FS_EmptySet
<1> QED  BY <1>1, <1>2, FS_RemoveElement

(* What holds of a subset as soon as it holds of those with one element    *)
(* less holds of all.                                                      *)
LEMMA FiniteInduction ==
  ASSUME NEW S, IsFiniteSet(S), NEW Good,
         \A s \in SUBSET S : (\A x \in s : s \ {x} \in Good) => s \in Good
  PROVE  SUBSET S \subseteq Good
<1> DEFINE Bad == {n \in Nat : \E s \in SUBSET S : Cardinality(s) = n /\ s \notin Good}
<1>1. SUFFICES ASSUME NEW t \in SUBSET S, t \notin Good PROVE FALSE
  OBVIOUS
<1>2. Bad # {} /\ Bad \subseteq Nat
  <2>1. Cardinality(t) \in Nat
    BY FS_Subset, FS_CardinalityType
  <2> QED  BY <1>1, <2>1
<1>3. PICK n \in Bad : \A m \in Bad : n <= m
  <2> HIDE DEF Bad
  <2> QED  BY <1>2, Least
<1>4. PICK s \in SUBSET S : Cardinality(s) = n /\ s \notin Good
  BY <1>3
<1>5. PICK x \in s : s \ {x} \notin Good
  BY <1>4
<1>6. s \ {x} \in SUBSET S /\ n \in Nat \ {0} /\ Cardinality(s \ {x}) = n - 1
  BY <1>4, <1>5, OneFewer
<1>7. n - 1 \in Bad
  BY <1>5, <1>6
<1> QED  BY <1>3, <1>6, <1>7

(* The function that the fold recurses with.                               *)
One(s) == CHOOSE x \in s : TRUE

Adds(f, S, it) ==
  it = [s \in SUBSET S |-> IF s = {} THEN 0 ELSE f[One(s)] + it[s \ {One(s)}]]

LEMMA AddsExists ==
  ASSUME NEW S, IsFiniteSet(S), NEW f
  PROVE  \E it : Adds(f, S, it)
<1> DEFINE Level(n) == {s \in SUBSET S : Cardinality(s) <= n}
           Goes(it, s) == IF s = {} THEN 0 ELSE f[One(s)] + it[s \ {One(s)}]
           AddsTo(n, it) == it = [s \in Level(n) |-> Goes(it, s)]
           Bad == {n \in Nat : ~\E it : AddsTo(n, it)}
<1>1. ASSUME NEW n \in Nat, NEW s \in Level(n), s # {}
      PROVE  n # 0 /\ s \ {One(s)} \in Level(n - 1) /\ s \ {One(s)} \in Level(n)
  <2>1. One(s) \in s
    BY <1>1 DEF One
  <2>2. s \ {One(s)} \in SUBSET S /\ Cardinality(s) \in Nat \ {0}
        /\ Cardinality(s \ {One(s)}) = Cardinality(s) - 1
    BY <1>1, <2>1, OneFewer
  <2> QED  BY <1>1, <2>2
<1>2. ASSUME NEW n \in Nat, n # 0, NEW g, AddsTo(n - 1, g) PROVE \E it : AddsTo(n, it)
  <2> DEFINE h == [s \in Level(n) |-> Goes(g, s)]
  <2>1. ASSUME NEW s \in Level(n - 1) PROVE s \in Level(n) /\ h[s] = g[s]
    <3>1. s \in Level(n)
      <4>1. Cardinality(s) \in Nat
        BY <2>1, FS_Subset, FS_CardinalityType
      <4> QED  BY <1>2, <2>1, <4>1
    <3>2. g[s] = Goes(g, s)
      <4> HIDE DEF Level, Goes
      <4> QED  BY <1>2, <2>1
    <3> QED  BY <3>1, <3>2
  <2>2. ASSUME NEW s \in Level(n) PROVE Goes(g, s) = Goes(h, s)
    <3> HIDE DEF Level, h
    <3>1. CASE s = {}
      BY <3>1
    <3>2. CASE s # {}
      BY <3>2, <1>1, <2>1, <2>2
    <3> QED  BY <3>1, <3>2
  <2>3. h = [s \in Level(n) |-> Goes(h, s)]
    <3> HIDE DEF Level, Goes
    <3> QED  BY <2>2
  <2> HIDE DEF h, Level, Goes
  <2> QED  BY <2>3
<1>3. \E it : AddsTo(0, it)
  <2> DEFINE h == [s \in Level(0) |-> 0]
  <2>1. ASSUME NEW s \in Level(0) PROVE 0 = Goes(h, s)
    <3>1. s = {}
      <4> HIDE DEF Level
      <4> QED  BY <1>1, <2>1
    <3> QED  BY <3>1
  <2>2. h = [s \in Level(0) |-> Goes(h, s)]
    <3> HIDE DEF Level, Goes
    <3> QED  BY <2>1
  <2> HIDE DEF h, Level, Goes
  <2> QED  BY <2>2
<1>4. Bad = {}
  <2>1. SUFFICES ASSUME Bad # {} PROVE FALSE
    OBVIOUS
  <2>2. PICK n \in Bad : \A m \in Bad : n <= m
    <3>1. Bad \subseteq Nat
      OBVIOUS
    <3> HIDE DEF Bad
    <3> QED  BY <2>1, <3>1, Least
  <2> HIDE DEF AddsTo
  <2>3. n \in Nat /\ n # 0 /\ n - 1 \in Nat
    BY <1>3, <2>2
  <2>4. n - 1 \notin Bad
    <3> HIDE DEF Bad
    <3> QED  BY <2>2, <2>3
  <2>5. PICK g : AddsTo(n - 1, g)
    BY <2>3, <2>4
  <2> QED  BY <1>2, <2>2, <2>3, <2>5
<1>5. Cardinality(S) \in Nat
  BY FS_CardinalityType
<1>6. PICK it : AddsTo(Cardinality(S), it)
  <2> HIDE DEF AddsTo
  <2> QED  BY <1>4, <1>5
<1>7. Level(Cardinality(S)) = SUBSET S
  BY FS_Subset
<1> HIDE DEF Level
<1> QED  BY <1>6, <1>7 DEF Adds

LEMMA AddsNothing ==
  ASSUME NEW S, NEW f, NEW it, Adds(f, S, it)
  PROVE  it[{}] = 0
BY DEF Adds

LEMMA AddsAtOne ==
  ASSUME NEW S, NEW f, NEW it, Adds(f, S, it), NEW s \in SUBSET S, s # {}
  PROVE  /\ One(s) \in s /\ s \ {One(s)} \in SUBSET S
         /\ it[s] = f[One(s)] + it[s \ {One(s)}]
<1>1. it[s] = IF s = {} THEN 0 ELSE f[One(s)] + it[s \ {One(s)}]
  BY DEF Adds
<1>2. One(s) \in s
  BY DEF One
<1> QED  BY <1>1, <1>2

LEMMA AddsNat ==
  ASSUME NEW S, IsFiniteSet(S), NEW f, NEW it, Adds(f, S, it),
         \A x \in S : f[x] \in Nat, NEW s \in SUBSET S
  PROVE  it[s] \in Nat
<1> DEFINE Good == {r \in SUBSET S : it[r] \in Nat}
<1>1. ASSUME NEW r \in SUBSET S, \A x \in r : r \ {x} \in Good PROVE r \in Good
  <2>1. CASE r = {}
    <3>1. it[r] = 0
      BY <2>1, AddsNothing
    <3> QED  BY <3>1
  <2>2. CASE r # {}
    <3>1. One(r) \in r /\ it[r] = f[One(r)] + it[r \ {One(r)}]
      <4> HIDE DEF Good
      <4> QED  BY <2>2, AddsAtOne
    <3>2. f[One(r)] \in Nat /\ it[r \ {One(r)}] \in Nat
      BY <1>1, <3>1
    <3> QED  BY <3>1, <3>2
  <2> QED  BY <2>1, <2>2
<1>2. SUBSET S \subseteq Good
  <2> HIDE DEF Good
  <2> QED  BY <1>1, FiniteInduction
<1> QED  BY <1>2

LEMMA SumAdds ==
  ASSUME NEW f, IsFiniteSet(DOMAIN f)
  PROVE  \E it : Adds(f, DOMAIN f, it) /\ SumFunction(f) = it[DOMAIN f]
<1> DEFINE it == CHOOSE g : Adds(f, DOMAIN f, g)
<1>1. Adds(f, DOMAIN f, it)
  BY AddsExists
<1>2. SumFunction(f) = it[DOMAIN f]
  BY DEF SumFunction, SumFunctionOnSet, FoldFunctionOnSet, MapThenFoldSet, Adds, One
<1> QED  BY <1>1, <1>2

(* A sum grows with what is summed.                                        *)
LEMMA SumsGrow ==
  ASSUME NEW S, IsFiniteSet(S), NEW f \in [S -> Nat], NEW g \in [S -> Nat],
         \A x \in S : f[x] <= g[x]
  PROVE  SumFunction(f) \in Nat /\ SumFunction(g) \in Nat /\ SumFunction(f) <= SumFunction(g)
<1>1. PICK it : Adds(f, S, it) /\ SumFunction(f) = it[S]
  BY SumAdds
<1>2. PICK it2 : Adds(g, S, it2) /\ SumFunction(g) = it2[S]
  BY SumAdds
<1> DEFINE Good == {s \in SUBSET S : it[s] \in Nat /\ it2[s] \in Nat /\ it[s] <= it2[s]}
<1>3. ASSUME NEW s \in SUBSET S, \A x \in s : s \ {x} \in Good PROVE s \in Good
  <2>1. CASE s = {}
    <3>1. it[s] = 0 /\ it2[s] = 0
      BY <1>1, <1>2, <2>1, AddsNothing
    <3> QED  BY <3>1
  <2>2. CASE s # {}
    <3> DEFINE x == One(s)
               r == s \ {One(s)}
    <3>1. x \in s /\ it[s] = f[x] + it[r]
      BY <1>1, <2>2, AddsAtOne
    <3>2. it2[s] = g[x] + it2[r]
      BY <1>2, <2>2, AddsAtOne
    <3>3. it[r] \in Nat /\ it2[r] \in Nat /\ it[r] <= it2[r]
      BY <1>3, <3>1
    <3>4. f[x] \in Nat /\ g[x] \in Nat /\ f[x] <= g[x]
      BY <3>1
    <3> HIDE DEF x, r
    <3>5. it[s] \in Nat /\ it2[s] \in Nat /\ it[s] <= it2[s]
      BY <3>1, <3>2, <3>3, <3>4
    <3> QED  BY <3>5
  <2> QED  BY <2>1, <2>2
<1>4. SUBSET S \subseteq Good
  <2> HIDE DEF Good
  <2> QED  BY <1>3, FiniteInduction
<1> QED  BY <1>1, <1>2, <1>4

LEMMA FinitelyManyBounded ==
  ASSUME NEW S, IsFiniteSet(S), NEW f \in [S -> Nat]
  PROVE  \E n \in Nat : \A x \in S : f[x] <= n
<1> DEFINE Good == {s \in SUBSET S : \E n \in Nat : \A x \in s : f[x] <= n}
<1>1. ASSUME NEW s \in SUBSET S, \A x \in s : s \ {x} \in Good PROVE s \in Good
  <2>1. CASE s = {}
    <3>1. 0 \in Nat /\ \A x \in s : f[x] <= 0
      BY <2>1
    <3> QED  BY <3>1
  <2>2. CASE s # {}
    <3>1. PICK y \in s : TRUE
      BY <2>2
    <3>2. PICK n \in Nat : \A x \in s \ {y} : f[x] <= n
      BY <1>1
    <3>3. f[y] \in Nat
      OBVIOUS
    <3>4. n + f[y] \in Nat /\ \A x \in s : f[x] <= n + f[y]
      BY <3>2, <3>3
    <3> QED  BY <3>4
  <2> QED  BY <2>1, <2>2
<1>2. SUBSET S \subseteq Good
  <2> HIDE DEF Good
  <2> QED  BY <1>1, FiniteInduction
<1> QED  BY <1>2

NotAbove(f, v) == {p \in DOMAIN f : f[p] <= v}
Below(f, v) == {p \in DOMAIN f : f[p] < v}
AtPlace(f, n, v) ==
  v \in Range(f) /\ Cardinality(Below(f, v)) < n /\ Cardinality(NotAbove(f, v)) >= n

LEMMA CountsOfPart ==
  ASSUME NEW S, IsFiniteSet(S), NEW T, T \subseteq S, NEW R, R \subseteq T
  PROVE  /\ Cardinality(T) \in Nat /\ Cardinality(R) \in Nat
         /\ Cardinality(R) <= Cardinality(T)
<1>1. IsFiniteSet(T)
  BY FS_Subset
<1>2. IsFiniteSet(R) /\ Cardinality(R) <= Cardinality(T)
  BY <1>1, FS_Subset
<1> QED  BY <1>1, <1>2, FS_CardinalityType

(* Every place has a value: the least one that enough are not above.       *)
LEMMA PlacesFilled ==
  ASSUME NEW S, IsFiniteSet(S), NEW f \in [S -> Nat], NEW n \in 1..Cardinality(S)
  PROVE  /\ AtPlace(f, n, NthSmallest(f, n)) /\ NthSmallest(f, n) \in Nat
<1> DEFINE Enough == {m \in Nat : Cardinality(NotAbove(f, m)) >= n}
<1>0. DOMAIN f = S /\ Cardinality(S) \in Nat /\ n \in Nat /\ n >= 1
  BY FS_CardinalityType
<1>1. Enough # {}
  <2>1. PICK m \in Nat : \A x \in S : f[x] <= m
    BY FinitelyManyBounded
  <2>2. NotAbove(f, m) = S
    BY <2>1 DEF NotAbove
  <2> QED  BY <1>0, <2>1, <2>2
<1>2. PICK v \in Enough : \A m \in Enough : v <= m
  <2>1. Enough \subseteq Nat
    OBVIOUS
  <2> HIDE DEF Enough
  <2> QED  BY <1>1, <2>1, Least
<1>3. v \in Nat /\ Cardinality(NotAbove(f, v)) >= n
  BY <1>2
<1>4. Cardinality(Below(f, v)) < n
  <2>1. CASE v = 0
    <3>1. Below(f, v) = {}
      BY <2>1 DEF Below
    <3> QED  BY <1>0, <3>1, FS_EmptySet
  <2>2. CASE v # 0
    <3>1. v - 1 \in Nat /\ ~(v <= v - 1)
      BY <1>3, <2>2
    <3>2. ~(Cardinality(NotAbove(f, v - 1)) >= n)
      BY <1>2, <3>1
    <3>3. Below(f, v) = NotAbove(f, v - 1)
      BY <1>3, <3>1 DEF Below, NotAbove
    <3>4. Cardinality(NotAbove(f, v - 1)) \in Nat
      <4>1. NotAbove(f, v - 1) \subseteq S
        BY DEF NotAbove
      <4> QED  BY <4>1, CountsOfPart
    <3> QED  BY <1>0, <3>2, <3>3, <3>4
  <2> QED  BY <2>1, <2>2
<1>5. v \in Range(f)
  <2>1. SUFFICES ASSUME v \notin Range(f) PROVE FALSE
    OBVIOUS
  <2>2. NotAbove(f, v) = Below(f, v)
    <3>1. \A p \in S : f[p] # v /\ f[p] \in Nat
      BY <2>1 DEF Range
    <3> QED  BY <1>3, <3>1 DEF NotAbove, Below
  <2>3. Cardinality(Below(f, v)) \in Nat
    <3>1. Below(f, v) \subseteq S
      BY DEF Below
    <3> QED  BY <3>1, CountsOfPart
  <2> QED  BY <1>0, <1>3, <1>4, <2>2, <2>3
<1>6. AtPlace(f, n, v)
  BY <1>3, <1>4, <1>5 DEF AtPlace
<1>7. AtPlace(f, n, NthSmallest(f, n))
  <2>1. NthSmallest(f, n) = CHOOSE w \in Range(f) : AtPlace(f, n, w)
    BY DEF NthSmallest, AtPlace, Below, NotAbove
  <2> QED  BY <1>5, <1>6, <2>1
<1>8. NthSmallest(f, n) \in Nat
  BY <1>7 DEF AtPlace, Range
<1> QED  BY <1>7, <1>8

(* Each place of the sorted values grows with the values.                  *)
LEMMA PlacesGrow ==
  ASSUME NEW S, IsFiniteSet(S), NEW f \in [S -> Nat], NEW g \in [S -> Nat],
         \A x \in S : f[x] <= g[x], NEW n \in 1..Cardinality(S)
  PROVE  NthSmallest(f, n) <= NthSmallest(g, n)
<1> DEFINE v == NthSmallest(f, n)
           w == NthSmallest(g, n)
<1>1. AtPlace(f, n, v) /\ v \in Nat /\ AtPlace(g, n, w) /\ w \in Nat
  BY PlacesFilled
<1> HIDE DEF v, w
<1>2. SUFFICES ASSUME w < v PROVE FALSE
  BY <1>1 DEF v, w
<1>3. NotAbove(g, w) \subseteq Below(f, v)
  <2>1. \A p \in S : f[p] \in Nat /\ g[p] \in Nat /\ f[p] <= g[p]
    OBVIOUS
  <2> QED  BY <1>1, <1>2, <2>1 DEF NotAbove, Below
<1>4. /\ Cardinality(NotAbove(g, w)) \in Nat /\ Cardinality(Below(f, v)) \in Nat
      /\ Cardinality(NotAbove(g, w)) <= Cardinality(Below(f, v))
  <2>1. Below(f, v) \subseteq S
    BY DEF Below
  <2> QED  BY <1>3, <2>1, CountsOfPart
<1>5. n \in Nat
  <2>1. Cardinality(S) \in Nat
    BY FS_CardinalityType
  <2> QED  BY <2>1
<1> QED  BY <1>1, <1>4, <1>5 DEF AtPlace

LEMMA MediansGrow ==
  ASSUME NEW S, IsFiniteSet(S), S # {}, NEW f \in [S -> Nat], NEW g \in [S -> Nat],
         \A x \in S : f[x] <= g[x]
  PROVE  TwiceMedian(f) \in Nat /\ TwiceMedian(g) \in Nat /\ TwiceMedian(f) <= TwiceMedian(g)
<1> DEFINE n == Cardinality(S)
           a == (n + 1) \div 2
           b == n \div 2 + 1
<1>1. n \in Nat /\ n # 0
  BY FS_CardinalityType, FS_EmptySet
<1>2. a \in 1..n /\ b \in 1..n
  <2> HIDE DEF n
  <2> QED  BY <1>1
<1>3. TwiceMedian(f) = NthSmallest(f, a) + NthSmallest(f, b)
      /\ TwiceMedian(g) = NthSmallest(g, a) + NthSmallest(g, b)
  BY DEF TwiceMedian
<1> HIDE DEF a, b
<1>4. /\ NthSmallest(f, a) \in Nat /\ NthSmallest(g, a) \in Nat
      /\ NthSmallest(f, b) \in Nat /\ NthSmallest(g, b) \in Nat
  BY <1>2, PlacesFilled
<1>5. NthSmallest(f, a) <= NthSmallest(g, a) /\ NthSmallest(f, b) <= NthSmallest(g, b)
  BY <1>2, PlacesGrow
<1> QED  BY <1>3, <1>4, <1>5

-----------------------------------------------------------------------------
(* What a sidecar with a price says.                                       *)

LEMMA CatalogShape ==
  ASSUME NEW deck \in ValidCatalogs
  PROVE  /\ IsFiniteSet(deck)
         /\ \A c \in deck : ValidRates(c.rates) /\ c.rates \in CardRates
BY CatalogsAssumption DEF ValidCatalogs, ValidCatalog

LEMMA CardOnDay ==
  ASSUME NEW deck, IsFiniteSet(deck), NEW provider, NEW model, NEW when,
         RateCardOn(deck, provider, model, when) # Nothing
  PROVE  /\ RateCardOn(deck, provider, model, when) \in deck
         /\ InEffect(RateCardOn(deck, provider, model, when), when)
<1> DEFINE matches == {c \in deck :
                        c.provider = provider /\ c.model = model /\ InEffect(c, when)}
<1>1. Cardinality(matches) = 1 /\ RateCardOn(deck, provider, model, when) = CHOOSE c \in matches : TRUE
  BY DEF RateCardOn
<1>2. matches # {}
  <2>1. matches = {} => Cardinality(matches) = 0
    BY FS_EmptySet
  <2> QED  BY <1>1, <2>1
<1>3. RateCardOn(deck, provider, model, when) \in matches
  <2> HIDE DEF matches
  <2> QED  BY <1>1, <1>2
<1> QED  BY <1>3

(* The model and the card of a payload: of the catalog, and in effect at   *)
(* both ends of the check.                                                 *)
LEMMA PricedByCard ==
  ASSUME NEW h, NEW deck \in ValidCatalogs, WrittenBy(h, deck), Priced(h.sidecar)
  PROVE  /\ h.sidecar.card \in deck
         /\ InEffect(h.sidecar.card, h.started) /\ InEffect(h.sidecar.card, h.finished)
         /\ h.sidecar.model = ResolveModel(deck, h.config, h.result).model
         /\ ResolveModel(deck, h.config, h.result).reason = Nothing
<1> DEFINE identity == ResolveModel(deck, h.config, h.result)
           CardOn(when) == RateCardOn(deck, Provider(h.config.agent), identity.model, when)
           reason ==
             IF h.started > h.finished THEN "invalid_capture_time"
             ELSE IF identity.reason # Nothing THEN identity.reason
             ELSE IF CardOn(h.started) = Nothing /\ CardOn(h.finished) = Nothing THEN "no_rate_card"
             ELSE IF CardOn(h.started) # CardOn(h.finished) THEN "rate_boundary_crossed"
             ELSE Nothing
<1>1. /\ h.sidecar.reason = reason
      /\ h.sidecar.model = IF reason = "invalid_capture_time" THEN Nothing ELSE identity.model
      /\ h.sidecar.card = IF reason = Nothing THEN CardOn(h.started) ELSE Nothing
  <2> HIDE DEF identity
  <2> QED  BY DEF WrittenBy, BuildPayload, identity
<1>2. reason = Nothing
  BY <1>1 DEF Priced
<1>3. "invalid_capture_time" # Nothing /\ "no_rate_card" # Nothing /\ "rate_boundary_crossed" # Nothing
  BY NothingAssumption DEF ModelReasons, RateReasons
<1> HIDE DEF identity, CardOn
<1>4. /\ identity.reason = Nothing /\ CardOn(h.started) = CardOn(h.finished)
      /\ CardOn(h.started) # Nothing
  BY <1>2, <1>3
<1>5. h.sidecar.model = identity.model /\ h.sidecar.card = CardOn(h.started)
  BY <1>1, <1>2, <1>3
<1>6. ASSUME NEW when, CardOn(when) # Nothing PROVE CardOn(when) \in deck /\ InEffect(CardOn(when), when)
  BY <1>6, CatalogShape, CardOnDay DEF CardOn
<1> QED  BY <1>4, <1>5, <1>6 DEF identity

LEMMA ResultShape ==
  ASSUME NEW config \in Configs, NEW result \in Results[config.agent]
  PROVE  /\ config.agent \in Agents /\ IsFiniteSet(DOMAIN result)
         /\ \A i, j \in DOMAIN result : result[i].canary = result[j].canary => i = j
         /\ \A e \in ToSet(result) :
              /\ IsFiniteSet(DOMAIN e.attempts)
              /\ \A a \in ToSet(e.attempts) :
                   a.side \in Sides /\ a.usage \in Maybe(Usage) /\ IsFiniteSet(a.events.models)
BY ResultsAssumption

(* The image of a finite set.                                              *)
LEMMA RangeFinite ==
  ASSUME NEW q, IsFiniteSet(DOMAIN q)
  PROVE  IsFiniteSet(ToSet(q))
<1> DEFINE f == [i \in DOMAIN q |-> q[i]]
<1>1. f \in Surjection(DOMAIN q, ToSet(q))
  BY DEF Surjection, ToSet
<1> HIDE DEF f
<1> QED  BY <1>1, FS_Surjection

(* All streams of a Claude run that names a model name the same one, or    *)
(* none.                                                                   *)
LEMMA ModelsSeen ==
  ASSUME NEW config \in Configs, NEW result \in Results[config.agent]
  PROVE  IsFiniteSet(UNION {s.models : s \in Streams(result)})
<1> DEFINE Of(e) == {a.events : a \in ToSet(e.attempts)}
           ModelsOf(e) == UNION {s.models : s \in Of(e)}
<1>1. ASSUME NEW e \in ToSet(result) PROVE IsFiniteSet(ModelsOf(e))
  <2>1. IsFiniteSet(ToSet(e.attempts))
    BY ResultShape, RangeFinite
  <2> DEFINE f == [a \in ToSet(e.attempts) |-> a.events.models]
             T == {s.models : s \in Of(e)}
  <2>2. f \in Surjection(ToSet(e.attempts), T)
    BY DEF Surjection
  <2>3. \A t \in T : IsFiniteSet(t)
    BY ResultShape
  <2> HIDE DEF f
  <2>4. IsFiniteSet(T)
    BY <2>1, <2>2, FS_Surjection
  <2> HIDE DEF T
  <2>5. IsFiniteSet(UNION T)
    BY <2>3, <2>4, FS_UNION
  <2> QED  BY <2>5 DEF T
<1>2. IsFiniteSet(ToSet(result))
  BY ResultShape, RangeFinite
<1> DEFINE g == [e \in ToSet(result) |-> ModelsOf(e)]
           U == {ModelsOf(e) : e \in ToSet(result)}
<1>3. g \in Surjection(ToSet(result), U)
  BY DEF Surjection
<1>4. \A t \in U : IsFiniteSet(t)
  BY <1>1
<1>5. UNION {s.models : s \in Streams(result)} = UNION U
  BY DEF Streams
<1> HIDE DEF g, U
<1>6. IsFiniteSet(U)
  BY <1>2, <1>3, FS_Surjection
<1> QED  BY <1>4, <1>5, <1>6, FS_UNION

LEMMA ClaudeNamesOneModel ==
  ASSUME NEW config \in Configs, NEW result \in Results[config.agent], NEW deck,
         config.agent = "claude", ResolveModel(deck, config, result).reason = Nothing,
         NEW s \in Streams(result)
  PROVE  s.models \subseteq {ResolveModel(deck, config, result).model}
<1> DEFINE seen == UNION {t.models : t \in Streams(result)}
           known == CanonicalModels(deck, Provider(config.agent))
           unobserved == IF config.model \in known THEN Identified(config.model)
                         ELSE Unidentified("missing_observed_model")
           observed == CHOOSE m \in seen : TRUE
<1>1. IsFiniteSet(seen) /\ Cardinality(seen) \in Nat /\ s.models \subseteq seen
  BY ModelsSeen, FS_CardinalityType
<1>2. "malformed_model_evidence" # Nothing /\ "inconsistent_observed_model" # Nothing
      /\ "unknown_model" # Nothing
  BY NothingAssumption DEF ModelReasons, RateReasons
<1> HIDE DEF seen, known
<1>3. ResolveModel(deck, config, result) = ResolveObserved(known, config.model, result, unobserved)
  BY DEF ResolveModel, ResolveClaude, known
<1>4. ScanObservations(result).failure = Nothing
  <2>1. ScanObservations(result).failure # Nothing =>
          ResolveObserved(known, config.model, result, unobserved) =
            Unidentified(ScanObservations(result).failure)
    BY DEF ResolveObserved
  <2> QED  BY <1>3, <2>1 DEF Unidentified
<1>5. ScanObservations(result).seen = seen /\ ~(Cardinality(seen) > 1)
  BY <1>2, <1>4 DEF ScanObservations, seen
<1>6. CASE seen = {}
  BY <1>1, <1>6
<1>7. CASE seen # {}
  <2>1. observed \in seen
    BY <1>7
  <2>2. Cardinality(seen) = 1
    <3>1. Cardinality(seen) # 0
      BY <1>1, <1>7, FS_EmptySet
    <3> QED  BY <1>1, <1>5, <3>1
  <2>3. seen = {observed}
    <3>1. PICK x : seen = {x}
      BY <1>1, <2>2, FS_Singleton
    <3> QED  BY <2>1, <3>1
  <2>4. ResolveModel(deck, config, result) = Identified(observed)
    BY <1>2, <1>3, <1>4, <1>5, <1>7 DEF ResolveObserved, Unidentified
  <2> QED  BY <1>1, <2>3, <2>4 DEF Identified
<1> QED  BY <1>6, <1>7

(* In a usable pairing no two attempts have the same identity.             *)
LEMMA IdentitiesDiffer ==
  ASSUME NEW e, IsFiniteSet(DOMAIN e.attempts), UsablePairing(e.attempts),
         NEW a \in ToSet(e.attempts), NEW b \in ToSet(e.attempts), a.side \in Sides,
         Identity(e, a) = Identity(e, b)
  PROVE  a = b
<1> DEFINE Of == {k \in DOMAIN e.attempts : e.attempts[k].side = a.side}
           Repetitions == {e.attempts[k].repetition : k \in Of}
           f == [k \in Of |-> e.attempts[k].repetition]
<1>1. IsFiniteSet(Of) /\ Cardinality(Repetitions) = Cardinality(Of)
  <2>1. Of \subseteq DOMAIN e.attempts
    OBVIOUS
  <2>2. IsFiniteSet(Of)
    <3> HIDE DEF Of
    <3> QED  BY <2>1, FS_Subset
  <2> QED  BY <2>2 DEF UsablePairing
<1>2. f \in Surjection(Of, Repetitions)
  BY DEF Surjection
<1>3. PICK k \in DOMAIN e.attempts, m \in DOMAIN e.attempts : e.attempts[k] = a /\ e.attempts[m] = b
  BY DEF ToSet
<1>4. a.side = b.side /\ a.repetition = b.repetition
  BY DEF Identity
<1>5. k \in Of /\ m \in Of /\ f[k] = f[m]
  BY <1>3, <1>4
<1> HIDE DEF Of, Repetitions, f
<1>6. f \in Injection(Of, Repetitions)
  BY <1>1, <1>2, FS_Surjection
<1>7. k = m
  BY <1>5, <1>6 DEF Injection, IsInjective
<1> QED  BY <1>3, <1>7

(* The trust that is looked up for an attempt is its own.                  *)
LEMMA TrustIsOwn ==
  ASSUME NEW config \in Configs, NEW result \in Results[config.agent],
         NEW e \in ToSet(result), UsablePairing(e.attempts), NEW a \in ToSet(e.attempts)
  PROVE  (CHOOSE t \in UsageTrust(config.agent, result) : t.attempt = Identity(e, a)).trust
           = Trust(config.agent, a.events)
<1> DEFINE Rec(x, y) == [attempt |-> Identity(x, y), trust |-> Trust(config.agent, y.events)]
           all == UsageTrust(config.agent, result)
<1>1. all = UNION {{Rec(x, y) : y \in ToSet(x.attempts)} : x \in ToSet(result)}
  BY DEF UsageTrust
<1>2. Rec(e, a) \in all /\ Rec(e, a).attempt = Identity(e, a)
  BY <1>1
<1>3. ASSUME NEW t \in all, t.attempt = Identity(e, a) PROVE t.trust = Trust(config.agent, a.events)
  <2>1. PICK x \in ToSet(result) : \E y \in ToSet(x.attempts) : t = Rec(x, y)
    BY <1>1
  <2>2. PICK y \in ToSet(x.attempts) : t = Rec(x, y)
    BY <2>1
  <2>3. Identity(x, y) = Identity(e, a)
    BY <1>3, <2>2
  <2>4. x.canary = e.canary
    BY <2>3 DEF Identity
  <2>5. x = e
    <3>1. PICK i \in DOMAIN result, j \in DOMAIN result : result[i] = x /\ result[j] = e
      BY DEF ToSet
    <3>2. i = j
      BY <2>4, <3>1, ResultShape
    <3> QED  BY <3>1, <3>2
  <2>6. y = a
    <3>1. IsFiniteSet(DOMAIN e.attempts) /\ a.side \in Sides
      BY ResultShape
    <3> QED  BY <2>3, <2>5, <3>1, IdentitiesDiffer
  <2> QED  BY <2>2, <2>6
<1> HIDE DEF all, Rec
<1> QED  BY <1>2, <1>3 DEF all

Honest(e) ==
  \A a \in ToSet(e.attempts) :
    /\ a.usage # Nothing
    /\ a.events.read /\ a.events.finals = 1
    /\ a.events.write \/ a.usage.write = 0

(* Counts are trusted only where the stream showed them.                   *)
LEMMA TrustedIsShown ==
  ASSUME NEW agent \in Agents, NEW a, NEW rates, Priceable(a.usage, Trust(agent, a.events), rates)
  PROVE  /\ a.usage # Nothing
         /\ a.events.read /\ a.events.finals = 1
         /\ a.events.write \/ a.usage.write = 0
<1>1. /\ a.usage # Nothing
      /\ Trusted(Trust(agent, a.events).read, a.usage.cached)
      /\ Trusted(Trust(agent, a.events).write, a.usage.write)
  BY DEF Priceable
<1>2. ~Trusted("unobserved", a.usage.write) /\ ~Trusted("unobserved", a.usage.cached)
  BY DEF Trusted
<1>3. CASE agent \in {"codex", "gemini"}
  <2>1. Trust(agent, a.events).write = "unobserved"
    BY <1>3 DEF Trust, CodexTrust, GeminiTrust
  <2> QED  BY <1>1, <1>2, <2>1
<1>4. CASE agent = "claude"
  <2>1. Trust(agent, a.events) =
          [read |-> IfValid(a.events.finals = 1 /\ a.events.read),
           write |-> IfValid(a.events.finals = 1 /\ a.events.write)]
    BY <1>4 DEF Trust, ClaudeTrust
  <2> QED  BY <1>1, <1>2, <2>1 DEF IfValid
<1>5. CASE agent = "antigravity"
  <2>1. Trust(agent, a.events) = AntigravityTrust(a.events)
    BY <1>5 DEF Trust
  <2> QED  BY <1>1, <2>1 DEF AntigravityTrust, Trusted
<1> QED  BY <1>3, <1>4, <1>5 DEF Agents

LEMMA PricedIsHonest ==
  ASSUME NEW config \in Configs, NEW result \in Results[config.agent],
         NEW e \in ToSet(result), NEW payload,
         payload.trust = UsageTrust(config.agent, result),
         PriceExecution(e, payload) # Nothing
  PROVE  Honest(e)
<1>1. UsablePairing(e.attempts)
  BY DEF PriceExecution
<1>2. ASSUME NEW a \in ToSet(e.attempts)
      PROVE  Priceable(a.usage, Trust(config.agent, a.events), payload.card.rates)
  <2>1. Priceable(a.usage,
          (CHOOSE t \in payload.trust : t.attempt = Identity(e, a)).trust, payload.card.rates)
    BY DEF PriceExecution
  <2> QED  BY <1>1, <2>1, TrustIsOwn
<1>3. config.agent \in Agents
  BY ResultShape
<1> QED  BY <1>2, <1>3, TrustedIsShown DEF Honest

-----------------------------------------------------------------------------
(* What an execution costs.                                                *)

LEMMA ProductsGrow ==
  ASSUME NEW k \in Nat, NEW m \in Nat, NEW n \in Nat, m <= n
  PROVE  k * m \in Nat /\ k * n \in Nat /\ k * m <= k * n
<1>1. n - m \in Nat /\ n = m + (n - m)
  OBVIOUS
<1>2. k * n = k * m + k * (n - m)
  BY <1>1
<1>3. k * m \in Nat /\ k * (n - m) \in Nat
  BY <1>1
<1> QED  BY <1>2, <1>3

LEMMA TermsGrow ==
  ASSUME NEW count \in Nat, NEW low \in Maybe(Nat), NEW high \in Maybe(Nat),
         HasTerm(count, low), low # Nothing => high # Nothing /\ low <= high
  PROVE  /\ Term(count, low) \in Nat /\ Term(count, high) \in Nat
         /\ Term(count, low) <= Term(count, high)
<1>1. CASE count = 0
  BY <1>1 DEF Term
<1>2. CASE count # 0
  <2>1. low \in Nat /\ high \in Nat /\ low <= high
    BY <1>2 DEF HasTerm, Maybe
  <2> QED  BY <1>2, <2>1, ProductsGrow DEF Term
<1> QED  BY <1>1, <1>2

LEMMA AttemptCostsGrow ==
  ASSUME NEW usage \in Maybe(Usage), NEW trust, NEW rates \in CardRates, ValidRates(rates),
         Priceable(usage, trust, rates)
  PROVE  /\ AttemptCost(usage, rates, rates.write_lower) \in Nat
         /\ AttemptCost(usage, rates, rates.write_upper) \in Nat
         /\ AttemptCost(usage, rates, rates.write_lower)
              <= AttemptCost(usage, rates, rates.write_upper)
<1>1. /\ usage.input \in Nat /\ usage.cached \in Nat /\ usage.write \in Nat /\ usage.output \in Nat
      /\ usage.cached + usage.write <= usage.input
      /\ HasTerm(usage.cached, rates.cached) /\ HasTerm(usage.write, rates.write_lower)
  BY DEF Priceable, Maybe, Usage
<1>2. /\ rates.uncached \in Maybe(Nat) /\ rates.cached \in Maybe(Nat) /\ rates.output \in Maybe(Nat)
      /\ rates.write_lower \in Maybe(Nat) /\ rates.write_upper \in Maybe(Nat)
      /\ rates.uncached # Nothing /\ rates.output # Nothing
  BY NothingAssumption DEF CardRates, Maybe
<1> DEFINE rest == usage.input - usage.cached - usage.write
<1>3. rest \in Nat
  BY <1>1
<1> HIDE DEF rest
<1>4. \A n \in Nat : n <= n
  OBVIOUS
<1>5. ASSUME NEW count \in Nat, NEW rate \in Maybe(Nat), HasTerm(count, rate)
      PROVE  Term(count, rate) \in Nat
  BY <1>4, <1>5, TermsGrow DEF Maybe
<1>6. /\ Term(rest, rates.uncached) \in Nat /\ Term(usage.output, rates.output) \in Nat
      /\ Term(usage.cached, rates.cached) \in Nat
  BY <1>1, <1>2, <1>3, <1>5 DEF HasTerm
<1>7. /\ Term(usage.write, rates.write_lower) \in Nat /\ Term(usage.write, rates.write_upper) \in Nat
      /\ Term(usage.write, rates.write_lower) <= Term(usage.write, rates.write_upper)
  BY <1>1, <1>2, TermsGrow DEF ValidRates
<1>8. ASSUME NEW rate
      PROVE  AttemptCost(usage, rates, rate) =
               Term(rest, rates.uncached) + Term(usage.cached, rates.cached)
                 + Term(usage.write, rate) + Term(usage.output, rates.output)
  BY DEF AttemptCost, rest
<1> QED  BY <1>6, <1>7, <1>8

Ordered(sample) == sample \in Bounds /\ sample.lower <= sample.upper

LEMMA SampleOrdered ==
  ASSUME NEW config \in Configs, NEW result \in Results[config.agent],
         NEW e \in ToSet(result), NEW payload, NEW deck \in ValidCatalogs,
         payload.card \in deck, PriceExecution(e, payload) # Nothing
  PROVE  Ordered(PriceExecution(e, payload))
<1> DEFINE rates == payload.card.rates
           D == DOMAIN e.attempts
           f == [k \in D |-> AttemptCost(e.attempts[k].usage, rates, rates.write_lower)]
           g == [k \in D |-> AttemptCost(e.attempts[k].usage, rates, rates.write_upper)]
<1>1. PriceExecution(e, payload) = [lower |-> SumFunction(f), upper |-> SumFunction(g)]
  BY DEF PriceExecution
<1>2. \A a \in ToSet(e.attempts) : \E trust : Priceable(a.usage, trust, rates)
  BY DEF PriceExecution
<1>3. rates \in CardRates /\ ValidRates(rates)
  BY CatalogShape
<1> HIDE DEF rates
<1>4. IsFiniteSet(D) /\ \A a \in ToSet(e.attempts) : a.usage \in Maybe(Usage)
  BY ResultShape
<1>5. ASSUME NEW k \in D PROVE f[k] \in Nat /\ g[k] \in Nat /\ f[k] <= g[k]
  <2>1. e.attempts[k] \in ToSet(e.attempts)
    BY DEF ToSet
  <2>2. PICK trust : Priceable(e.attempts[k].usage, trust, rates)
    BY <1>2, <2>1
  <2> QED  BY <1>3, <1>4, <2>1, <2>2, AttemptCostsGrow
<1>6. f \in [D -> Nat] /\ g \in [D -> Nat]
  BY <1>5
<1> HIDE DEF f, g, D
<1>7. SumFunction(f) \in Nat /\ SumFunction(g) \in Nat /\ SumFunction(f) <= SumFunction(g)
  BY <1>4, <1>5, <1>6, SumsGrow
<1> QED  BY <1>1, <1>7 DEF Ordered, Bounds

-----------------------------------------------------------------------------
(* What is read back.                                                      *)

LEMMA PayloadFields ==
  ASSUME NEW r, NEW finished, NEW result
  PROVE  /\ BuildPayload(r, finished, result).config = r.config
         /\ BuildPayload(r, finished, result).trust = UsageTrust(r.config.agent, result)
BY DEF BuildPayload

LEMMA SelectedPriced ==
  ASSUME CostInv, NEW config, NEW i \in Selected(config)
  PROVE  /\ i \in Reports /\ i \in Parsed /\ i \in Records /\ Priced(Sidecar(i))
         /\ history[i].config = config /\ history[i].config \in Configs
         /\ history[i].result \in Results[history[i].config.agent]
         /\ Sidecar(i).trust = UsageTrust(history[i].config.agent, history[i].result)
         /\ Cohort(i) = SelectCohort(config)
         /\ \E deck \in ValidCatalogs : WrittenBy(history[i], deck) /\ Sidecar(i).card \in deck
<1>1. /\ i \in Records /\ Priced(Sidecar(i)) /\ Sidecar(i).config = config
      /\ Cohort(i) = SelectCohort(config)
  BY DEF Selected, Comparable
<1>2. i \in Parsed
  BY <1>1 DEF Records, ResolveSnapshotConflicts
<1>3. i \in Reports /\ Sidecar(i) # Nothing /\ Sidecar(i) # Damaged
  BY <1>2 DEF Parsed, OlderUnpinned, ParsePayload
<1>4. AsWritten(history[i])
  BY <1>3 DEF CostInv, HistoryInv
<1>5. PICK deck \in ValidCatalogs : WrittenBy(history[i], deck)
  BY <1>3, <1>4 DEF AsWritten, Sidecar
<1>6. Sidecar(i).config = history[i].config
      /\ Sidecar(i).trust = UsageTrust(history[i].config.agent, history[i].result)
  <2> DEFINE r == [config |-> history[i].config, cards |-> deck, started |-> history[i].started]
  <2>1. Sidecar(i) = BuildPayload(r, history[i].finished, history[i].result)
    BY <1>5 DEF WrittenBy, Sidecar
  <2>2. r.config = history[i].config
    OBVIOUS
  <2> HIDE DEF r
  <2> QED  BY <2>1, <2>2, PayloadFields
<1>7. Sidecar(i).card \in deck
  BY <1>1, <1>5, PricedByCard DEF Sidecar
<1> QED  BY <1>1, <1>2, <1>3, <1>4, <1>5, <1>6, <1>7 DEF AsWritten

LEMMA ReportCounted ==
  ASSUME NEW config, NEW suite, NEW i \in Reports
  PROVE  CountedOnce(i, Classes(Analyze(config, suite)))
<1> DEFINE ofConfig == {j \in Records : Sidecar(j).config = config}
           classes == <<OlderUnpinned, Failures, Records \ ofConfig,
                        {j \in ofConfig : ~Priced(Sidecar(j))},
                        Comparable(config) \ Selected(config), Selected(config)>>
<1>1. Classes(Analyze(config, suite)) = classes
  BY DEF Classes, Analyze
<1>2. Records \subseteq Reports \ OlderUnpinned
  BY DEF Records, ResolveSnapshotConflicts, Parsed
<1>3. /\ Comparable(config) = {j \in ofConfig : Priced(Sidecar(j))}
      /\ Selected(config) \subseteq Comparable(config)
  BY DEF Comparable, Selected
<1>4. Failures = Reports \ (OlderUnpinned \cup Records)
  BY DEF Failures
<1>5. DOMAIN classes = 1..6 /\ 1..6 = {1, 2, 3, 4, 5, 6}
  OBVIOUS
<1>6. \E k : {m \in DOMAIN classes : i \in classes[m]} = {k}
  <2>1. CASE i \in OlderUnpinned
    <3>1. {m \in DOMAIN classes : i \in classes[m]} = {1}
      BY <1>2, <1>3, <1>4, <1>5, <2>1
    <3> QED  BY <3>1
  <2>2. CASE i \notin OlderUnpinned \cup Records
    <3>1. {m \in DOMAIN classes : i \in classes[m]} = {2}
      BY <1>2, <1>3, <1>4, <1>5, <2>2
    <3> QED  BY <3>1
  <2>3. CASE i \in Records \ ofConfig
    <3>1. {m \in DOMAIN classes : i \in classes[m]} = {3}
      BY <1>2, <1>3, <1>4, <1>5, <2>3
    <3> QED  BY <3>1
  <2>4. CASE i \in ofConfig /\ ~Priced(Sidecar(i))
    <3>1. {m \in DOMAIN classes : i \in classes[m]} = {4}
      BY <1>2, <1>3, <1>4, <1>5, <2>4
    <3> QED  BY <3>1
  <2>5. CASE i \in Comparable(config) \ Selected(config)
    <3>1. {m \in DOMAIN classes : i \in classes[m]} = {5}
      BY <1>2, <1>3, <1>4, <1>5, <2>5
    <3> QED  BY <3>1
  <2>6. CASE i \in Selected(config)
    <3>1. {m \in DOMAIN classes : i \in classes[m]} = {6}
      BY <1>2, <1>3, <1>4, <1>5, <2>6
    <3> QED  BY <3>1
  <2> QED  BY <1>3, <2>1, <2>2, <2>3, <2>4, <2>5, <2>6
<1> HIDE DEF classes
<1> QED  BY <1>1, <1>6, FS_Singleton DEF CountedOnce

LEMMA SamplesOrdered ==
  ASSUME CostInv, NEW config, NEW canary
  PROVE  /\ IsFiniteSet(DOMAIN Samples(config, canary))
         /\ \A p \in DOMAIN Samples(config, canary) : Ordered(Samples(config, canary)[p])
<1> DEFINE Price(p) == PriceExecution(history[p[1]].result[p[2]], Sidecar(p[1]))
           Of(i) == {i} \X DOMAIN history[i].result
           all == {Of(i) : i \in Selected(config)}
           D == {p \in UNION all : /\ history[p[1]].result[p[2]].canary = canary
                                   /\ Price(p) # Nothing}
<1>1. Samples(config, canary) = [p \in D |-> Price(p)]
  BY DEF Samples
<1>2. ASSUME NEW i \in Selected(config) PROVE IsFiniteSet(Of(i))
  <2>1. IsFiniteSet(DOMAIN history[i].result)
    BY SelectedPriced, ResultShape
  <2> QED  BY <2>1, FS_Singleton, FS_Product
<1>3. IsFiniteSet(Selected(config))
  <2>1. Selected(config) \subseteq 1..Len(history)
    BY SelectedPriced DEF Reports
  <2>2. PICK S : history \in Seq(S)
    BY DEF CostInv, HistoryInv
  <2>3. Len(history) \in Nat
    BY <2>2
  <2>4. IsFiniteSet(1..Len(history))
    BY <2>3, FS_Interval
  <2> QED  BY <2>1, <2>4, FS_Subset
<1>4. IsFiniteSet(all)
  <2> DEFINE f == [i \in Selected(config) |-> Of(i)]
  <2>1. f \in Surjection(Selected(config), all)
    BY DEF Surjection
  <2> HIDE DEF f, all
  <2> QED  BY <1>3, <2>1, FS_Surjection
<1>5. IsFiniteSet(UNION all)
  <2>1. \A t \in all : IsFiniteSet(t)
    BY <1>2
  <2> HIDE DEF all
  <2> QED  BY <1>4, <2>1, FS_UNION
<1>6. IsFiniteSet(D)
  <2>1. D \subseteq UNION all
    OBVIOUS
  <2> HIDE DEF D, all
  <2> QED  BY <1>5, <2>1, FS_Subset
<1>7. ASSUME NEW p \in D PROVE Ordered(Price(p))
  <2>1. PICK i \in Selected(config) : p \in {i} \X DOMAIN history[i].result
    OBVIOUS
  <2>2. p[1] = i /\ p[2] \in DOMAIN history[i].result
    BY <2>1
  <2>3. history[i].result[p[2]] \in ToSet(history[i].result)
    BY <2>2 DEF ToSet
  <2>4. Price(p) # Nothing
    OBVIOUS
  <2>5. PICK deck \in ValidCatalogs : Sidecar(i).card \in deck
    BY SelectedPriced
  <2>6. history[i].config \in Configs /\ history[i].result \in Results[history[i].config.agent]
    BY SelectedPriced
  <2> QED  BY <2>2, <2>3, <2>4, <2>5, <2>6, SampleOrdered
<1> HIDE DEF D, Price
<1> QED  BY <1>1, <1>6, <1>7

LEMMA EstimateOrdered ==
  ASSUME CostInv, NEW config, NEW canary, Estimate(Samples(config, canary)) # Nothing
  PROVE  Ordered(Estimate(Samples(config, canary)))
<1> DEFINE samples == Samples(config, canary)
           D == DOMAIN samples
           f == [p \in D |-> samples[p].lower]
           g == [p \in D |-> samples[p].upper]
<1>1. D # {} /\ Estimate(samples) = [lower |-> TwiceMedian(f), upper |-> TwiceMedian(g)]
  BY DEF Estimate
<1>2. IsFiniteSet(D) /\ \A p \in D : Ordered(samples[p])
  BY SamplesOrdered
<1> HIDE DEF samples
<1>3. \A p \in D : f[p] \in Nat /\ g[p] \in Nat /\ f[p] <= g[p]
  BY <1>2 DEF Ordered, Bounds
<1>4. f \in [D -> Nat] /\ g \in [D -> Nat]
  BY <1>3
<1> HIDE DEF D, f, g
<1>5. TwiceMedian(f) \in Nat /\ TwiceMedian(g) \in Nat /\ TwiceMedian(f) <= TwiceMedian(g)
  BY <1>1, <1>2, <1>3, <1>4, MediansGrow
<1> QED  BY <1>1, <1>5 DEF Ordered, Bounds, samples

LEMMA SuiteOrdered ==
  ASSUME CostInv, NEW config, NEW suite \in Suites
  PROVE  LET cost == Analyze(config, suite)
         IN  /\ cost.suite # Nothing <=> \A c \in suite : cost.estimates[c] # Nothing
             /\ cost.suite # Nothing => cost.suite.lower <= cost.suite.upper
<1> DEFINE E == [c \in suite |-> Estimate(Samples(config, c))]
           f == [c \in suite |-> E[c].lower]
           g == [c \in suite |-> E[c].upper]
<1>1. /\ Analyze(config, suite).estimates = E
      /\ Analyze(config, suite).suite =
           IF \E c \in suite : E[c] = Nothing THEN Nothing
           ELSE [lower |-> SumFunction(f), upper |-> SumFunction(g)]
  BY DEF Analyze
<1>2. ASSUME \A c \in suite : E[c] # Nothing
      PROVE  /\ SumFunction(f) \in Nat /\ SumFunction(g) \in Nat
             /\ SumFunction(f) <= SumFunction(g)
  <2>1. \A c \in suite : Ordered(E[c])
    BY <1>2, EstimateOrdered
  <2> HIDE DEF E
  <2>2. \A c \in suite : f[c] \in Nat /\ g[c] \in Nat /\ f[c] <= g[c]
    BY <2>1 DEF Ordered, Bounds
  <2>3. f \in [suite -> Nat] /\ g \in [suite -> Nat]
    BY <2>2
  <2> HIDE DEF f, g
  <2> QED  BY <2>2, <2>3, SumsGrow, SuitesAssumption
<1> HIDE DEF E, f, g
<1>3. CASE \E c \in suite : E[c] = Nothing
  BY <1>1, <1>3
<1>4. CASE \A c \in suite : E[c] # Nothing
  <2>1. [lower |-> SumFunction(f), upper |-> SumFunction(g)] \in Bounds
    BY <1>2, <1>4 DEF Bounds
  <2> QED  BY <1>1, <1>2, <1>4, <2>1, NothingAssumption
<1> QED  BY <1>3, <1>4

LEMMA SelectedIsOwn ==
  ASSUME CostInv, NEW config \in Configs, NEW i \in Selected(config)
  PROVE  OwnPrice(config, i)
<1>1. /\ Priced(history[i].sidecar) /\ history[i].config = config
      /\ history[i].result \in Results[config.agent]
      /\ Sidecar(i).trust = UsageTrust(config.agent, history[i].result)
  BY SelectedPriced DEF Sidecar
<1>2. PICK deck \in ValidCatalogs : WrittenBy(history[i], deck)
  BY SelectedPriced
<1>3. /\ InEffect(Sidecar(i).card, history[i].started)
      /\ InEffect(Sidecar(i).card, history[i].finished)
      /\ Sidecar(i).model = ResolveModel(deck, config, history[i].result).model
      /\ ResolveModel(deck, config, history[i].result).reason = Nothing
  BY <1>1, <1>2, PricedByCard DEF Sidecar
<1>4. config.agent = "claude" =>
        \A s \in Streams(history[i].result) : s.models \subseteq {Sidecar(i).model}
  BY <1>1, <1>3, ClaudeNamesOneModel
<1>5. ASSUME NEW e \in ToSet(history[i].result), PriceExecution(e, Sidecar(i)) # Nothing
      PROVE  HonestSample(i, e)
  <2>1. Honest(e)
    BY <1>1, <1>5, PricedIsHonest
  <2> QED  BY <2>1 DEF Honest, HonestSample
<1> QED  BY <1>1, <1>3, <1>4, <1>5 DEF OwnPrice

(* Every price in an estimate is by the same card: records that know a     *)
(* card id by different rates were set aside.                              *)
LEMMA OneCard ==
  ASSUME CostInv, NEW config, NEW i \in Selected(config), NEW j \in Selected(config)
  PROVE  Sidecar(i).card = Sidecar(j).card
<1>1. Cohort(i) = Cohort(j) /\ Priced(Sidecar(i)) /\ Priced(Sidecar(j))
      /\ i \in Records /\ j \in Parsed
  BY SelectedPriced
<1>2. Sidecar(i).card.id = Sidecar(j).card.id
  BY <1>1 DEF Cohort
<1> QED  BY <1>1, <1>2 DEF Records, ResolveSnapshotConflicts

LEMMA HonestHistory == ASSUME CostInv PROVE EstimateIsHonest
<1>1. ASSUME NEW config \in Configs, NEW suite \in Suites, NEW c \in suite,
             Analyze(config, suite).estimates[c] # Nothing
      PROVE  Analyze(config, suite).estimates[c].lower <= Analyze(config, suite).estimates[c].upper
  <2>1. Analyze(config, suite).estimates[c] = Estimate(Samples(config, c))
    BY DEF Analyze
  <2> QED  BY <1>1, <2>1, EstimateOrdered DEF Ordered
<1>2. \A config, suite : Analyze(config, suite).selected = Selected(config)
  BY DEF Analyze
<1> QED  BY <1>1, <1>2, ReportCounted, SelectedIsOwn, OneCard, SuiteOrdered DEF EstimateIsHonest

(* Whatever happens between the checks, an estimate counts every report    *)
(* once and rests on what was observed, under one rate card that was in    *)
(* effect (pricing/analysis.py:50-181).                                    *)
THEOREM EstimatesHonest == CostSpec => []EstimateIsHonest
BY CostInductive, HonestHistory, PTL
=============================================================================
