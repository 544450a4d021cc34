-------------------------- MODULE NestedJobsProofs --------------------------
(***************************************************************************)
(* Theorems about NestedJobs for any number of parents, children, slots,   *)
(* loops and attempts: its invariants, from one that is inductive.         *)
(***************************************************************************)
EXTENDS NestedJobs, FiniteSetTheorems, TLAPS

USE NestedAssumption

Index == 0 .. BatchCount - 1

Held == {loops[l] : l \in Loop}

(* BullMQ's side: what waits is alive, what is active runs.                *)
Queued ==
  /\ \A j \in waiting : status[j] \in Alive
  /\ \A j \in active : status[j] = "running"
  /\ waiting \cap active = {}

(* Each launch of a parent has been paid for by a failed attempt or by a   *)
(* crash, except that of the delivery under way.                           *)
LaunchesPaid ==
  /\ spent["crashes"] <= MaxCrashes
  /\ \A p \in Parent :
       /\ launch[p] <= charged[p] + spent["crashes"] + 1
       /\ p \in waiting => launch[p] <= charged[p] + spent["crashes"]
       /\ status[p] = "none" => launch[p] = 0
       /\ p \in active \/ phase[p] = "cached" => launch[p] > 0

(* Joined children have completed. *)
JoinedCompleted ==
  \A p \in Parent :
    /\ \A c \in joined[p] :
         ChildOf(p, c) \in Child /\ status[ChildOf(p, c)] = "completed"
    /\ phase[p] = "cached" => joined[p] = 1 .. Nested

(* Parents before the batch have ended, and those after it have not begun. *)
BatchByBatch ==
  \A i \in 0 .. JobCount - 1 :
    /\ i < offset => status[<<i>>] \in Over
    /\ i >= offset + BatchCount => status[<<i>>] = "none"

(* The counter of mapWithConcurrency is ahead of what the loops hold, and  *)
(* the first loop stops only when the counter is at the end.               *)
Counter ==
  /\ nextIndex <= BatchCount
  /\ \A l \in Loop : loops[l] \in {Idle, Stopped} \cup (0 .. nextIndex - 1)
  /\ \A l, m \in Loop : loops[l] >= 0 /\ loops[l] = loops[m] => l = m
  /\ loops[1] = Stopped => nextIndex = BatchCount

(* What the loops have done with the indices that were handed out. *)
Handed ==
  \A i \in Index :
    /\ stage = "start" =>
         (status[InBatch(i)] = "none" <=> i >= nextIndex \/ i \in Held)
    /\ stage = "collect" =>
         /\ status[InBatch(i)] # "none"
         /\ i < nextIndex /\ i \notin Held => status[InBatch(i)] \in Over

IInv ==
  /\ TypeOK /\ Queued /\ LaunchesPaid /\ JoinedCompleted
  /\ BatchByBatch /\ Counter /\ Handed

-----------------------------------------------------------------------------
(* Jobs and batches *)

LEMMA ParentIndices ==
  /\ \A i \in 0 .. JobCount - 1 : <<i>> \in Parent
  /\ \A p \in Parent : \E i \in 0 .. JobCount - 1 : p = <<i>>
  /\ \A i, k : <<i>> = <<k>> => i = k
  BY DEF Parent

LEMMA ChildrenAreNoParents ==
  /\ \A p, l, c : <<p, l, c>> \notin Parent
  /\ Child \cap Parent = {}
  /\ Child \subseteq Job /\ Parent \subseteq Job
<1>1. \A p, l, c, i : <<p, l, c>> # <<i>>
  OBVIOUS
<1> QED
  BY <1>1 DEF Parent, Child, Job

LEMMA LaunchedChildren ==
  ASSUME NEW p \in Parent, launch[p] \in 0 .. MaxLaunch, launch[p] > 0,
         NEW c \in 1 .. Nested
  PROVE  ChildOf(p, c) \in Child
  BY DEF ChildOf, Child, MaxLaunch

LEMMA BatchSizes ==
  ASSUME offset \in 0 .. JobCount - 1
  PROVE  /\ SafeBatchSize \in Nat \ {0}
         /\ BatchCount \in 1 .. SafeBatchSize
         /\ offset + BatchCount <= JobCount
         /\ offset + SafeBatchSize >= JobCount => offset + BatchCount = JobCount
         /\ offset + SafeBatchSize < JobCount => BatchCount = SafeBatchSize
         /\ \A i \in Index : InBatch(i) \in Parent /\ offset + i \in 0 .. JobCount - 1
<1>1. SafeBatchSize \in Nat \ {0}
  BY DEF SafeBatchSize, Larger
<1>2. /\ BatchCount \in 1 .. SafeBatchSize
      /\ offset + BatchCount <= JobCount
      /\ offset + SafeBatchSize >= JobCount => offset + BatchCount = JobCount
      /\ offset + SafeBatchSize < JobCount => BatchCount = SafeBatchSize
  BY <1>1 DEF BatchCount, Smaller
<1>3. \A i \in Index : offset + i \in 0 .. JobCount - 1
  BY <1>1, <1>2 DEF Index
<1> QED
  BY <1>1, <1>2, <1>3, ParentIndices DEF InBatch

LEMMA FirstLoop ==
  /\ Loop \subseteq Nat
  /\ 1 \in Loop
  /\ \A c, n \in Nat \ {0} :
       /\ Runners(c, n) \in [Loop -> {Idle, Stopped}]
       /\ Runners(c, n)[1] = Idle
<1>1. Loop \subseteq Nat /\ 1 \in Loop
  BY DEF Loop, Larger
<1>2. \A c, n \in Nat \ {0} : Larger(1, Smaller(c, n)) \in Nat \ {0}
  BY DEF Larger, Smaller
<1> QED
  BY <1>1, <1>2 DEF Runners

-----------------------------------------------------------------------------
(* The steps of jobs leave the runner alone, and what they do to parents   *)
(* is not what the runner has to fear.                                     *)

Progress ==
  \A p \in Parent :
    \/ status'[p] = status[p]
    \/ status[p] \in Alive /\ status'[p] \in Alive \cup Over

LEMMA ProgressSuffices ==
  ASSUME IInv, Progress, UNCHANGED runnerVars
  PROVE  BatchByBatch' /\ Counter' /\ Handed'
<1> USE DEF runnerVars
<1>1. /\ BatchCount' = BatchCount /\ Index' = Index /\ Held' = Held
      /\ \A i : InBatch(i)' = InBatch(i)
  BY DEF BatchCount, Index, Held, InBatch
<1>2. Counter'
  BY <1>1 DEF IInv, Counter
<1>3. /\ \A p \in Parent : status[p] = "none" <=> status'[p] = "none"
      /\ \A p \in Parent : status[p] \in Over => status'[p] \in Over
  BY DEF Progress, Alive, Over
<1>4. BatchByBatch'
  BY <1>1, <1>3, ParentIndices DEF IInv, BatchByBatch
<1>5. \A i \in Index : InBatch(i) \in Parent
  BY BatchSizes DEF IInv, TypeOK
<1>6. Handed'
  BY <1>1, <1>3, <1>5 DEF IInv, Handed
<1> QED
  BY <1>2, <1>4, <1>6

(* The number of launches is bounded by what was spent on them. *)
LEMMA LaunchesBounded ==
  ASSUME LaunchesPaid, NEW p \in Parent, launch[p] \in Nat,
         charged[p] \in 0 .. StepAttempts - 1, spent["crashes"] \in Nat
  PROVE  launch[p] \in 0 .. MaxLaunch
  BY DEF LaunchesPaid, MaxLaunch

-----------------------------------------------------------------------------
(* The worker *)

LEMMA TakeKeeps ==
  ASSUME IInv, NEW j \in Job, Take(j)
  PROVE  IInv'
<1> USE DEF Take
<1>1. TypeOK /\ Queued /\ LaunchesPaid /\ JoinedCompleted
  BY DEF IInv
<1>2. status[j] \in Alive /\ j \notin active
  BY <1>1 DEF Queued
<1>3. Progress /\ UNCHANGED runnerVars
  BY <1>1, <1>2 DEF Progress, TypeOK, Alive, Over
<1>4. Queued'
  BY <1>1 DEF Queued, TypeOK, Alive
<1>5. CASE j \in Parent /\ phase[j] # "cached"
  <2> USE <1>5 DEF Relaunch
  <2>1. /\ launch' = [launch EXCEPT ![j] = @ + 1]
        /\ joined' = [joined EXCEPT ![j] = {}]
        /\ phase' \in [Parent -> {"start", "join", "cached"}]
        /\ phase'[j] # "cached"
        /\ \A p \in Parent : p # j => phase'[p] = phase[p]
    BY <1>1 DEF TypeOK
  <2>2. LaunchesPaid'
    BY <1>1, <2>1 DEF LaunchesPaid, TypeOK
  <2>3. \A p \in Parent : launch'[p] \in 0 .. MaxLaunch
    BY <1>1, <2>1, <2>2 DEF LaunchesPaid, TypeOK, MaxLaunch
  <2>4. TypeOK'
    BY <1>1, <2>1, <2>3 DEF TypeOK, Alive, runnerVars
  <2>5. JoinedCompleted'
    <3>1. DOMAIN joined = Parent /\ DOMAIN launch = Parent /\ joined'[j] = {}
      BY <1>1, <2>1 DEF TypeOK
    <3>2. ASSUME NEW p \in Parent, p # j
          PROVE  joined'[p] = joined[p] /\ launch'[p] = launch[p] /\ phase'[p] = phase[p]
      BY <2>1, <3>1, <3>2
    <3>3. ASSUME NEW p \in Parent, NEW c \in joined'[p]
          PROVE  ChildOf(p, c)' \in Child /\ status'[ChildOf(p, c)'] = "completed"
      <4>1. p # j
        BY <3>1, <3>3
      <4>2. c \in joined[p] /\ ChildOf(p, c)' = ChildOf(p, c)
        BY <3>2, <4>1 DEF ChildOf
      <4>3. ChildOf(p, c) \in Child /\ status[ChildOf(p, c)] = "completed"
        BY <1>1, <4>2 DEF JoinedCompleted
      <4>4. ChildOf(p, c) # j
        BY <1>5, <4>3, ChildrenAreNoParents
      <4>5. status'[ChildOf(p, c)] = status[ChildOf(p, c)]
        BY <1>1, <4>4 DEF TypeOK
      <4> QED
        BY <4>2, <4>3, <4>5
    <3>4. \A p \in Parent : phase'[p] = "cached" => joined'[p] = 1 .. Nested
      BY <1>1, <2>1, <3>2 DEF JoinedCompleted
    <3> QED
      BY <3>3, <3>4 DEF JoinedCompleted
  <2> QED
    BY <1>3, <1>4, <2>2, <2>4, <2>5, ProgressSuffices DEF IInv
<1>6. CASE ~(j \in Parent /\ phase[j] # "cached")
  <2>1. TypeOK'
    BY <1>1, <1>6 DEF TypeOK, Alive, runnerVars
  <2>2. LaunchesPaid'
    BY <1>1, <1>6 DEF LaunchesPaid, TypeOK
  <2>3. JoinedCompleted'
    BY <1>1, <1>2, <1>6, ChildrenAreNoParents DEF JoinedCompleted, TypeOK, Alive, ChildOf
  <2> QED
    BY <1>3, <1>4, <2>1, <2>2, <2>3, ProgressSuffices DEF IInv
<1> QED
  BY <1>5, <1>6

(* The end of a job that runs. *)
LEMMA EndKeeps ==
  ASSUME IInv, NEW j \in active, NEW how \in Over, End(j, how),
         UNCHANGED <<waiting, phase, launch, charged, joined, runnerVars>>,
         spent' \in [{"timeouts", "failures", "crashes"} -> Nat],
         spent'["crashes"] = spent["crashes"]
  PROVE  IInv'
<1> USE DEF End
<1>1. TypeOK /\ Queued /\ LaunchesPaid /\ JoinedCompleted
  BY DEF IInv
<1>2. status[j] = "running" /\ j \in Job /\ j \notin waiting
  BY <1>1 DEF Queued, TypeOK
<1>3. Progress
  BY <1>1, <1>2 DEF Progress, TypeOK, Alive, Over
<1>4. TypeOK'
  BY <1>1 DEF TypeOK, runnerVars
<1>5. Queued'
  BY <1>1, <1>2 DEF Queued, TypeOK
<1>6. LaunchesPaid'
  BY <1>1, <1>2 DEF LaunchesPaid, TypeOK, Over
<1>7. JoinedCompleted'
  BY <1>1, <1>2, ChildrenAreNoParents DEF JoinedCompleted, TypeOK, ChildOf
<1> QED
  BY <1>3, <1>4, <1>5, <1>6, <1>7, ProgressSuffices DEF IInv

LEMMA RunChildKeeps ==
  ASSUME IInv, NEW j \in Job, RunChild(j)
  PROVE  IInv'
<1>1. spent' \in [{"timeouts", "failures", "crashes"} -> Nat]
      /\ spent'["crashes"] = spent["crashes"]
  BY DEF IInv, TypeOK, RunChild, Spend
<1> QED
  BY <1>1, EndKeeps DEF RunChild, Over

LEMMA CrashKeeps ==
  ASSUME IInv, Crash
  PROVE  IInv'
<1> USE DEF Crash, Spend
<1>1. TypeOK /\ Queued /\ LaunchesPaid /\ JoinedCompleted
  BY DEF IInv
<1>2. Progress /\ UNCHANGED runnerVars
  BY DEF Progress
<1>3. TypeOK'
  BY <1>1 DEF TypeOK, runnerVars
<1>4. Queued'
  BY <1>1 DEF Queued, Alive
<1>5. LaunchesPaid'
  BY <1>1 DEF LaunchesPaid, TypeOK
<1>6. JoinedCompleted'
  BY <1>1 DEF JoinedCompleted, ChildOf
<1> QED
  BY <1>2, <1>3, <1>4, <1>5, <1>6, ProgressSuffices DEF IInv

-----------------------------------------------------------------------------
(* invokeChildren *)

(* A parent that holds a slot has launched children that are jobs. *)
LEMMA ActiveParent ==
  ASSUME IInv, NEW p \in Parent, p \in active
  PROVE  /\ status[p] = "running" /\ p \notin waiting
         /\ launch[p] \in 1 .. MaxLaunch
         /\ \A c \in 1 .. Nested :
              ChildOf(p, c) \in Child /\ ChildOf(p, c) \in Job
              /\ ChildOf(p, c) \notin Parent
<1>1. status[p] = "running" /\ p \notin waiting /\ launch[p] \in 1 .. MaxLaunch
  BY DEF IInv, Queued, LaunchesPaid, TypeOK, MaxLaunch
<1> QED
  BY <1>1, LaunchedChildren, ChildrenAreNoParents

LEMMA StartChildKeeps ==
  ASSUME IInv, NEW p \in Parent, NEW c \in 1 .. Nested, StartChild(p, c)
  PROVE  IInv'
<1> DEFINE k == ChildOf(p, c)
<1>1. TypeOK /\ Queued /\ LaunchesPaid /\ JoinedCompleted
  BY DEF IInv
<1>2. k \in Child /\ k \in Job /\ k \notin Parent /\ status[k] = "none"
  BY ActiveParent DEF StartChild
<1>3. /\ status' = [status EXCEPT ![k] = "pending"]
      /\ waiting' = waiting \cup {k}
      /\ UNCHANGED <<active, launch, charged, joined, spent, runnerVars>>
      /\ phase' = phase \/ phase' = [phase EXCEPT ![p] = "join"]
  BY DEF StartChild, Add
<1> HIDE DEF k
<1>4. Progress /\ UNCHANGED runnerVars
  BY <1>1, <1>2, <1>3 DEF Progress, TypeOK
<1>5. TypeOK'
  BY <1>1, <1>2, <1>3 DEF TypeOK, Alive, runnerVars
<1>6. Queued'
  BY <1>1, <1>2, <1>3 DEF Queued, TypeOK, Alive
<1>7. LaunchesPaid'
  BY <1>1, <1>2, <1>3 DEF LaunchesPaid, TypeOK
<1>8. JoinedCompleted'
  BY <1>1, <1>2, <1>3, ChildrenAreNoParents DEF JoinedCompleted, TypeOK, ChildOf
<1> QED
  BY <1>4, <1>5, <1>6, <1>7, <1>8, ProgressSuffices DEF IInv

LEMMA JoinChildKeeps ==
  ASSUME IInv, NEW p \in Parent, NEW c \in 1 .. Nested, JoinChild(p, c)
  PROVE  IInv'
<1> USE DEF JoinChild
<1>1. TypeOK /\ Queued /\ LaunchesPaid /\ JoinedCompleted
  BY DEF IInv
<1>2. Progress /\ UNCHANGED runnerVars
  BY DEF Progress
<1>3. TypeOK'
  BY <1>1 DEF TypeOK, runnerVars
<1>4. Queued' /\ LaunchesPaid'
  BY <1>1 DEF Queued, LaunchesPaid
<1>5. JoinedCompleted'
  BY <1>1, ActiveParent DEF JoinedCompleted, TypeOK, ChildOf
<1> QED
  BY <1>2, <1>3, <1>4, <1>5, ProgressSuffices DEF IInv

LEMMA StepFailsKeeps ==
  ASSUME IInv, NEW p \in Parent, p \in active, StepFails(p),
         spent' \in [{"timeouts", "failures", "crashes"} -> Nat],
         spent'["crashes"] = spent["crashes"]
  PROVE  IInv'
<1> USE DEF StepFails
<1>1. TypeOK /\ Queued /\ LaunchesPaid /\ JoinedCompleted
  BY DEF IInv
<1>2. p \notin waiting /\ status[p] = "running"
  BY ActiveParent
<1>3. CASE charged[p] + 1 < StepAttempts
  <2>1. /\ launch' = [launch EXCEPT ![p] = @ + 1]
        /\ joined' = [joined EXCEPT ![p] = {}]
        /\ charged' = [charged EXCEPT ![p] = @ + 1]
        /\ phase' \in [Parent -> {"start", "join", "cached"}]
        /\ phase'[p] # "cached"
        /\ \A q \in Parent : q # p => phase'[q] = phase[q]
        /\ UNCHANGED <<status, active, waiting, runnerVars>>
    BY <1>1, <1>3 DEF TypeOK, Relaunch
  <2>2. Progress
    BY <2>1 DEF Progress
  <2>3. Queued'
    BY <1>1, <2>1 DEF Queued
  <2>4. LaunchesPaid'
    BY <1>1, <1>2, <2>1 DEF LaunchesPaid, TypeOK
  <2>5. \A q \in Parent : charged'[q] \in 0 .. StepAttempts - 1
    BY <1>1, <1>3, <2>1 DEF TypeOK
  <2>6. \A q \in Parent : launch'[q] \in 0 .. MaxLaunch
    BY <1>1, <2>1, <2>4, <2>5 DEF LaunchesPaid, TypeOK, MaxLaunch
  <2>7. TypeOK'
    BY <1>1, <2>1, <2>5, <2>6 DEF TypeOK, runnerVars
  <2>8. JoinedCompleted'
    <3> SUFFICES ASSUME NEW q \in Parent
                 PROVE  /\ \A c \in joined'[q] :
                             /\ ChildOf(q, c)' \in Child
                             /\ status'[ChildOf(q, c)'] = "completed"
                        /\ phase'[q] = "cached" => joined'[q] = 1 .. Nested
      BY DEF JoinedCompleted
    <3>1. CASE q = p
      BY <1>1, <2>1, <3>1 DEF TypeOK
    <3>2. CASE q # p
      <4>1. /\ joined'[q] = joined[q] /\ phase'[q] = phase[q]
            /\ \A c : ChildOf(q, c)' = ChildOf(q, c)
        BY <1>1, <2>1, <3>2 DEF TypeOK, ChildOf
      <4> QED
        BY <1>1, <2>1, <4>1 DEF JoinedCompleted
    <3> QED
      BY <3>1, <3>2
  <2> QED
    BY <2>1, <2>2, <2>3, <2>4, <2>7, <2>8, ProgressSuffices DEF IInv
<1>4. CASE ~(charged[p] + 1 < StepAttempts)
  BY <1>4, EndKeeps DEF Over
<1> QED
  BY <1>3, <1>4

LEMMA CompleteStepKeeps ==
  ASSUME IInv, NEW p \in Parent, CompleteStep(p)
  PROVE  IInv'
<1> USE DEF CompleteStep
<1>1. TypeOK /\ Queued /\ LaunchesPaid /\ JoinedCompleted
  BY DEF IInv
<1>2. Progress /\ UNCHANGED runnerVars
  BY DEF Progress
<1>3. TypeOK'
  BY <1>1 DEF TypeOK, runnerVars
<1>4. Queued' /\ LaunchesPaid'
  BY <1>1 DEF Queued, LaunchesPaid, TypeOK
<1>5. JoinedCompleted'
  <2>1. \A q \in Parent : phase'[q] = "cached" => q = p \/ phase[q] = "cached"
    BY <1>1 DEF TypeOK
  <2>2. \A q, c : ChildOf(q, c)' = ChildOf(q, c)
    BY DEF ChildOf
  <2> QED
    BY <1>1, <2>1, <2>2 DEF JoinedCompleted
<1> QED
  BY <1>2, <1>3, <1>4, <1>5, ProgressSuffices DEF IInv

LEMMA ParentStepKeeps ==
  ASSUME IInv, NEW p \in Parent, ParentStep(p) \/ JoinTimesOut(p)
  PROVE  IInv'
<1>1. CASE \E c \in 1 .. Nested : StartChild(p, c) \/ JoinChild(p, c)
  BY <1>1, StartChildKeeps, JoinChildKeeps
<1>2. CASE JoinFails(p) \/ JoinTimesOut(p)
  <2>1. spent' \in [{"timeouts", "failures", "crashes"} -> Nat]
        /\ spent'["crashes"] = spent["crashes"]
    <3>1. spent \in [{"timeouts", "failures", "crashes"} -> Nat]
      BY DEF IInv, TypeOK
    <3>2. CASE JoinFails(p)
      BY <3>1, <3>2 DEF JoinFails
    <3>3. CASE JoinTimesOut(p)
      <4>1. spent' = [spent EXCEPT !["timeouts"] = @ + 1]
        BY <3>3 DEF JoinTimesOut, Spend
      <4> QED
        BY <3>1, <4>1
    <3> QED
      BY <1>2, <3>2, <3>3
  <2> QED
    BY <1>2, <2>1, StepFailsKeeps DEF JoinFails, JoinTimesOut
<1>3. CASE CompleteStep(p)
  BY <1>3, CompleteStepKeeps
<1>4. CASE CompleteParent(p)
  BY <1>4, EndKeeps DEF CompleteParent, Over, IInv, TypeOK
<1> QED
  BY <1>1, <1>2, <1>3, <1>4 DEF ParentStep

-----------------------------------------------------------------------------
(* The runner *)

LEMMA JobsUntouched ==
  ASSUME IInv, UNCHANGED jobVars
  PROVE  Queued' /\ LaunchesPaid' /\ JoinedCompleted'
  BY DEF IInv, jobVars, Queued, LaunchesPaid, JoinedCompleted, ChildOf

(* What the loops hold, and what the counter says of it, as long as the    *)
(* batch stays the same.                                                   *)
LEMMA HeldIndices ==
  ASSUME TypeOK, Counter, NEW l \in Loop
  PROVE  /\ loops[l] >= 0 => loops[l] \in Index /\ loops[l] < nextIndex
         /\ \A x : [loops EXCEPT ![l] = x] \in [Loop -> Int \cup {x}]
         /\ \A x : {[loops EXCEPT ![l] = x][m] : m \in Loop}
                   = {loops[m] : m \in Loop \ {l}} \cup {x}
         /\ loops[l] >= 0 => {loops[m] : m \in Loop \ {l}} = Held \ {loops[l]}
<1>1. BatchCount \in Nat /\ nextIndex \in Nat /\ nextIndex <= BatchCount
  BY BatchSizes DEF TypeOK, Counter
<1>2. loops[l] >= 0 => loops[l] \in Index /\ loops[l] < nextIndex
  BY <1>1 DEF Counter, Idle, Stopped, Index
<1>3. loops \in [Loop -> Int]
  BY DEF TypeOK
<1>4. loops[l] >= 0 => {loops[m] : m \in Loop \ {l}} = Held \ {loops[l]}
  BY <1>3 DEF Counter, Held
<1> QED
  BY <1>2, <1>3, <1>4

LEMMA TakeIndexKeeps ==
  ASSUME IInv, NEW l \in Loop, TakeIndex(l)
  PROVE  IInv'
<1> DEFINE x == IF nextIndex < BatchCount THEN nextIndex ELSE Stopped
<1>1. TypeOK /\ Counter /\ Handed /\ BatchByBatch
  BY DEF IInv
<1>2. /\ loops[l] = Idle
      /\ loops' = [loops EXCEPT ![l] = x]
      /\ nextIndex' = Smaller(nextIndex + 1, BatchCount)
      /\ UNCHANGED <<jobVars, stage, offset>>
  BY DEF TakeIndex
<1>3. /\ BatchCount \in Nat /\ nextIndex \in Nat /\ nextIndex <= BatchCount
      /\ x \in Int
  BY <1>1, BatchSizes DEF TypeOK, Counter, Stopped
<1>4. BatchCount' = BatchCount /\ Index' = Index /\ \A i : InBatch(i)' = InBatch(i)
  BY <1>2 DEF BatchCount, Index, InBatch
<1>5. nextIndex' \in Nat /\ nextIndex' <= BatchCount /\ nextIndex <= nextIndex'
      /\ nextIndex' = IF nextIndex < BatchCount THEN nextIndex + 1 ELSE BatchCount
  BY <1>2, <1>3 DEF Smaller
<1>6. \A i \in Index : i >= nextIndex' \/ i \in Held' <=> i >= nextIndex \/ i \in Held
  <2>1. Held' = {loops[m] : m \in Loop \ {l}} \cup {x}
    BY <1>1, <1>2, HeldIndices DEF Held
  <2>2. \A i \in Index : i \in {loops[m] : m \in Loop \ {l}} <=> i \in Held
    BY <1>2, <1>3 DEF Held, Idle, Index
  <2> QED
    BY <2>1, <2>2, <1>3, <1>5 DEF Index, Stopped
<1>7. TypeOK'
  BY <1>1, <1>2, <1>3, <1>5 DEF TypeOK, jobVars
<1>8. Counter'
  <2>1. \A m \in Loop : loops'[m] \in {Idle, Stopped} \cup (0 .. nextIndex' - 1)
    BY <1>1, <1>2, <1>3, <1>5 DEF Counter, TypeOK
  <2>2. \A m \in Loop : m # l => loops'[m] = loops[m] /\ loops'[m] # nextIndex
    BY <1>1, <1>2, <1>3 DEF Counter, TypeOK, Idle, Stopped
  <2>3. \A k, m \in Loop : loops'[k] >= 0 /\ loops'[k] = loops'[m] => k = m
    BY <1>1, <1>2, <1>3, <2>2 DEF Counter, TypeOK, Stopped
  <2>4. loops'[1] = Stopped => nextIndex' = BatchCount
    BY <1>1, <1>2, <1>3, <1>5, FirstLoop DEF Counter, TypeOK, Stopped
  <2> QED
    BY <1>4, <1>5, <2>1, <2>3, <2>4 DEF Counter
<1>9. BatchByBatch'
  BY <1>1, <1>2, <1>4 DEF BatchByBatch, jobVars
<1>10. Handed'
  <2>1. \A i \in Index : i < nextIndex' /\ i \notin Held' <=> i < nextIndex /\ i \notin Held
    BY <1>3, <1>5, <1>6 DEF Index
  <2> QED
    BY <1>1, <1>2, <1>4, <1>6, <2>1 DEF Handed, jobVars
<1> QED
  BY <1>2, <1>7, <1>8, <1>9, <1>10, JobsUntouched DEF IInv

(* A loop lets its index go. *)
LEMMA ReleaseKeeps ==
  ASSUME TypeOK, Counter, NEW l \in Loop, loops[l] >= 0,
         loops' = [loops EXCEPT ![l] = Idle],
         UNCHANGED <<stage, offset, nextIndex>>
  PROVE  /\ Counter'
         /\ BatchCount' = BatchCount /\ Index' = Index
         /\ \A i : InBatch(i)' = InBatch(i)
         /\ \A i \in Index : i \in Held' <=> i \in Held /\ i # loops[l]
         /\ loops' \in [Loop -> Int]
<1>1. BatchCount' = BatchCount /\ Index' = Index /\ \A i : InBatch(i)' = InBatch(i)
  BY DEF BatchCount, Index, InBatch
<1>2. loops' \in [Loop -> Int]
  BY DEF TypeOK, Idle
<1>3. Held' = (Held \ {loops[l]}) \cup {Idle}
  BY HeldIndices DEF Held
<1>4. \A i \in Index : i \in Held' <=> i \in Held /\ i # loops[l]
  BY <1>3 DEF Idle, Index
<1>5. Counter'
  BY <1>1, FirstLoop DEF Counter, TypeOK, Idle, Stopped
<1> QED
  BY <1>1, <1>2, <1>4, <1>5

LEMMA StartJobKeeps ==
  ASSUME IInv, NEW l \in Loop, StartJob(l)
  PROVE  IInv'
<1> DEFINE n == loops[l]
           p == InBatch(n)
<1>1. TypeOK /\ Queued /\ LaunchesPaid /\ JoinedCompleted /\ Counter /\ Handed /\ BatchByBatch
  BY DEF IInv
<1>2. /\ stage = "start" /\ n >= 0
      /\ status' = [status EXCEPT ![p] = "pending"]
      /\ waiting' = waiting \cup {p}
      /\ loops' = [loops EXCEPT ![l] = Idle]
      /\ UNCHANGED <<active, phase, launch, charged, joined, spent, stage, offset, nextIndex>>
  BY DEF StartJob, Add
<1>3. n \in Index /\ n < nextIndex /\ n \in Held
  BY <1>1, <1>2, HeldIndices DEF Held
<1>4. p \in Parent /\ p \in Job /\ p \notin Child /\ status[p] = "none"
  BY <1>1, <1>2, <1>3, BatchSizes, ChildrenAreNoParents DEF Handed, TypeOK
<1>5. p \notin active /\ p \notin waiting
  BY <1>1, <1>4 DEF Queued, Alive
<1>6. \A i \in Int : i # n => InBatch(i) # p
  <2> SUFFICES ASSUME NEW i \in Int, InBatch(i) = p PROVE i = n
    OBVIOUS
  <2>1. offset + i = offset + n
    BY ParentIndices DEF InBatch
  <2> QED
    BY <1>1, <1>3, <2>1 DEF Index, TypeOK
<1>7. /\ Counter'
      /\ BatchCount' = BatchCount /\ Index' = Index
      /\ \A i : InBatch(i)' = InBatch(i)
      /\ \A i \in Index : i \in Held' <=> i \in Held /\ i # n
      /\ loops' \in [Loop -> Int]
  BY <1>1, <1>2, ReleaseKeeps
<1>8. \A i \in 0 .. JobCount - 1 : i < offset \/ i >= offset + BatchCount => <<i>> # p
  BY <1>1, <1>3, BatchSizes, ParentIndices DEF InBatch, Index, TypeOK
<1>9. \A i \in Index : InBatch(i) \in Job
  BY <1>1, BatchSizes, ChildrenAreNoParents DEF TypeOK
<1> HIDE DEF n, p
<1>10. TypeOK'
  BY <1>1, <1>2, <1>4, <1>7 DEF TypeOK, Alive
<1>11. Queued'
  BY <1>1, <1>2, <1>4, <1>5 DEF Queued, TypeOK, Alive
<1>12. LaunchesPaid'
  BY <1>1, <1>2, <1>4, <1>5 DEF LaunchesPaid, TypeOK
<1>13. JoinedCompleted'
  BY <1>1, <1>2, <1>4, ChildrenAreNoParents DEF JoinedCompleted, TypeOK, ChildOf
<1>14. BatchByBatch'
  BY <1>1, <1>2, <1>7, <1>8, ParentIndices, ChildrenAreNoParents DEF BatchByBatch, TypeOK
<1>15. Handed'
  <2> SUFFICES ASSUME NEW i \in Index
               PROVE  status'[InBatch(i)] = "none" <=> i >= nextIndex \/ i \in Held'
    BY <1>2, <1>7 DEF Handed
  <2>1. CASE i = n
    BY <2>1, <1>1, <1>2, <1>3, <1>4, <1>7 DEF TypeOK, p, Index
  <2>2. CASE i # n
    BY <2>2, <1>1, <1>2, <1>6, <1>7, <1>9 DEF Handed, TypeOK, Index
  <2> QED
    BY <2>1, <2>2
<1> QED
  BY <1>7, <1>10, <1>11, <1>12, <1>13, <1>14, <1>15 DEF IInv

LEMMA SeeTerminalKeeps ==
  ASSUME IInv, NEW l \in Loop, SeeTerminal(l)
  PROVE  IInv'
<1>1. TypeOK /\ Counter /\ Handed /\ BatchByBatch
  BY DEF IInv
<1>2. /\ stage = "collect" /\ loops[l] >= 0
      /\ status[InBatch(loops[l])] \in Over
      /\ loops' = [loops EXCEPT ![l] = Idle]
      /\ UNCHANGED <<jobVars, stage, offset, nextIndex>>
  BY DEF SeeTerminal
<1>3. /\ Counter'
      /\ BatchCount' = BatchCount /\ Index' = Index
      /\ \A i : InBatch(i)' = InBatch(i)
      /\ \A i \in Index : i \in Held' <=> i \in Held /\ i # loops[l]
      /\ loops' \in [Loop -> Int]
  BY <1>1, <1>2, ReleaseKeeps
<1>4. TypeOK'
  BY <1>1, <1>2, <1>3 DEF TypeOK, jobVars
<1>5. BatchByBatch'
  BY <1>1, <1>2, <1>3 DEF BatchByBatch, jobVars
<1>6. Handed'
  BY <1>1, <1>2, <1>3 DEF Handed, jobVars
<1> QED
  BY <1>2, <1>3, <1>4, <1>5, <1>6, JobsUntouched DEF IInv

(* When every loop has stopped, each index was handed out and let go. *)
LEMMA AllMapped ==
  ASSUME TypeOK, Counter, Mapped
  PROVE  nextIndex = BatchCount /\ \A i \in Index : i < nextIndex /\ i \notin Held
<1>1. nextIndex = BatchCount
  BY FirstLoop DEF Mapped, Counter
<1>2. \A i \in Index : i \notin Held
  BY DEF Mapped, Held, Stopped, Index
<1> QED
  BY <1>1, <1>2, BatchSizes DEF Index, TypeOK

(* A stage begins with a fresh counter and fresh loops. *)
LEMMA FreshCounter ==
  ASSUME NEW c \in Nat \ {0}, NEW n \in Nat \ {0},
         nextIndex' = 0, loops' = Runners(c, n), BatchCount' \in Nat
  PROVE  /\ Counter' /\ loops' \in [Loop -> Int]
         /\ \A i \in Nat : i >= nextIndex' /\ i \notin Held'
<1>1. loops' \in [Loop -> {Idle, Stopped}] /\ loops'[1] = Idle
  BY FirstLoop
<1> QED
  BY <1>1 DEF Counter, Held, Idle, Stopped

LEMMA CollectBatchKeeps ==
  ASSUME IInv, CollectBatch
  PROVE  IInv'
<1>1. TypeOK /\ Counter /\ Handed /\ BatchByBatch
  BY DEF IInv
<1>2. /\ stage = "start" /\ Mapped
      /\ stage' = "collect" /\ nextIndex' = 0
      /\ loops' = Runners(CompletionConcurrency, BatchCount)
      /\ UNCHANGED <<jobVars, offset>>
  BY DEF CollectBatch
<1>3. BatchCount' = BatchCount /\ Index' = Index /\ \A i : InBatch(i)' = InBatch(i)
  BY <1>2 DEF BatchCount, Index, InBatch
<1>4. BatchCount \in Nat \ {0}
  BY <1>1, BatchSizes DEF TypeOK
<1>5. /\ Counter' /\ loops' \in [Loop -> Int]
      /\ \A i \in Nat : i >= nextIndex' /\ i \notin Held'
  BY <1>2, <1>3, <1>4, FreshCounter
<1>6. TypeOK'
  BY <1>1, <1>2, <1>5 DEF TypeOK, jobVars
<1>7. BatchByBatch'
  BY <1>1, <1>2, <1>3 DEF BatchByBatch, jobVars
<1>8. Handed'
  <2>1. \A i \in Index : status[InBatch(i)] # "none"
    BY <1>1, <1>2, <1>4, AllMapped DEF Handed, Index
  <2> QED
    BY <1>2, <1>3, <1>4, <2>1 DEF Handed, jobVars, Index
<1> QED
  BY <1>2, <1>5, <1>6, <1>7, <1>8, JobsUntouched DEF IInv

LEMMA NextBatchKeeps ==
  ASSUME IInv, NextBatch
  PROVE  IInv'
<1>1. TypeOK /\ Counter /\ Handed /\ BatchByBatch
  BY DEF IInv
<1>2. stage = "collect" /\ Mapped /\ UNCHANGED jobVars
  BY DEF NextBatch
<1>3. Queued' /\ LaunchesPaid' /\ JoinedCompleted'
  BY <1>2, JobsUntouched
<1>4. \A i \in Index : status[InBatch(i)] \in Over
  BY <1>1, <1>2, AllMapped DEF Handed
<1>5. CASE offset + SafeBatchSize < JobCount
  <2>1. /\ stage' = "start" /\ nextIndex' = 0
        /\ offset' = offset + SafeBatchSize
        /\ loops' = Runners(ProducerConcurrency, Smaller(SafeBatchSize, JobCount - offset'))
    BY <1>5 DEF NextBatch
  <2>2. /\ SafeBatchSize \in Nat \ {0} /\ BatchCount = SafeBatchSize
        /\ offset \in Nat /\ offset' \in 0 .. JobCount - 1
    BY <1>1, <1>5, <2>1, BatchSizes DEF TypeOK
  <2>3. /\ BatchCount' = Smaller(SafeBatchSize, JobCount - offset')
        /\ BatchCount' \in Nat \ {0} /\ offset' + BatchCount' <= JobCount
    <3>1. BatchCount' = Smaller(SafeBatchSize, JobCount - offset')
      BY DEF BatchCount, SafeBatchSize
    <3> QED
      BY <2>2, <3>1 DEF Smaller
  <2>4. /\ Counter' /\ loops' \in [Loop -> Int]
        /\ \A i \in Nat : i >= nextIndex' /\ i \notin Held'
    BY <2>1, <2>3, FreshCounter
  <2>5. TypeOK'
    BY <1>1, <1>2, <2>1, <2>2, <2>4 DEF TypeOK, jobVars
  <2>6. /\ \A i \in 0 .. JobCount - 1 : i < offset' => status[<<i>>] \in Over
        /\ \A i \in 0 .. JobCount - 1 : i >= offset' => status[<<i>>] = "none"
    <3>1. ASSUME NEW i \in 0 .. JobCount - 1, i < offset', ~(i < offset)
          PROVE  status[<<i>>] \in Over
      <4>1. i - offset \in Index /\ offset + (i - offset) = i
        BY <2>1, <2>2, <3>1 DEF Index
      <4>2. InBatch(i - offset) = <<i>>
        BY <4>1 DEF InBatch
      <4> QED
        BY <1>4, <4>1, <4>2
    <3> QED
      BY <1>1, <2>1, <2>2, <3>1 DEF BatchByBatch
  <2>7. BatchByBatch'
    <3>1. \A i \in 0 .. JobCount - 1 : i >= offset' + BatchCount' => i >= offset'
      BY <2>2, <2>3
    <3> QED
      BY <1>2, <2>6, <3>1 DEF BatchByBatch, jobVars
  <2>8. Handed'
    <3>1. ASSUME NEW i \in Index'
          PROVE  i \in Nat /\ offset' + i \in 0 .. JobCount - 1 /\ offset' + i >= offset'
      <4>1. i \in Nat /\ i < BatchCount' /\ offset' \in Nat
        BY <2>2, <2>3 DEF Index
      <4>2. PICK b \in Nat, o \in Nat : b = BatchCount' /\ o = offset'
        BY <2>3, <4>1
      <4>3. i < b /\ o + b <= JobCount /\ i \in Nat
        BY <2>3, <4>1, <4>2
      <4>4. o + i \in 0 .. JobCount - 1 /\ o + i >= o
        BY <4>3
      <4> QED
        BY <4>1, <4>2, <4>4
    <3> QED
      BY <1>2, <2>1, <2>4, <2>6, <3>1 DEF Handed, InBatch, jobVars
  <2> QED
    BY <1>3, <2>4, <2>5, <2>7, <2>8 DEF IInv
<1>6. CASE ~(offset + SafeBatchSize < JobCount)
  <2>1. stage' = "finished" /\ UNCHANGED <<offset, nextIndex, loops>>
    BY <1>6 DEF NextBatch
  <2>2. BatchCount' = BatchCount /\ Held' = Held
    BY <2>1 DEF BatchCount, Held
  <2>3. TypeOK' /\ Counter' /\ BatchByBatch'
    BY <1>1, <1>2, <2>1, <2>2 DEF TypeOK, Counter, BatchByBatch, jobVars
  <2>4. Handed'
    BY <2>1 DEF Handed
  <2> QED
    BY <1>3, <2>3, <2>4 DEF IInv
<1> QED
  BY <1>5, <1>6

-----------------------------------------------------------------------------
(* The inductive invariant *)

LEMMA InitHolds == Init => IInv
<1> SUFFICES ASSUME Init PROVE IInv
  OBVIOUS
<1> USE DEF Init
<1>1. offset = 0 /\ offset \in 0 .. JobCount - 1
  OBVIOUS
<1>2. BatchCount \in Nat \ {0} /\ Smaller(SafeBatchSize, JobCount) = BatchCount
  BY <1>1, BatchSizes DEF BatchCount, Smaller
<1>3. loops \in [Loop -> {Idle, Stopped}] /\ loops[1] = Idle
  BY <1>2, FirstLoop
<1>4. TypeOK
  BY <1>1, <1>3 DEF TypeOK, Alive, Over, MaxLaunch, Idle, Stopped
<1>5. Queued /\ LaunchesPaid /\ JoinedCompleted
  BY DEF Queued, LaunchesPaid, JoinedCompleted
<1>6. BatchByBatch
  <2>1. \A i \in 0 .. JobCount - 1 : status[<<i>>] = "none"
    BY ParentIndices, ChildrenAreNoParents
  <2>2. \A i \in 0 .. JobCount - 1 : ~(i < offset)
    BY <1>1
  <2> QED
    BY <2>1, <2>2 DEF BatchByBatch
<1>7. Counter
  BY <1>2, <1>3 DEF Counter, Idle, Stopped
<1>8. Handed
  <2>1. \A i \in Index : status[InBatch(i)] = "none" /\ i >= nextIndex
    BY <1>1, BatchSizes, ChildrenAreNoParents DEF Index
  <2> QED
    BY <2>1 DEF Handed
<1> QED
  BY <1>4, <1>5, <1>6, <1>7, <1>8 DEF IInv

LEMMA StepHolds == IInv /\ [Next]_vars => IInv'
<1> SUFFICES ASSUME IInv, [Next]_vars PROVE IInv'
  OBVIOUS
<1>1. CASE Runner
  BY <1>1, TakeIndexKeeps, StartJobKeeps, SeeTerminalKeeps, CollectBatchKeeps,
     NextBatchKeeps DEF Runner
<1>2. CASE \E j \in Job : Take(j) \/ RunChild(j)
  BY <1>2, TakeKeeps, RunChildKeeps
<1>3. CASE \E p \in Parent : ParentStep(p) \/ JoinTimesOut(p)
  BY <1>3, ParentStepKeeps
<1>4. CASE Crash
  BY <1>4, CrashKeeps
<1>5. CASE UNCHANGED vars
  <2>1. UNCHANGED jobVars /\ UNCHANGED runnerVars
    BY <1>5 DEF vars
  <2>2. TypeOK'
    BY <2>1 DEF IInv, TypeOK, jobVars, runnerVars
  <2>3. Progress
    BY <2>1 DEF Progress, jobVars
  <2> QED
    BY <2>1, <2>2, <2>3, JobsUntouched, ProgressSuffices DEF IInv
<1> QED
  BY <1>1, <1>2, <1>3, <1>4, <1>5 DEF Next, Finished

(* The inductive invariant of the performance runner and its worker.       *)
THEOREM Invariant == Spec => []IInv
  BY InitHolds, StepHolds, PTL DEF Spec

(* Every variable has its type: a parent is launched at most once for each *)
(* attempt of its step and each crash of its worker.                       *)
THEOREM TypeCorrect == Spec => []TypeOK
<1>1. IInv => TypeOK
  BY DEF IInv
<1> QED
  BY <1>1, Invariant, PTL

-----------------------------------------------------------------------------
(* The properties *)

LEMMA BatchIsSmall ==
  ASSUME offset \in 0 .. JobCount - 1
  PROVE  IsFiniteSet(Batch) /\ Cardinality(Batch) <= BatchCount
<1>1. BatchCount \in Nat \ {0}
  BY BatchSizes
<1>2. IsFiniteSet(Index) /\ Cardinality(Index) = BatchCount
  <2>1. PICK n \in Nat : n = BatchCount - 1
    BY <1>1
  <2>2. /\ IsFiniteSet(0 .. n)
        /\ Cardinality(0 .. n) = IF 0 > n THEN 0 ELSE n - 0 + 1
    <3>1. 0 \in Int /\ n \in Int
      OBVIOUS
    <3> QED
      BY ONLY <3>1, FS_Interval, Zenon
  <2> QED
    BY <1>1, <2>1, <2>2 DEF Index
<1>3. [i \in Index |-> InBatch(i)] \in Surjection(Index, Batch)
  BY DEF Surjection, Batch, Index
<1>4. IsFiniteSet(Batch) /\ Cardinality(Batch) <= Cardinality(Index)
  BY <1>2, <1>3, FS_Surjection
<1> QED
  BY <1>2, <1>4

(* Only parents of the batch can run: those before it have ended. *)
LEMMA ActiveParentsInBatch ==
  ASSUME IInv
  PROVE  active \cap Parent \subseteq Batch
<1> SUFFICES ASSUME NEW p \in Parent, p \in active PROVE p \in Batch
  OBVIOUS
<1>1. PICK i \in 0 .. JobCount - 1 : p = <<i>>
  BY ParentIndices
<1>2. status[p] = "running"
  BY DEF IInv, Queued
<1>3. i >= offset /\ i < offset + BatchCount
  BY <1>1, <1>2, BatchSizes DEF IInv, BatchByBatch, TypeOK, Over
<1>4. i - offset \in Index /\ offset + (i - offset) = i
  BY <1>3, BatchSizes DEF IInv, TypeOK, Index
<1> QED
  BY <1>1, <1>4 DEF Batch, InBatch, Index

(* Whatever the numbers of jobs, children and slots, and however crashes   *)
(* and retries prolong the parents: a worker with more than one slot has   *)
(* one that no parent holds, so the queue does not block itself.           *)
THEOREM SlotIsLeftForChildren == Spec => []SlotForChildren
<1>1. IInv => SlotForChildren
  <2> SUFFICES ASSUME IInv, WorkerConcurrency > 1, Nested > 0
               PROVE  Cardinality(active \cap Parent) < WorkerConcurrency
    BY DEF SlotForChildren
  <2>1. offset \in 0 .. JobCount - 1
    BY DEF IInv, TypeOK
  <2>2. BatchCount \in Nat /\ BatchCount <= WorkerConcurrency - 1
    BY <2>1, BatchSizes DEF SafeBatchSize, Larger
  <2>3. IsFiniteSet(Batch) /\ Cardinality(Batch) <= BatchCount
    BY <2>1, BatchIsSmall
  <2>4. /\ IsFiniteSet(active \cap Parent)
        /\ Cardinality(active \cap Parent) <= Cardinality(Batch)
    BY <2>3, ActiveParentsInBatch, FS_Subset
  <2> QED
    BY <2>2, <2>3, <2>4, FS_CardinalityType
<1> QED
  BY <1>1, Invariant, PTL

(* mapWithConcurrency hands out every index once, with any number of       *)
(* loops: no parent is added twice, and a batch is collected only when it  *)
(* was added.                                                              *)
THEOREM IndicesAreHandedOutOnce == Spec => []EachIndexOnce
<1>1. IInv => EachIndexOnce
  <2> SUFFICES ASSUME IInv PROVE EachIndexOnce
    OBVIOUS
  <2>1. TypeOK /\ Counter /\ Handed
    BY DEF IInv
  <2>2. \A l \in Loop : stage = "start" /\ loops[l] >= 0 => status[InBatch(loops[l])] = "none"
    BY <2>1, HeldIndices DEF Handed, Held
  <2>3. stage = "collect" => \A p \in Batch : status[p] # "none"
    BY <2>1 DEF Handed, Batch, Index
  <2> QED
    BY <2>1, <2>2, <2>3 DEF EachIndexOnce, Counter
<1> QED
  BY <1>1, Invariant, PTL

(* A parent goes on only when all children of its last launch have         *)
(* completed, whatever earlier launches left behind.                       *)
THEOREM ParentsJoinTheirChildren == Spec => []ParentsFollowChildren
<1>1. IInv => ParentsFollowChildren
  BY DEF IInv, JoinedCompleted, ParentsFollowChildren
<1> QED
  BY <1>1, Invariant, PTL
=============================================================================
