----------------------------- MODULE NestedJobs -----------------------------
(***************************************************************************)
(* Workflows that start other workflows in their own queue and wait for    *)
(* them inside a step, under a worker with a limited number of slots, and  *)
(* the performance runner that feeds them in batches.                      *)
(*                                                                         *)
(* A parent (perf-main, parent-workflow) starts its children and polls     *)
(* their jobs.  It holds its slot meanwhile.  When the step fails or its   *)
(* worker dies, the step runs again and starts new children: the old ones  *)
(* run on for nobody.  Engine runs are reduced to what the queue sees of   *)
(* them; DozerEngine has the details.                                      *)
(*                                                                         *)
(* Bounds: joins time out MaxTimeouts times, children fail MaxFailures     *)
(* times and the worker dies MaxCrashes times.                             *)
(***************************************************************************)
EXTENDS Integers, FiniteSets

CONSTANTS
  JobCount,              \* parents of the scenario
  Nested,                \* nestedChildren
  WorkerConcurrency,     \* jobs that the worker runs at a time
  ProducerConcurrency,   \* calls of engine.start under way at a time
  CompletionConcurrency, \* waitForTerminal calls under way at a time
  StepAttempts,          \* stepRetry.attempts of the parent
  MaxTimeouts, MaxFailures, MaxCrashes

ASSUME NestedAssumption ==
  /\ {Nested, MaxTimeouts, MaxFailures, MaxCrashes} \subseteq Nat
  /\ {JobCount, WorkerConcurrency, ProducerConcurrency, CompletionConcurrency,
      StepAttempts} \subseteq Nat \ {0}

Smaller(a, b) == IF a < b THEN a ELSE b
Larger(a, b) == IF a < b THEN b ELSE a

(* invokeChildren runs once per delivery and once per retry. *)
MaxLaunch == StepAttempts + MaxCrashes

Parent == {<<i>> : i \in 0 .. JobCount - 1}
Child == Parent \X (1 .. MaxLaunch) \X (1 .. Nested)
Job == Parent \cup Child

VARIABLES
  status,     \* the status of each job in Redis, "none" before it is added
  waiting,    \* jobs that BullMQ has to deliver, in whatever order
  active,     \* jobs that hold a slot of the worker
  phase,      \* where a parent is in invokeChildren
  launch,     \* how often a parent has begun to start children
  charged,    \* the parent's failed attempts of the step
  joined,     \* the children whose result the parent has got
  spent,      \* timeouts, failures and crashes so far
  stage,      \* what the runner does: start a batch, collect it
  offset,     \* where the batch begins
  nextIndex,  \* of mapWithConcurrency
  loops       \* what each of its loops works on

jobVars == <<status, waiting, active, phase, launch, charged, joined, spent>>
runnerVars == <<stage, offset, nextIndex, loops>>
vars == <<jobVars, runnerVars>>

Alive == {"pending", "running"}
Over == {"completed", "failed"}

-----------------------------------------------------------------------------
(* The runner's batches *)

(* Bug: all jobs at once. *)
SafeBatchSize_All == JobCount

(* Bug: off by one. *)
SafeBatchSize_OffByOne == IF Nested > 0 THEN WorkerConcurrency ELSE JobCount

SafeBatchSize == IF Nested > 0 THEN Larger(1, WorkerConcurrency - 1) ELSE JobCount

BatchCount == Smaller(SafeBatchSize, JobCount - offset)

InBatch(i) == <<offset + i>>

Batch == {InBatch(i) : i \in 0 .. BatchCount - 1}

Concurrency == IF stage = "start" THEN ProducerConcurrency ELSE CompletionConcurrency

(* Loops of mapWithConcurrency; a loop works on an index, or is between    *)
(* two, or has stopped.                                                    *)
Loop == 1 .. Larger(ProducerConcurrency, CompletionConcurrency)

Idle == -1
Stopped == -2

Runners(concurrency, total) ==
  [l \in Loop |-> IF l <= Larger(1, Smaller(concurrency, total)) THEN Idle ELSE Stopped]

TypeOK ==
  /\ status \in [Job -> {"none"} \cup Alive \cup Over]
  /\ waiting \subseteq Job
  /\ active \subseteq Job
  /\ phase \in [Parent -> {"start", "join", "cached"}]
  /\ launch \in [Parent -> 0 .. MaxLaunch]
  /\ charged \in [Parent -> 0 .. StepAttempts - 1]
  /\ joined \in [Parent -> SUBSET (1 .. Nested)]
  /\ spent \in [{"timeouts", "failures", "crashes"} -> Nat]
  /\ stage \in {"start", "collect", "finished"}
  /\ offset \in 0 .. JobCount - 1
  /\ nextIndex \in Nat
  /\ loops \in [Loop -> Int]

Init ==
  /\ status = [j \in Job |-> "none"]
  /\ waiting = {} /\ active = {}
  /\ phase = [p \in Parent |-> "start"]
  /\ launch = [p \in Parent |-> 0]
  /\ charged = [p \in Parent |-> 0]
  /\ joined = [p \in Parent |-> {}]
  /\ spent = [x \in {"timeouts", "failures", "crashes"} |-> 0]
  /\ stage = "start"
  /\ offset = 0
  /\ nextIndex = 0
  /\ loops = Runners(ProducerConcurrency, Smaller(SafeBatchSize, JobCount))

Spend(x, max) == spent[x] < max /\ spent' = [spent EXCEPT ![x] = @ + 1]

Add(j) ==
  /\ status' = [status EXCEPT ![j] = "pending"]
  /\ waiting' = waiting \cup {j}

-----------------------------------------------------------------------------
(* mapWithConcurrency, with the worker functions of runScenario *)

(* Bug: two loops may read the counter before either has incremented it. *)
TakeIndex_NotAtomic(l) ==
  /\ stage # "finished"
  /\ loops[l] = Idle
  /\ loops' = [loops EXCEPT ![l] = IF nextIndex < BatchCount THEN nextIndex ELSE Stopped]
  /\ nextIndex' \in {nextIndex, nextIndex + 1}
  /\ UNCHANGED <<jobVars, stage, offset>>

TakeIndex(l) ==
  /\ stage # "finished"
  /\ loops[l] = Idle
  /\ loops' = [loops EXCEPT ![l] = IF nextIndex < BatchCount THEN nextIndex ELSE Stopped]
  /\ nextIndex' = Smaller(nextIndex + 1, BatchCount)
  /\ UNCHANGED <<jobVars, stage, offset>>

(* engine.start of a parent *)
StartJob(l) ==
  /\ stage = "start"
  /\ loops[l] >= 0
  /\ Add(InBatch(loops[l]))
  /\ loops' = [loops EXCEPT ![l] = Idle]
  /\ UNCHANGED <<active, phase, launch, charged, joined, spent, stage, offset, nextIndex>>

(* waitForTerminal: polls until the job has ended. *)
SeeTerminal(l) ==
  /\ stage = "collect"
  /\ loops[l] >= 0
  /\ status[InBatch(loops[l])] \in Over
  /\ loops' = [loops EXCEPT ![l] = Idle]
  /\ UNCHANGED <<jobVars, stage, offset, nextIndex>>

Mapped == \A l \in Loop : loops[l] = Stopped

CollectBatch ==
  /\ stage = "start" /\ Mapped
  /\ stage' = "collect"
  /\ nextIndex' = 0
  /\ loops' = Runners(CompletionConcurrency, BatchCount)
  /\ UNCHANGED <<jobVars, offset>>

NextBatch ==
  /\ stage = "collect" /\ Mapped
  /\ IF offset + SafeBatchSize < JobCount
       THEN /\ stage' = "start"
            /\ offset' = offset + SafeBatchSize
            /\ nextIndex' = 0
            /\ loops' = Runners(ProducerConcurrency,
                                Smaller(SafeBatchSize, JobCount - offset'))
       ELSE stage' = "finished" /\ UNCHANGED <<offset, nextIndex, loops>>
  /\ UNCHANGED jobVars

-----------------------------------------------------------------------------
(* The worker *)

(* invokeChildren begins: with children of its own. *)
Relaunch(p) ==
  /\ launch' = [launch EXCEPT ![p] = @ + 1]
  /\ joined' = [joined EXCEPT ![p] = {}]
  /\ phase' = [phase EXCEPT ![p] = IF Nested > 0 THEN "start" ELSE "join"]

Take(j) ==
  /\ j \in waiting
  /\ Cardinality(active) < WorkerConcurrency
  /\ waiting' = waiting \ {j}
  /\ active' = active \cup {j}
  /\ status' = [status EXCEPT ![j] = "running"]
  /\ IF j \in Parent /\ phase[j] # "cached"
       THEN Relaunch(j)
       ELSE UNCHANGED <<launch, joined, phase>>
  /\ UNCHANGED <<charged, spent, runnerVars>>

End(j, how) ==
  /\ status' = [status EXCEPT ![j] = how]
  /\ active' = active \ {j}

RunChild(j) ==
  /\ j \in active \cap Child
  /\ \/ End(j, "completed") /\ UNCHANGED spent
     \/ End(j, "failed") /\ Spend("failures", MaxFailures)
  /\ UNCHANGED <<waiting, phase, launch, charged, joined, runnerVars>>

(* The process of the worker dies: BullMQ finds its jobs stalled. *)
Crash ==
  /\ active # {}
  /\ Spend("crashes", MaxCrashes)
  /\ waiting' = waiting \cup active
  /\ active' = {}
  /\ UNCHANGED <<status, phase, launch, charged, joined, runnerVars>>

-----------------------------------------------------------------------------
(* invokeChildren of a parent that holds a slot *)

ChildOf(p, c) == <<p, launch[p], c>>

StartChild(p, c) ==
  /\ p \in active /\ phase[p] = "start"
  /\ status[ChildOf(p, c)] = "none"
  /\ Add(ChildOf(p, c))
  /\ phase' = IF \A d \in 1 .. Nested : status'[ChildOf(p, d)] # "none"
                THEN [phase EXCEPT ![p] = "join"] ELSE phase
  /\ UNCHANGED <<active, launch, charged, joined, spent, runnerVars>>

(* Bug: a cancelled or failed child counts as joined. *)
JoinChild_Any(p, c) ==
  /\ p \in active /\ phase[p] = "join"
  /\ c \notin joined[p]
  /\ status[ChildOf(p, c)] \in Over
  /\ joined' = [joined EXCEPT ![p] = @ \cup {c}]
  /\ UNCHANGED <<status, waiting, active, phase, launch, charged, spent, runnerVars>>

(* WorkflowJoinService.waitForResult of a child that has completed. *)
JoinChild(p, c) ==
  /\ p \in active /\ phase[p] = "join"
  /\ c \notin joined[p]
  /\ status[ChildOf(p, c)] = "completed"
  /\ joined' = [joined EXCEPT ![p] = @ \cup {c}]
  /\ UNCHANGED <<status, waiting, active, phase, launch, charged, spent, runnerVars>>

(* Bug: one attempt too many. *)
StepFails_OffByOne(p) ==
  /\ IF charged[p] + 1 <= StepAttempts
       THEN /\ charged' = [charged EXCEPT ![p] = @ + 1]
            /\ Relaunch(p)
            /\ UNCHANGED <<status, active>>
       ELSE End(p, "failed") /\ UNCHANGED <<charged, launch, joined, phase>>
  /\ UNCHANGED <<waiting, runnerVars>>

(* The step fails: run() asks for another attempt, or the job has failed.  *)
StepFails(p) ==
  /\ IF charged[p] + 1 < StepAttempts
       THEN /\ charged' = [charged EXCEPT ![p] = @ + 1]
            /\ Relaunch(p)
            /\ UNCHANGED <<status, active>>
       ELSE End(p, "failed") /\ UNCHANGED <<charged, launch, joined, phase>>
  /\ UNCHANGED <<waiting, runnerVars>>

JoinFails(p) ==
  /\ p \in active /\ phase[p] = "join"
  /\ \E c \in (1 .. Nested) \ joined[p] : status[ChildOf(p, c)] = "failed"
  /\ StepFails(p)
  /\ UNCHANGED spent

JoinTimesOut(p) ==
  /\ p \in active /\ phase[p] = "join"
  /\ joined[p] # 1 .. Nested
  /\ Spend("timeouts", MaxTimeouts)
  /\ StepFails(p)

(* completeStep *)
CompleteStep(p) ==
  /\ p \in active /\ phase[p] = "join"
  /\ joined[p] = 1 .. Nested
  /\ phase' = [phase EXCEPT ![p] = "cached"]
  /\ UNCHANGED <<status, waiting, active, launch, charged, joined, spent, runnerVars>>

CompleteParent(p) ==
  /\ p \in active /\ phase[p] = "cached"
  /\ End(p, "completed")
  /\ UNCHANGED <<waiting, phase, launch, charged, joined, spent, runnerVars>>

-----------------------------------------------------------------------------
Runner ==
  \/ \E l \in Loop : TakeIndex(l) \/ StartJob(l) \/ SeeTerminal(l)
  \/ CollectBatch \/ NextBatch

ParentStep(p) ==
  \/ \E c \in 1 .. Nested : StartChild(p, c) \/ JoinChild(p, c)
  \/ JoinFails(p) \/ CompleteStep(p) \/ CompleteParent(p)

Finished == stage = "finished" /\ waiting = {} /\ active = {} /\ UNCHANGED vars

Next ==
  \/ Runner
  \/ \E j \in Job : Take(j) \/ RunChild(j)
  \/ \E p \in Parent : ParentStep(p) \/ JoinTimesOut(p)
  \/ Crash
  \/ Finished

(* The runner and every slot go on; a join that found its child failed     *)
(* ends its step.  Nothing is assumed of timeouts: what has to happen must *)
(* happen without them.                                                    *)
Spec ==
  /\ Init /\ [][Next]_vars
  /\ WF_vars(Runner)
  /\ WF_vars(\E j \in Job : Take(j))
  /\ \A j \in Child : WF_vars(RunChild(j))
  /\ \A p \in Parent : WF_vars(ParentStep(p))

-----------------------------------------------------------------------------
(* Properties *)

(* While parents wait for children in the same queue, some slot is not     *)
(* held by a parent: "Prevent queue self-deadlock for nested workflow      *)
(* waits in the same queue".  It takes all the runner's batches, the jobs  *)
(* left over from earlier ones, crashes and retries.                       *)
SlotForChildren ==
  WorkerConcurrency > 1 /\ Nested > 0 =>
    Cardinality(active \cap Parent) < WorkerConcurrency

(* A parent completes on the results of all children of one launch, the    *)
(* last: children of an abandoned launch answer no later one.              *)
ParentsFollowChildren ==
  \A p \in Parent :
    phase[p] = "cached" =>
      \A c \in 1 .. Nested : status[ChildOf(p, c)] = "completed"

(* Each parent of the batch is added once, by one loop, and nothing is     *)
(* added behind the batch: the shared counter hands out every index once.  *)
EachIndexOnce ==
  /\ \A l, m \in Loop : loops[l] >= 0 /\ loops[l] = loops[m] => l = m
  /\ \A l \in Loop : stage = "start" /\ loops[l] >= 0 => status[InBatch(loops[l])] = "none"
  /\ stage = "collect" => \A p \in Batch : status[p] # "none"

(* The scenario comes to an end although no join ever times out, and every *)
(* job that was added is worked off, also the children nobody waits for.   *)
ScenarioEnds == <>[](stage = "finished" /\ \A j \in Job : status[j] \notin Alive)
=============================================================================
