# Verification of the Dozer workflow engine

Dozer runs *workflows* as BullMQ jobs. A workflow is a class with a method
`run()` that calls methods decorated with `@Step`. The result of each step is
stored in the job; when the job is run again, after a failure, a sleep or a
crash of its worker, `run()` starts from the top and the steps that have a
result return it without being executed. The library is small (about 2 700 lines
under `src/src`), but its promise rests on the order of its writes: what is in
memory, what is in Redis, who has seen what, at every point where the process
may stop.

Paths below are relative to the repository; the models live beside it.

## 1. Inventory

| Component | Source | State it keeps | Operations |
|---|---|---|---|
| State store | `src/runtime/workflow-state.store.ts` | the compact state `d` of a job: status, cached results `c`/`u`, retry counts `a`, trace `t`, result `r`, error `e`, pending signals `ps`, changed in memory in place | mark*, saveStepResult, incrementStepRetryCount, beginStep, assertTraceConsumed, save/clear/deliverSignal; each ends in `flush` |
| Engine | `src/engine/dozer-engine.ts` | per run: number of failed workflow attempts | `run`: retry loop, completion in two stages, publication, failure, parking, probe |
| Execution context | `src/runtime/workflow-execution-context.ts` | stack of step frames with child counters, trace cursor | enterStep, exitStep, waitForSignal |
| Step decorator | `src/decorators/step.decorator.ts` | none | the wrapper around each step: replay or execute, save, charge failures |
| Workflow base class | `src/workflow/dozer-workflow.ts` | none | breakUntil, breakFor, waitForSignal, pass-through to the job |
| Client | `src/client/dozer-client.ts` | a snapshot of a job per call | start, cancel, sendSignal; getResult, hasResult, waitForResult |
| Result worker | `src/client/workflow-result-worker.ts` | none | decodes a result job for a handler |
| Queue drivers | `src/queue/*.ts` | BullMQ: a data snapshot per handle; in-memory: shared job objects | add, get, updateData, moveToDelayed, promoteDelayed |
| Retry policy, option merging | `src/runtime/retry-policy.ts`, `mergeRetry` | none (pure) | delays; precedence of options |
| Serializer | `src/runtime/value-serializer.ts` | none (pure) | values to JSON with envelopes and back |
| Registry, decorators, module | `src/workflow/workflow-registry.ts`, `src/decorators/*.ts`, `src/dozer.module.ts` | a map from names to workflow classes | start-up: what `@Workflow` accepts, register, resolve, factories |
| Job info, errors, `onFailed` context | the rest of `src/` | none | projections and error classes |
| Example worker and workflows | `example/src` | – | workflows that start and join other workflows in the same queue |
| Example batch client | `example/src/client` | batches, job-to-batch map, orphan results | submitBatch, recordResult, getBatch, waitForBatch |
| Performance runner | `example/scripts/perf-runner.ts` | batch, shared index, loops | scenarios, batches of parents, percentiles |
| Benchmark, Bull Board, clean-up | `bench`, other scripts | – | measurement and tools |

**Interaction.** A BullMQ worker calls `engine.run(jobId)`. The engine fetches
the job (a snapshot), builds a store and a context and runs the workflow in an
`AsyncLocalStorage`; `@Step` wrappers find the context there, call `enterStep`,
run the method and save its result through the store. Control flow leaves the
user's code as exceptions: a retry request, a sleep request, a signal wait or an
error travels through wrappers, and through any `try/catch` the workflow has, up
to the catch of `run()`. Results go to a second BullMQ queue. Clients share
nothing with the worker but the job in Redis, which both write *whole*.

**What is hard.**

* The state in memory is changed before the write and not restored when the
  write fails, so memory runs ahead of Redis; a write may also reach Redis while
  its acknowledgement is lost.
* The process may end between any two awaits; BullMQ then runs the job again.
  It also runs ended jobs again (attempts, replay).
* Completion with a result queue takes three writes to two queues.
* The trace must match under replays in which cached steps hide their children.
* Retry counts are durable and span runs; the workflow's own are not.
* Clients read the state, change their copy and write all of it back, while the
  worker and other clients do the same.
* A step that times out goes on running, in a context that nobody else should use and
  on the state that everybody uses.
* Results are polled from two places, redelivered, and come before the client knows
  that it is waiting for them.
* Workflows wait in the slots of a worker for workflows that need slots of the same
  worker.

**What makes it correct.** A step result in Redis is permanent unless the result
of an enclosing step supersedes it; no code acts on a result that is not in Redis;
a step with a result is not executed; budgets of retries are kept; deterministic
code is never refused; what is published is the stored result, once, before the
job counts as completed; runs end, and jobs settle; a wait returns a payload that
was sent to it, or null after its deadline. All clients get the same result, and every
wait for one ends; an attempt that was given up does not disturb the next; batches
keep their results apart; a queue never waits for itself.

## 2. The modules

| Module | Role |
|---|---|
| `WorkflowStateStore` | the compact state and the store's operations, as operators from states to states |
| `DozerEngine` | `run()`, the context, the step wrapper, flush, publication and probe, with crashes, faults and redelivery: one job, one worker at a time |
| `DurableExecution` | abstract: a log of decided steps that only grows, a status, a result that replays from the log, one publication |
| `DozerEngineRefinement` | `DozerEngine` implements `DurableExecution` |
| `SignalledJob` | composes `DozerEngine` with `waitForSignal`, BullMQ's delayed jobs and concurrent clients |
| `StepTimeout` | composes the store with several bodies that run at a time: those whose step timed out, and the attempt under way. Fixed code, its own small engine |
| `ResultClient` | composes `DozerEngine` with the readers of results and the result worker |
| `NestedJobs` | parents, children, the worker's slots and the performance runner that feeds them |
| `ClientBatch` | the example's batch client and the results that come in |
| `ValueSerializer`, `RetryPolicy`, `WorkflowRegistry`, `PerfPlan` | pure functions, each with a definition of what is expected of it |
| `Inputs` | an input that is picked, for the theorems about pure functions and for the runs |
| `DocumentedClaims`, `SignalClaims` | sentences of the repository's documents that the code contradicts (a third is in `StepTimeout`) |
| `WorkflowStateStoreProofs` | what each operator of the store preserves |
| `DozerEngineProofs` | theorems about the engine: its decisions and budgets; replay, publication, the refinement and determinism |
| `InputsProofs` | theorems about retry options and the registry, for all inputs |
| `SignalledJobProofs`, `ResultClientProofs`, `StepTimeoutProofs`, `NestedJobsProofs`, `ClientBatchProofs` | theorems about the module they are named after |
| `MCDozerEngine`, `MCSignalledJob`, `MCResultClient`, `MCStepTimeout`, `MCClientBatch`, `MCInputs` | small workflows, calls and inputs for TLC |

Operators named `X_Something` with a comment "Bug:" are faulty variants of `X`.
Nothing uses them in the models: they stand beside `X` to show, one at a time, that
each property notices the fault.

### State and actions

`store` is the state in Redis and `mem` the copy that the worker's job handle
holds and the store mutates. `FlushOk` and `FlushFails` are the two ways a `flush`
goes: `mem` changes in both; in the second the write was refused (size limit), or
failed before or after it reached Redis (`store' \in {store, d}`). An action covers
the code from one write or one decision of the user's code to the next, so a crash
between actions is a crash between awaits.

`pc` says where `run()` is: `attempt` (top of the loop), `body` (the body on top of
`frames` runs), `catch` (the wrapper of the step on top handles an error),
`caught` (the catch of `run()`), `publish` and `finalize` (the two halves of
`finalizePublishingResult`), `failed` (`handleWorkflowFailure`), `idle`.

| Code | Actions |
|---|---|
| `run` entry, cancelled check | `Run` |
| top of the loop, `markRunning`, resume of `completing` | `BeginAttempt`, `ResumePublishing` |
| `enterStep` + `beginStep` | `ReplayStep` (trace agrees or is off), `TraceStep` (appends), `DivergeStep`; all by `Enter`, `SkipDescendants` |
| wrapper: success, error, catch | `CompleteStep`, `Throw`, `ChargeFailure`, `Rethrow` |
| after `run()` returned | `ReturnDiverged`, `Complete`, `StoreResult`, `ReturnUnserializable`, `ReturnFromProbe` |
| `finalizePublishingResult` | `Publish`, `Finalize` |
| catch of `run()` | `FailProbe`, `Park`, `RetryStep`, `RetryWorkflow`, `Fail`, `HandleFailure` |
| `waitForSignal` | `RegisterWait`, `WaitOn`, `TimeOut`, `ClearTimedOut` |
| `cancel`, `sendSignal` | `Cancel` (no overlap); `Read`, `Write`, `Promote` (concurrent) |
| BullMQ, clock, process | `Delivered` in `Run`, `Due`, `Elapse`, `Crash` |

User code is a parameter: `Returns`, `Throws` and `Catches` say after how many calls
a body may return, what it may throw, and whether it catches the errors of its calls.
Which step it calls next is free within `Callable`, so one place in the tree may hold
several steps: that is nondeterministic code. The value that a step returns is any
member of `Value`, or `undefined`. The result of `run()` is represented by what its
calls returned to it.

The other modules:

| Module | State and code |
|---|---|
| `StepTimeout` | a *fiber* is a chain of bodies that wait for each other; `contexts` are the execution contexts of the attempts, `mem` is the one state object. A fiber stops where it awaits a write (`enter`, `save`, `charge`) and writes go out in order. A timeout splits the fiber: the body goes on as a fiber of its own, its wrapper takes the error |
| `ResultClient` | `at` is where a call of `waitForResult`, `hasResult`/`getResult` or `getJobInfo` is, `answers` what it returned; `delivery` is the result job at BullMQ, `handled` what the handler was given. Every poll reads either the result queue or the job |
| `NestedJobs` | `active` are the jobs that hold a slot; `phase`, `launch`, `joined` of a parent are `invokeChildren` of perf-main (and of parent-workflow); `stage`, `offset`, `nextIndex`, `loops` are `runScenario` with `mapWithConcurrency` |
| `ClientBatch` | `batches`, `jobToBatch`, `resultsByJobId`, `orphanResults` are the fields of `ClientBatchService`; `start` is what the client knows of each `start()`, `workflow` and `resultJob` what is in Redis |
| `ValueSerializer` | a heap of two objects; `serializeForStorage` with the set of objects on the path, envelopes, `deserializeFromStorage` |
| `RetryPolicy` | the delays, `mergeRetry` over module, workflow and step, attempts |
| `WorkflowRegistry` | `@Workflow`'s checks, `forFeature`'s factory tokens, the registrar, resolve and instantiate |
| `PerfPlan` | arguments, scenarios of sweep and matrix, percentiles |

## 3. What TLC checks

| Run | Instance and bounds | Shows |
|---|---|---|
| `core` | five steps up to three deep, step attempts 1–2, workflow attempts 2, trace, probe, results and failures published; 2 crashes, 2 faults, 1 sleep, 2 reruns | durability, no re-execution, budgets, compactness, no false divergence, publication, the abstract job, runs end and the job settles |
| `chancy` | nondeterministic workflow whose steps catch errors, with trace, probe, a size limit of 4 entries, unserializable results, no result queue; 1 crash, 2 faults, 1 sleep, 1 rerun | durability and the abstract job do not depend on determinism, nor on errors reaching the engine |
| `signals` | two waits for one signal, one inside a step with retries that also sleeps; 2 senders, a canceller; calls and runs do not overlap | signals keep the engine's promises |
| `races` | two timed waits, 2 senders, a canceller, all overlapping the worker and each other; 1 crash, 1 fault | what is left of them when clients race the worker |
| `results` | one step, untraced; a waiter, a reader, a watcher, a result worker that redelivers once; 1 crash, 1 fault, 1 rerun, failures published | all readers agree, on durable results, and waits end |
| `timeouts` | `run` calls `slow`, which calls `child`; both have a timeout and two attempts; 1 crash | attempts do not disturb each other's numbering, budgets hold, the run ends |
| `nested` | 3 parents of one child each, 3 slots, 2 producers, 1 collector; 1 timeout, 1 failed child, 1 crash | no self-deadlock, joins of one launch, each job once |
| `batches` | two overlapping submissions of different sizes and a foreign job; 1 rejected start, 1 redelivery, 1 workflow without a result | no result is lost or in two places, batches complete |
| `inputs` | all heaps of two objects, retry options on three levels, two imports of two of seven classes, sweeps and percentiles of small lists | the pure functions do what is expected of them |
| `claim_*` | smallest instance each | see *Disagreements* |

The bounds: two faults are needed for an interesting pair (a write that fails and
the failure charge that fails after it); two crashes cut both the run and its
resumption; one rerun is the first time an ended job changes, the second resumes what
the first left. Three levels of steps are the least where a superseding result has
grandchildren, and an inner step is cached while its parent is not. `nested` has two
batches, the second of which starts on slots that children of the first still hold;
three slots are the least where a batch has two parents, so that batches overlap with
retries. Two objects are the least that share or contain each other.
`batches` has the two submissions that a shared counter can confuse. Deadlock is checked
everywhere: `Ended`, `Finished` and `AllDone` are the legitimate rests.

**Fairness.** `WF(Worker)`: a Node process that runs a job goes on with it (bodies
that never return are out of scope: each body may return after its calls).
`WF(Run)`: BullMQ delivers waiting and stalled jobs. `WF(Due)`: BullMQ's timers end.
`WF(ClientStep)`, `WF(WaitStep)`, `WF(Client)`: a client that began a call goes on
with it. `WF(Deadline)` in `ResultClient`: time passes, which `waitForResult` relies on.
`NestedJobs` and `ClientBatch` assume nothing of timeouts: what has to happen must
happen without them. Nothing is assumed of clients that have not begun, of faults, of
crashes or of the choices of user code; crashes, faults, sleeps and reruns are bounded
by `Max*`, and liveness is claimed only within these bounds. Weak fairness of the
disjunction of the worker's steps is enough because one of its steps is enabled until
the run is over.

## 4. What is proved

`DozerEngineProofs` proves, for all sets of steps, all programs, retry policies and
bounds (assumptions: `StoreAssumption` and `EngineAssumption`, typing of the
constants only):

* `Invariant` – `Spec => []IInv`;
* `TypeCorrect` – `TypeOK`;
* `RetryBudgetHolds` – `RetryBudget`;
* `StepsAreNotReexecuted` – `NoReexecution`, when a place in the call tree determines
  the step called there;
* `DecidedStepsStayDecided` – the action property `DecidedStepsStay`.

None of the last three is inductive. `DecidedStepsStay` speaks of Redis, but the next
content of Redis is computed from memory, so the invariant carries
`Preserves(store, mem)`: memory keeps every decision of Redis or supersedes it.
Saving the result of step `k` removes what is below `k` and overwrites `k`: to
see that this undoes no decision one needs that `k` has no result, hence `Fresh`: no open
frame has a result in memory while a body runs. In the wrapper's catch that holds only
*below* the top (`Len(frames) - 1`), because a result whose write failed stays in memory. And
since a new frame must not lie above or beside an open one, `Stack` says that
the frames form a chain of paths. `WithinBudget` needs both copies for the same
reason. `WorkflowStateStoreProofs` has what each operator of the store preserves
(types, decisions, budgets), stated once per operator; `Preserves` is transitive
(`Superseded` is inherited by what lies below), which is what composes them.

Its second half is about replay. It goes on from `IInv`, under the same assumptions:

* `ObservedValuesAreDurable` – `ObservedIsDurable`, for all workflows. The hard part is
  that the step cache in memory runs ahead of Redis: a result whose write failed stays
  there, and a wrapper that looked it up would hand on a value that a crash undoes.
  `ReplayInv` says why none does. While a body runs, memory is ahead only about
  calls that are `Over`, ones that some open frame has already made, and
  the next call is never over (`Chain`: a frame below another is waiting for
  just that call). While an error is on its way up (`Unwinds`), memory may also be ahead
  about the step whose wrapper handles it, and becomes so for the caller when that
  frame is popped.
* `CacheStaysCompact` – `CacheIsCompact`, when a place determines its step; Redis
  and memory are compact together (`CompactInv`).
* `EngineIsDurable` – the refinement `DurableJob`, when a result that is to be published
  can be serialized (`ResultsSerialize`). Each step of the engine changes the
  status in one of five ways (`StatusChange`), each of which is one action of
  `DurableExecution`; `RunStatus` relates `pc` with the status in both
  copies, `ResultInv` says that a result replays from Redis, `ResultStatus`
  that a status which stands for a result comes with one.
* `CompletedJobsArePublished` – `CompletedIsPublished`, when in addition run() does not
  catch errors, makes a fixed number of calls, and its places determine their steps
  (`OneResult`). Only then is the result of a rerun the one that was published.
* `DeterministicCodeNeverDiverges` – `NoFalseDivergence`, for every shape of a call tree.
  Two successive places determine each other (`Follows`, `FollowsOnce`), so a trace is a
  `Walk` through the tree, and any attempt extends the same one. `TraceInv` says of both
  copies that their trace is such a walk, that it has all places under each cached
  step, in a row (`Covers`), and the whole tree once a result is stored (`Finished`); and
  of a running body that the cursor `Stands` where its frames do. So the next call is the
  next entry, or the trace ends there (`NextIsTraced`); the cursor leaves a cached step at
  the entry after the last place under it (`SkipCovered`); and the trace is consumed when
  run() returns (`RootReturns`). TLC checked `TraceInv` on the instance of `core` first.

The hypotheses are facts about the workflow, and needed: without `ResultsSerialize` the
status in Redis says that a result is stored when none is (`claim_result` is that
counterexample), and without `OneResult` a rerun may compute another result than the one
that was published. `Deterministic` is what it means for code not to depend on chance: a
place determines its step, a body that may return has no further call to make, and
no body catches and goes on past a call that was cut short (section 5 says what becomes of
that). `ProbesAreTraced` leaves out the probe of an untraced workflow, which refuses every
step (section 5). `core` satisfies all of them, `chancy` has `ResultsSerialize` and
`ProbesAreTraced` only.

`ResultClientProofs` proves about clients beside an engine that crashes and reruns. The
clients read and the engine does not read them, so its steps are those of
`DozerEngine` (`EngineSteps`) and all of the above carries over:

* `AnswersStayDurable` – `AnswersAreDurable`: a result that replays from Redis does so
  for ever, as no step is around a call of run();
* `RedeliveriesCarryOneResult` – `RedeliveriesAgree` (`ResultsSerialize`), since the
  result job is written once (`HandledInv`);
* `ClientsAgree` – `AnswersAgree` (`OneResult`, `ResultsSerialize`): two results that
  consist of the values of all calls of run() (`AnswersExact`), and both replay from
  the same state, are equal.

`StepTimeoutProofs` proves for every plan of calls and any number of bodies that have
outlived their step. Its hypothesis `EveryKey` is that `Key` holds all paths: the number
of calls that bodies of several attempts make in one context has no bound.

* `TimeoutsAreTyped` – `TimeoutTypeOK`;
* `StepsKeepTheirBudget` – `RetryBudget`, from the budgets of both copies;
* `AttemptsDoNotMix` – `AttemptsAreIsolated`: `Threads` says that an attempt which is on
  course shares its context with no other fiber, because the one step that could
  leave a body behind in it makes the attempt fail in the same moment, and that its
  frames mirror the bodies of its fiber.

`SignalledJobProofs` proves about a job that waits, while any number of clients write old
states back whole. `store` and `mem` are then no longer related: a client can take a
step result out of Redis that the worker still has (`claim_stale`). So `DozerEngineProofs`
states what a step of the worker does in two halves: `RunInv`, the invariant without
`Preserves(store, mem)`, and `Moves`, what a step makes of `mem` and writes to Redis,
which needs only the state of `mem` before it (`WorkerMoves`). The engine's own theorems
add `Preserves(store, mem)` to them, and those about signals do without:

* `SignalledJobIsTyped` – `SignalTypeOK`, from `SInv`: Redis, the worker's copy and every
  client's copy are each well formed, within the budgets, and have only entries of waits
  for their signal. Between the two writes of a wait that timed out its own frame has a
  result, hence `Deciding` for how far the frames are `Fresh`;
* `RunsKeepTheirAnswers` – `RunKeepsItsAnswers`: in the worker's copy a decision stays for
  the whole of a run;
* `WaitsGetGenuineAnswers` – `AnswersAreGenuine`, from `AnswersInv`: whatever state has a
  result for a wait (Redis, the worker's copy, the copy a client still holds) has one that
  was `Given` before. A call is `Given` once it is begun, and a deadline once it
  has passed; this has to be remembered (`lapsed`), since a registration of the
  same wait, out of an old state, sets a new deadline.

`AnswersAreGenuine` needs two facts about the workflow. A place determines its step
(`OneStepPerPlace`): otherwise what a body was told by a step counts as the answer of a
wait at that place. And a wait with a deadline shares its signal with no other one
(`DeadlinesOfOneWait`): otherwise its entry times out the other one. Both instances
satisfy them.

While calls and runs keep apart (`Orderly`) the worker is not raced, and the job is a
durable execution again, for any number of waits, signals and cancellations:

* `SignalledJobIsDurable` – the refinement `DurableJob`: the write of a client is the
  decision of a wait, or a cancellation, or nothing that `DurableExecution` tells apart,
  and every step of the worker is what it is in the engine alone;
* `SignalledValuesAreDurable` – `ObservedIsDurable`, which no run checks beside clients:
  also what a body was told by a wait is in Redis.

Both from `OrderlyInv`, which adds three facts to the invariants of the engine
(`DurableInv`) and of the signals (`SInv`). `CallsApart`: a client that has read the state
writes to the state it has read, and nobody runs meanwhile. `WaitsOpen`: a wait with an
entry is unanswered, in Redis and in memory, and an entry means that the job has begun; so
a signal decides its wait for the first time, and does not bring a cancelled job back.
`FailedHasNoResult`: a signal may still answer a wait of a job that has failed, and its
write says again, for the abstract job, that it has failed without a result. TLC checked
`OrderlyInv` on the instances of `signals` first. The hypothesis `Timed = {}` is needed: a
crash between the two writes of a wait that timed out leaves the entry of a decided
wait, and the next signal replaces the decided null (section 5). So is `ResultsSerialize`, as for the engine.

`NestedJobsProofs` proves for any number of parents, children, slots, loops and
attempts (`NestedAssumption`: they are natural numbers):

* `TypeCorrect` – `TypeOK`, in which the bound on launches is the point: each one was
  paid for by a failed attempt or a crash (`LaunchesPaid`);
* `SlotIsLeftForChildren` – `SlotForChildren`. The property counts parents in slots;
  it is inductive only with `BatchByBatch`: parents before the batch have ended, those
  after it have not begun, so the active ones are in the batch, which is smaller than
  the number of slots;
* `IndicesAreHandedOutOnce` – `EachIndexOnce`. To pass from one batch to the next,
  `Handed` says what the loops have done with the indices below the counter, and
  `Counter` that they have all stopped only when the counter is at its end;
* `ParentsJoinTheirChildren` – `ParentsFollowChildren`: completed children stay so,
  since only waiting and running jobs change.

`ClientBatchProofs` proves for any calls, jobs and foreign jobs:

* `BatchesStaySeparate` – `BatchesStayApart`, which needs that a call has an id of its
  own from the moment it begins (`IdsDiffer`), before it is recorded;
* `ResultsStayInPlace` – `ResultsHaveAPlace`, which needs that the three maps agree
  about which call a job belongs to (`MapsAgree`);
* `ClientIsTyped` – `BatchTypeOK` for a finite set of calls: the ids that were handed out
  are counted by the calls that have one.

`InputsProofs` proves about two of the pure functions, for inputs of any size
(`PolicyAssumption`: an option is left out, or a number or a strategy;
`ClassAssumption`: what a class is, and that `None` is none):

* `PoliciesAreMerged` – `PoliciesMerge`. The engine and the wrapper each merge a part of the
  options, and the merged `delayMs` already holds the `backoffMs` of its level
  (`PoliciesFollow`); a pause is the base times the factor or 1 (`PauseIsProduct`), also
  for negative bases; and powers of two grow (`PowersGrow`);
* `NamesBelongToClasses` – `RegistryNamesClasses`. `Registered` says what the registry is
  after any set of classes: all of them under their names if they are `Compatible`, a
  failed start otherwise. Each class, and so each import, keeps it
  (`ClassIsRegistered`, `ImportIsRegistered`). `FactoryIsOwn` needs what the property
  assumes: two classes of one import that are declared under the same name share a factory.

The functions recurse over numbers, so their equations have to be shown first: up to each
bound a function with such an equation exists. This is an induction in which a set
of numbers stands for the property (`Induction`), which the provers can instantiate.

Only model-checked:

* liveness, and whatever rests on fairness or ENABLED: out of the prover's reach;
* `ValuesRoundTrip`: the serializer recurses over trees, and induction over data is out of
  reach;
* `SweepsAreSound`: the arithmetic of a tool, sorting and flattening sequences with the
  recursive operators of the community modules.

## 5. Disagreements with the documents

Each is a run that TLC violates; `PROJECT.json` quotes the sentence.

* `claim_result` – an unserializable result with a result queue and workflow retries
  is published as a completed workflow without a result.
* `claim_stale` – a signal sent while the worker runs can undo a completed step.
* `claim_conflict` – the late call of a timed-out body enters the trace, and the retry
  of the same code is refused as divergent, which cannot be retried.

Other disagreements, read in the code and present in the models, without a run:

* A `breakFor` in a step body with retries is charged as a failed attempt and retried
  at once (`step.decorator.ts:130`, against CHANGELOG.md:58).
* The determinism probe refuses every step of an untraced workflow
  (`dozer-engine.ts:341`, against the comment in `workflow.decorator.ts:25`).
* The default signal timeout wakes the job but ends no wait (`dozer-engine.ts:541`,
  against CHANGELOG.md:104).
* A crash between the two writes of a timed-out wait makes the next wait for the same
  signal time out at once (`workflow-execution-context.ts:154`, against
  CHANGELOG.md:102).
* The Quick Start of README.md:94 and `bench/benchmark.ts:24,36,60` show classes that do
  not extend `DozerWorkflow`; `workflow.decorator.ts:48` refuses them (`MCInputs` has
  such a class, `Documented`).

Observed on the way:

*Engine.*

* A cached step may keep a positive retry count: when the write of its result fails,
  its wrapper charges a failure to it while the result stays in memory.
  `CacheIsCompact` therefore speaks of the steps below a cached one only.
* `CacheIsCompact` and `NoReexecution` need code that calls the same step at the
  same place: two steps at one place share the keys below them. Untraced code that
  breaks this keeps `DecidedStepsStay`, which supersession takes into account.
* `NoFalseDivergence` needs bodies that do not catch the failure of a call and go on. A
  trace write that failed stays in memory, the call is lost, and the next attempt is
  compared with it; and a step that failed halfway has left half of its calls in the
  trace, where an attempt in which it succeeds comes to the other half.
* A published failure keeps the id of the result job; a success of a later run is
  not published. `DurableJob` fixes this as "published once", and
  `CompletedIsPublished` allows it where failures are published.
* With faults, the result may be published while Redis still says `running`: the write
  of `markPublishingResult` failed, but the retry finds `completing` in memory. The
  abstract `Publish` allows it in both.

*Signals.*

* A signal is lost when the worker wakes up between the read and the write of the
  sender: the write undoes the worker's, or the worker's next write undoes the
  payload. `signals` excludes the overlap (`Orderly`), `races` says what holds with it.
* `signals` has waits without a timeout: with timed waits for the same signal, the
  stale entry of a timed-out wait breaks what it checks; `races` has timed ones with
  names of their own.
* `expired` has the waits whose `expiresAt` lies in the past, and a new registration takes
  a wait out of it. `lapsed` only grows: no action reads it but the properties.
* `cancel` refuses running workflows, which CHANGELOG.md:137 includes.

*Results.*

* `waitForResult` of a failed workflow returns null when the failure was published
  before the next poll, and throws otherwise.
* After reruns or lost writes a wait may be refused although a result exists: the
  status it polls is that of the latest run.
* Code that catches the errors of its steps may publish one result and, after a rerun,
  show another one in the job; `AnswersAgree` is about code that does not.

*Timeouts.*

* With timeouts alone every push of a frame has its pop; the guard of `exitStep` is
  needed only for frames that were left behind by failed writes.
* Two fibers charge the same step at most as often as its budget allows, because both
  read and write the same object without an await in between.

*Example and tools.*

* With a worker of one slot a parent waits for a child that cannot start, until the
  join times out: `safeBatchSize` cannot help (`SlotForChildren` assumes two slots).
* Each retry of `invokeChildren`, and each crash, leaves the children of the previous
  launch behind; they run for nobody.
* A batch whose start was rejected has jobs in Redis whose results stay orphans; a
  restarted client begins again with `batch-1`; the status of a result is dropped, so a
  failure counts as a result of null.
* `NaN` is stored as null. An object with a string field `__dozer_serialized__` is read
  back as what it impersonates. `setTimeout` takes a delay above 2^31-1 ms for 1 ms,
  which exponential backoff reaches.
* Two classes of one name in one `forFeature()` share a factory token: one is
  instantiated for both. Undecorated methods of undecorated base classes escape the
  check of `@Workflow`.
* A sweep removes duplicates before it normalises values, so two scenarios may have
  one name.

## 6. What is not modelled

* The probe of workflows whose `run()` catches the errors of its steps
  (`EngineAssumption`): after a refused call `enterStep` leaves its frame behind.
* Bodies around waits that catch errors (`SignalAssumption`): the same, for a wait
  whose registration fails.
* In `StepTimeout`: failed writes, sleeps, reruns and bodies that catch; a body that
  outlives its `run()` and writes into a later delivery of the job.
* Parallel steps of one body, which the repository declares out of scope
  (TEST_MATRIX.md:66).
* The duration limit of the probe, backoff as time, logging, progress and priority.
* `onFailed` handlers and the global callback: their errors are suppressed and they
  cannot change the job.
* Malformed persisted state, and a job that is missing or whose workflow is not
  registered: `run()` then ends before any of the above.
* The lookup of results under the raw job id, for jobs of earlier versions; removal of
  jobs by `removeOnComplete`.
* The runner's own limit of 120 s per wait; `reset()` of the batch client, for tests.
* Two workers on one job at a time: BullMQ's lock; a worker that lost its lock is not
  modelled.
* The in-memory driver as such: one object for all handles. What sharing it means is
  the faulty variant `Write_Shared`.
* The components marked `not_modelled` in `PROJECT.json`: I/O, web views, and user code
  of the examples whose shapes the MC modules have.

## 7. Plan

Done, in this order: store, engine, abstract job and refinement, proofs, documented
claims, signals and clients, result readers, timeouts, nested jobs, batches, pure
functions, and the proofs about nested jobs, batches, replay, the refinement, result
readers, timeouts, signals, retry options and the registry. Next:

1. Two deliveries of one job, each with its own handle: a body that outlives its run, or
   a worker that lost its lock, writing over what the other has done.
2. Bodies that catch around waits and in `StepTimeout`, with leaked frames.
3. `InMemoryQueue` – the driver of the tests against the snapshots of the BullMQ driver.

