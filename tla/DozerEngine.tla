---------------------------- MODULE DozerEngine ----------------------------
(***************************************************************************)
(* DozerEngine.run on one workflow job: the retry loop, the execution      *)
(* context with its stack of step frames, the wrapper that @Step puts      *)
(* around a method, the writes to job.data, the publication of the result  *)
(* and the determinism probe; with crashes of the worker, writes that fail *)
(* or lose their acknowledgement, redelivery of the job and reruns of a    *)
(* job that has ended.                                                     *)
(*                                                                         *)
(* One worker at a time holds the job (BullMQ's lock).  The worker works   *)
(* on mem, the copy of the state it got with the job and changes in place; *)
(* store is the state in Redis.  An action ends at a write to Redis or at  *)
(* a decision of the user's code: a crash between two awaits is a crash    *)
(* between two actions.                                                    *)
(***************************************************************************)
EXTENDS WorkflowStateStore

CONSTANTS
  Returns,             \* Returns[b]: after how many calls body b may return
  Throws,              \* Throws[b]: the errors body b may throw itself
  Catches,             \* the bodies that catch the errors of their calls
  Attempts,            \* Attempts[k]: maxAttempts of the step with key k
  WorkflowAttempts,    \* maxWorkflowAttempts
  TraceEnabled,        \* execution.traceEnabled
  AutoProbe,           \* execution.autoDeterminismProbe
  Publishes,           \* a result queue is configured
  PublishOnFailure,    \* resultQueue.publishOnFailure
  Unserializable,      \* whether run() may return an unserializable value
  MaxCrashes, MaxFaults, MaxSleeps, MaxReruns   \* bounds on the environment

(* The frame of run() itself. *)
Root == [path |-> <<>>, name |-> "run"]

Body == Key \cup {Root}

ASSUME EngineAssumption ==
  /\ Root \notin Key
  /\ Returns \in [Body -> SUBSET Nat]
  /\ Throws \in [Body -> SUBSET {"error", "nonRetryable", "sleep"}]
  /\ Catches \subseteq Body
  /\ Attempts \in [Key -> Nat \ {0}]
  /\ WorkflowAttempts \in Nat \ {0}
  /\ {TraceEnabled, AutoProbe, Publishes, PublishOnFailure, Unserializable}
       \subseteq BOOLEAN
  /\ PublishOnFailure => Publishes
  /\ AutoProbe => Root \notin Catches
  /\ {MaxCrashes, MaxFaults, MaxSleeps, MaxReruns} \subseteq Nat

VARIABLES
  store,       \* job.data[d] in Redis
  resultQ,     \* the job of the result queue, or NoResultJob
  mem,         \* job.data[d] in the worker
  pc,          \* where run() is
  frames,      \* frames of the execution context, innermost last
  cursor,      \* traceCursor
  failures,    \* workflowFailedAttempts
  probing,     \* whether the code runs for the determinism probe
  err,         \* the error on its way up, or "none"
  outcome,     \* how the last run() ended
  spent        \* crashes, faults, sleeps and reruns so far

durable == <<store, resultQ>>
context == <<frames, cursor, probing>>
vars == <<store, resultQ, mem, pc, frames, cursor, failures, probing, err,
          outcome, spent>>

NoResultJob == [status |-> "none", result |-> Undefined]

Frame == [key : Body, obs : Seq(Observation)]

Bounded == {"crashes", "faults", "sleeps", "reruns"}

PC == {"idle", "attempt", "body", "catch", "caught", "publish", "finalize", "failed"}

TypeOK ==
  /\ store \in State
  /\ mem \in State
  /\ resultQ \in [status : {"none", "completed", "failed"},
                  result : Seq(Observation) \cup {Undefined}]
  /\ pc \in PC
  /\ frames \in Seq(Frame)
  /\ cursor \in Nat
  /\ failures \in Nat
  /\ probing \in BOOLEAN
  /\ err \in ErrorKind \cup {"none"}
  /\ outcome \in {"none", "resolved", "rejected", "delayed", "crashed"}
  /\ spent \in [Bounded -> Nat]

Init ==
  /\ store = InitialState
  /\ resultQ = NoResultJob
  /\ mem = InitialState
  /\ pc = "idle"
  /\ frames = <<>>
  /\ cursor = 0
  /\ failures = 0
  /\ probing = FALSE
  /\ err = "none"
  /\ outcome = "none"
  /\ spent = [x \in Bounded |-> 0]

-----------------------------------------------------------------------------
(* Frames *)

RootFrames == << [key |-> Root, obs |-> <<>>] >>

Top == Last(frames)

InRoot == Len(frames) = 1

(* nextChildIndex of a frame is the number of calls its body has made.     *)
Callable(f) == {k \in Key : k.path = Append(f.key.path, Len(f.obs))}

Observed(fs, v) == [fs EXCEPT ![Len(fs)].obs = Append(@, v)]

(* Bug: the cursor stops at the trace of a cached step's body. *)
SkipDescendants_None(t, i, path) == i

(* skipCachedDescendants: past the trace entries below path.               *)
SkipDescendants(t, i, path) ==
  Min({n \in i .. Max({i, Len(t)}) : n >= Len(t) \/ ~Below(path, t[n + 1].path)})

Traced == TraceEnabled \/ probing

-----------------------------------------------------------------------------
(* Writes *)

CanFault == spent.faults < MaxFaults

Spend(field) == spent' = [spent EXCEPT ![field] = @ + 1]

(* Bug: the write is not awaited. *)
FlushOk_NotAwaited(d, limited) ==
  /\ ~(limited /\ TooBig(d))
  /\ mem' = d
  /\ store' \in {store, d}
  /\ UNCHANGED spent

(* flush of a store with the size limit (limited) or without.  mem is      *)
(* changed first, whatever becomes of the write.                           *)
FlushOk(d, limited) ==
  /\ ~(limited /\ TooBig(d))
  /\ mem' = d
  /\ store' = d
  /\ UNCHANGED spent

FlushFails(d, limited) ==
  /\ mem' = d
  /\ \/ limited /\ TooBig(d) /\ UNCHANGED <<store, spent>>
     \/ ~(limited /\ TooBig(d)) /\ CanFault /\ Spend("faults") /\ store' \in {store, d}

EndRun(how) ==
  /\ pc' = "idle"
  /\ outcome' = how
  /\ mem' = store'
  /\ frames' = <<>>
  /\ cursor' = 0
  /\ failures' = 0
  /\ probing' = FALSE
  /\ err' = "none"

(* An error reaches the body on top of fs from one of its calls: a         *)
(* try/catch of the body keeps it, or it goes on to the wrapper.           *)
Deliver(fs, kind) ==
  IF Last(fs).key \in Catches
    THEN frames' = Observed(fs, Caught) /\ pc' = "body" /\ err' = "none"
    ELSE /\ frames' = fs
         /\ pc' = IF Len(fs) = 1 THEN "caught" ELSE "catch"
         /\ err' = kind

-----------------------------------------------------------------------------
(* Delivery of the job (BullMQ) and client calls on a job that waits *)

(* Bug: stalled jobs are not taken up again. *)
Delivered_NotStalled ==
  \/ outcome \in {"none", "delayed"} /\ UNCHANGED spent
  \/ outcome \in {"resolved", "rejected"} /\ spent.reruns < MaxReruns /\ Spend("reruns")

(* A job is delivered when it is new, when its delay ends and when its     *)
(* worker stalled; a BullMQ attempt or a replay request runs an ended one. *)
Delivered ==
  \/ outcome \in {"none", "delayed", "crashed"} /\ UNCHANGED spent
  \/ outcome \in {"resolved", "rejected"} /\ spent.reruns < MaxReruns /\ Spend("reruns")

Run ==
  /\ pc = "idle"
  /\ Delivered
  /\ IF store.s = "cancelled"
       THEN outcome' = "rejected" /\ UNCHANGED <<mem, pc>>
       ELSE mem' = store /\ pc' = "attempt" /\ UNCHANGED outcome
  /\ UNCHANGED <<durable, context, failures, err>>

(* Bug: jobs that have begun are cancelled too. *)
Cancel_AnyStatus ==
  /\ pc = "idle"
  /\ store' = MarkCancelled(store)
  /\ mem' = store'
  /\ UNCHANGED <<resultQ, pc, context, failures, err, outcome, spent>>

Cancel ==
  /\ pc = "idle"
  /\ store.s = "pending"
  /\ store' = MarkCancelled(store)
  /\ mem' = store'
  /\ UNCHANGED <<resultQ, pc, context, failures, err, outcome, spent>>

-----------------------------------------------------------------------------
(* The loop of run() *)

BeginAttempt ==
  /\ pc = "attempt"
  /\ mem.s # "completing"
  /\ \/ /\ FlushOk(MarkRunning(mem), TRUE)
        /\ pc' = "body"
        /\ frames' = RootFrames
        /\ UNCHANGED err
     \/ /\ FlushFails(MarkRunning(mem), TRUE)
        /\ pc' = "caught"
        /\ err' = "error"
        /\ UNCHANGED frames
  /\ cursor' = 0
  /\ UNCHANGED <<resultQ, probing, failures, outcome>>

(* An earlier run or attempt stored the result: only publish it. *)
ResumePublishing ==
  /\ pc = "attempt"
  /\ mem.s = "completing"
  /\ pc' = "publish"
  /\ UNCHANGED <<durable, mem, context, failures, err, outcome, spent>>

-----------------------------------------------------------------------------
(* enterStep: the body on top calls step k *)

(* Bug: hasStep looks at c only. *)
Enter_ForgetsUndefined(d, k) ==
  IF d.c[k] # Absent
    THEN /\ cursor' = SkipDescendants(d.t, cursor + 1, k.path)
         /\ frames' = Observed(frames, StepResult(d, k))
         /\ UNCHANGED <<pc, err>>
    ELSE /\ cursor' = cursor + 1
         /\ frames' = Append(frames, [key |-> k, obs |-> <<>>])
         /\ UNCHANGED <<pc, err>>

(* beginStep let the call pass and left mem as d.  A cached result is      *)
(* returned at once, otherwise the step's own body starts.                 *)
Enter(d, k) ==
  IF Cached(d, k)
    THEN /\ cursor' = SkipDescendants(d.t, cursor + 1, k.path)
         /\ frames' = Observed(frames, StepResult(d, k))
         /\ UNCHANGED <<pc, err>>
    ELSE /\ cursor' = cursor + 1
         /\ IF probing
              THEN Deliver(frames, "nondeterminism")
              ELSE /\ frames' = Append(frames, [key |-> k, obs |-> <<>>])
                   /\ UNCHANGED <<pc, err>>

(* The call the trace has at this place, or no trace. *)
ReplayStep(k) ==
  /\ pc = "body"
  /\ k \in Callable(Top)
  /\ Traced => ~Unvisited(mem, cursor) /\ ~Diverges(mem, cursor, k)
  /\ Enter(mem, k)
  /\ UNCHANGED <<durable, mem, probing, failures, outcome, spent>>

(* A call beyond the end of the trace is appended to it. *)
TraceStep(k) ==
  /\ pc = "body"
  /\ k \in Callable(Top)
  /\ Traced /\ ~probing /\ Unvisited(mem, cursor)
  /\ \/ FlushOk(RecordStep(mem, k), TRUE) /\ Enter(RecordStep(mem, k), k)
     \/ FlushFails(RecordStep(mem, k), TRUE) /\ Deliver(frames, "error") /\ UNCHANGED cursor
  /\ UNCHANGED <<resultQ, probing, failures, outcome>>

(* Another call than the trace has here, or beyond it in the probe. *)
DivergeStep(k) ==
  /\ pc = "body"
  /\ k \in Callable(Top)
  /\ Traced
  /\ \/ Diverges(mem, cursor, k) /\ Deliver(frames, "conflict")
     \/ probing /\ Unvisited(mem, cursor) /\ Deliver(frames, "nondeterminism")
  /\ UNCHANGED <<durable, mem, cursor, probing, failures, outcome, spent>>

-----------------------------------------------------------------------------
(* The wrapper around a step's method *)

(* The method returned v: completeStep, then exitStep. *)
CompleteStep(v) ==
  LET k == Top.key
      d == SaveStepResult(mem, k, v)
  IN
  /\ pc = "body"
  /\ ~InRoot
  /\ Len(Top.obs) \in Returns[k]
  /\ \/ FlushOk(d, TRUE) /\ frames' = Observed(Front(frames), v) /\ UNCHANGED <<pc, err>>
     \/ FlushFails(d, TRUE) /\ pc' = "catch" /\ err' = "error" /\ UNCHANGED frames
  /\ UNCHANGED <<resultQ, cursor, probing, failures, outcome>>

(* The body on top throws.  An unserializable step result is such an error *)
(* too: saveStepResult throws before it changes anything.                  *)
Throw(kind) ==
  /\ pc = "body"
  /\ kind \in Throws[Top.key]
  /\ IF kind = "sleep" THEN spent.sleeps < MaxSleeps /\ Spend("sleeps") ELSE UNCHANGED spent
  /\ pc' = IF InRoot THEN "caught" ELSE "catch"
  /\ err' = kind
  /\ UNCHANGED <<durable, mem, context, failures, outcome>>

(* Bug: off by one. *)
MayRetry_OffByOne == err # "nonRetryable" /\ mem.a[Top.key] < Attempts[Top.key]

MayRetry == err # "nonRetryable" /\ mem.a[Top.key] + 1 < Attempts[Top.key]

(* The wrapper's catch: charge the failure and ask for a new attempt. *)
ChargeFailure ==
  LET d == IncrementStepRetryCount(mem, Top.key) IN
  /\ pc = "catch"
  /\ MayRetry
  /\ \/ FlushOk(d, TRUE) /\ Deliver(Front(frames), "retry")
     \/ FlushFails(d, TRUE) /\ Deliver(Front(frames), "error")
  /\ UNCHANGED <<resultQ, cursor, probing, failures, outcome>>

(* The wrapper's catch: no attempt is left, or none is allowed. *)
Rethrow ==
  /\ pc = "catch"
  /\ ~MayRetry
  /\ Deliver(Front(frames), err)
  /\ UNCHANGED <<durable, mem, cursor, probing, failures, outcome, spent>>

-----------------------------------------------------------------------------
(* run() of the workflow returned *)

CanReturn == pc = "body" /\ InRoot /\ Len(Top.obs) \in Returns[Root]

(* runDeterminismProbe starts over with an empty context, or run() ends.   *)
AfterCompletion ==
  IF AutoProbe
    THEN /\ pc' = "body"
         /\ frames' = RootFrames
         /\ cursor' = 0
         /\ probing' = TRUE
         /\ UNCHANGED <<failures, err, outcome>>
    ELSE EndRun("resolved")

ReturnDiverged ==
  /\ CanReturn
  /\ Traced /\ ~TraceConsumed(mem, cursor)
  /\ pc' = "caught"
  /\ err' = "nondeterminism"
  /\ UNCHANGED <<durable, mem, context, failures, outcome, spent>>

(* Without a result queue the job is completed by one write. *)
Complete ==
  LET d == MarkCompleted(mem, Top.obs) IN
  /\ CanReturn /\ ~probing /\ ~Publishes
  /\ Traced => TraceConsumed(mem, cursor)
  /\ UNCHANGED resultQ
  /\ \/ FlushOk(d, TRUE) /\ AfterCompletion
     \/ /\ FlushFails(d, TRUE)
        /\ pc' = "caught"
        /\ err' = "error"
        /\ UNCHANGED <<context, failures, outcome>>

(* With one, the result is stored before it is published. *)
StoreResult ==
  LET d == MarkPublishingResult(mem, Top.obs) IN
  /\ CanReturn /\ ~probing /\ Publishes
  /\ Traced => TraceConsumed(mem, cursor)
  /\ \/ FlushOk(d, TRUE) /\ pc' = "publish" /\ UNCHANGED err
     \/ FlushFails(d, TRUE) /\ pc' = "caught" /\ err' = "error"
  /\ UNCHANGED <<resultQ, context, failures, outcome>>

(* The status is set before serializeForStorage throws. *)
ReturnUnserializable ==
  /\ CanReturn /\ ~probing /\ Unserializable
  /\ Traced => TraceConsumed(mem, cursor)
  /\ mem' = [mem EXCEPT !.s = IF Publishes THEN "completing" ELSE "completed"]
  /\ pc' = "caught"
  /\ err' = "error"
  /\ UNCHANGED <<durable, context, failures, outcome, spent>>

(* The probe compares the replayed result with the stored one. *)
ReturnFromProbe ==
  /\ CanReturn /\ probing
  /\ TraceConsumed(mem, cursor)
  /\ UNCHANGED <<durable, spent>>
  /\ EndRun(IF Top.obs = mem.r THEN "resolved" ELSE "rejected")

-----------------------------------------------------------------------------
(* finalizePublishingResult *)

(* Bug: the result job has an id of its own. *)
Enqueue_Overwrites(payload) == payload

(* The id of the result job is that of the workflow job: a second add is   *)
(* ignored by BullMQ, or refused and then taken as done.                   *)
Enqueue(payload) == IF resultQ = NoResultJob THEN payload ELSE resultQ

(* Bug: a failed publication is suppressed, like that of a failure. *)
Publish_ErrorsSuppressed ==
  LET added == Enqueue([status |-> "completed", result |-> mem.r]) IN
  /\ pc = "publish"
  /\ \/ resultQ' = added /\ UNCHANGED spent
     \/ CanFault /\ Spend("faults") /\ UNCHANGED resultQ
  /\ pc' = "finalize"
  /\ UNCHANGED <<store, mem, context, failures, err, outcome>>

Publish ==
  LET added == Enqueue([status |-> "completed", result |-> mem.r]) IN
  /\ pc = "publish"
  /\ UNCHANGED store
  /\ \/ /\ resultQ' = added
        /\ pc' = "finalize"
        /\ UNCHANGED <<mem, context, failures, err, outcome, spent>>
     \/ /\ CanFault
        /\ Spend("faults")
        /\ resultQ' \in {resultQ, added}
        /\ EndRun("rejected")

Finalize ==
  LET d == MarkCompletedFromStoredResult(mem) IN
  /\ pc = "finalize"
  /\ UNCHANGED resultQ
  /\ \/ FlushOk(d, FALSE) /\ AfterCompletion
     \/ /\ CanFault
        /\ Spend("faults")
        /\ store' \in {store, d}
        /\ EndRun("rejected")

-----------------------------------------------------------------------------
(* The catch of run() *)

Fatal == err = "nonRetryable" \/ failures + 1 >= WorkflowAttempts

(* Whatever goes wrong in the probe, the workflow stays completed. *)
FailProbe ==
  /\ pc = "caught" /\ probing
  /\ UNCHANGED <<durable, spent>>
  /\ EndRun("rejected")

(* moveToDelayed, and the DelayedError that tells BullMQ. *)
Park ==
  /\ pc = "caught" /\ ~probing
  /\ err = "sleep"
  /\ UNCHANGED durable
  /\ \/ UNCHANGED spent /\ EndRun("delayed")
     \/ CanFault /\ Spend("faults") /\ EndRun("rejected")

RetryStep ==
  /\ pc = "caught" /\ ~probing
  /\ err = "retry"
  /\ pc' = "attempt"
  /\ frames' = <<>>
  /\ err' = "none"
  /\ UNCHANGED <<durable, mem, cursor, probing, failures, outcome, spent>>

RetryWorkflow ==
  /\ pc = "caught" /\ ~probing
  /\ err \notin {"sleep", "retry"} /\ ~Fatal
  /\ failures' = failures + 1
  /\ pc' = "attempt"
  /\ frames' = <<>>
  /\ err' = "none"
  /\ UNCHANGED <<durable, mem, cursor, probing, outcome, spent>>

(* markFailed by a store without the size limit; a failed write escapes    *)
(* from run() before the failure handlers.                                 *)
Fail ==
  LET d == MarkFailed(mem, err) IN
  /\ pc = "caught" /\ ~probing
  /\ err \notin {"sleep", "retry"} /\ Fatal
  /\ UNCHANGED resultQ
  /\ \/ /\ FlushOk(d, FALSE)
        /\ pc' = "failed"
        /\ UNCHANGED <<context, failures, err, outcome>>
     \/ /\ CanFault
        /\ Spend("faults")
        /\ store' \in {store, d}
        /\ EndRun("rejected")

(* handleWorkflowFailure: what its handlers throw is suppressed. *)
HandleFailure ==
  LET added == Enqueue([status |-> "failed", result |-> Undefined]) IN
  /\ pc = "failed"
  /\ UNCHANGED store
  /\ \/ resultQ' = (IF PublishOnFailure THEN added ELSE resultQ) /\ UNCHANGED spent
     \/ PublishOnFailure /\ CanFault /\ Spend("faults") /\ UNCHANGED resultQ
  /\ EndRun("rejected")

-----------------------------------------------------------------------------
Crash ==
  /\ pc # "idle"
  /\ spent.crashes < MaxCrashes
  /\ Spend("crashes")
  /\ UNCHANGED durable
  /\ EndRun("crashed")

(* The job has ended and nobody runs it again. *)
Ended ==
  /\ pc = "idle"
  /\ outcome \in {"resolved", "rejected"}
  /\ spent.reruns = MaxReruns
  /\ UNCHANGED vars

Calls ==
  \E k \in Key : ReplayStep(k) \/ TraceStep(k) \/ DivergeStep(k)

Steps ==
  \/ \E v \in Value \cup {Undefined} : CompleteStep(v)
  \/ \E kind \in {"error", "nonRetryable", "sleep"} : Throw(kind)
  \/ ChargeFailure
  \/ Rethrow

Returning ==
  \/ ReturnDiverged \/ Complete \/ StoreResult \/ ReturnUnserializable
  \/ ReturnFromProbe \/ Publish \/ Finalize

Catching ==
  \/ FailProbe \/ Park \/ RetryStep \/ RetryWorkflow \/ Fail \/ HandleFailure

Worker ==
  \/ BeginAttempt \/ ResumePublishing \/ Calls \/ Steps \/ Returning \/ Catching

Next == Run \/ Cancel \/ Worker \/ Crash \/ Ended

(* The process that runs the job does not stop of itself, and BullMQ       *)
(* delivers every waiting, delayed or stalled job.                         *)
Spec == Init /\ [][Next]_vars /\ WF_vars(Worker) /\ WF_vars(Run)

-----------------------------------------------------------------------------
(* Properties *)

(* A step result that reached Redis is never lost or replaced: it goes     *)
(* only when the result of a step around it takes its place.  Whatever     *)
(* fails in between - saveStepResult, markFailed, a rerun - "completed     *)
(* steps are replayed from cache, not re-executed" rests on it.            *)
DecidedStepsStay == [][Preserves(store, store')]_vars

(* A value that some body has got back from a call is in Redis while that  *)
(* body runs, although the step cache in memory runs ahead of Redis: no    *)
(* code acts on a result that a crash could undo.                          *)
ObservedIsDurable ==
  pc = "body" =>
    \A i \in DOMAIN frames : \A n \in DOMAIN frames[i].obs :
      \/ frames[i].obs[n] = Caught
      \/ \E k \in Key : /\ k.path = Append(frames[i].key.path, n - 1)
                       /\ Keeps(store, k, frames[i].obs[n])

(* The body of a step never runs while Redis holds its result: a lost      *)
(* acknowledgement or a rerun does not execute a completed step again.     *)
NoReexecution ==
  pc = "body" => \A i \in 2 .. Len(frames) : ~Cached(store, frames[i].key)

(* The retry counts that survive in Redis never use up the budget of a     *)
(* step, over crashes, workflow retries and reruns: a step that is run has *)
(* an attempt left.                                                        *)
RetryBudget == \A k \in Key : store.a[k] < Attempts[k]

(* Redis holds nothing below a cached step: no result, no retry count.     *)
(* (The retry count of the cached step itself may survive: when the write  *)
(* of its result fails, its wrapper charges the failure to it.)            *)
CacheIsCompact ==
  \A k \in CachedKeys(store) : \A j \in Descendants(k) :
    store.a[j] = 0 /\ ~Cached(store, j)

(* A completed workflow with a result queue has published its result, and  *)
(* the result that was published first stays the result of the workflow:   *)
(* finalizePublishingResult may be cut off between its two writes.  Only a *)
(* failure that an earlier run published stands in its way.                *)
CompletedIsPublished ==
  /\ Publishes /\ store.s = "completed" =>
       \/ resultQ = [status |-> "completed", result |-> store.r]
       \/ PublishOnFailure /\ resultQ = [status |-> "failed", result |-> Undefined]
  /\ pc = "idle" /\ outcome = "resolved" => store.s = "completed"

(* Code whose calls do not depend on chance is never told that it diverged *)
(* from its trace, however its attempts were cut short.                    *)
NoFalseDivergence == err \notin {"conflict", "nondeterminism"}

(* Every run() comes to an end: the loop of step retries and workflow      *)
(* retries terminates.                                                     *)
EveryRunEnds == pc # "idle" ~> pc = "idle"

(* The job ends, and stays so.                                             *)
JobSettles == <>[](pc = "idle" /\ outcome \in {"resolved", "rejected"})
=============================================================================
