----------------------------- MODULE ClientBatch -----------------------------
(***************************************************************************)
(* The client process of the example: it starts batches of workflows,      *)
(* several at a time, and a worker on the result queue sorts the results   *)
(* that come in to the batches, whose callers poll for them.               *)
(*                                                                         *)
(* A call of start() adds its job before the client hears of it, so a      *)
(* result may come before its batch is recorded, and a start that was      *)
(* rejected may have added its job all the same.  Between two awaits the   *)
(* client is not interrupted: Record and RecordResult are single steps.    *)
(*                                                                         *)
(* Bounds: MaxRejected starts are rejected, MaxRedelivered result jobs are *)
(* delivered again, MaxUnpublished workflows end without a result job.     *)
(***************************************************************************)
EXTENDS Naturals, FiniteSets

CONSTANTS
  Call,         \* calls of submitBatch
  Size,         \* the number of inputs of each call
  Foreign,      \* jobs that others start and whose results come here too
  MaxRejected, MaxRedelivered, MaxUnpublished

ASSUME BatchAssumption ==
  /\ Size \in [Call -> Nat]
  /\ {MaxRejected, MaxRedelivered, MaxUnpublished} \subseteq Nat

JobsOf(c) == {<<c, i>> : i \in 1 .. Size[c]}

BatchJob == UNION {JobsOf(c) : c \in Call}
Job == BatchJob \cup Foreign

VARIABLES
  call,           \* where each call of submitBatch is
  batchId,        \* the id it took
  batchCounter,
  start,          \* what each start() has come to for the client
  workflow,       \* each job in Redis: none, added, ended
  resultJob,      \* its result job: none, waiting, active, done
  batches,        \* ids of the recorded batches, with their jobs
  jobToBatch,     \* recorded jobs, with the ids of their batches
  resultsByJobId, \* for each id, the jobs whose results are there
  orphanResults,  \* jobs whose results have no batch
  wait,           \* waitForBatch of each call
  spent

redisVars == <<workflow, resultJob>>
recordVars == <<batches, jobToBatch, resultsByJobId, orphanResults>>
vars == <<call, batchId, batchCounter, start, redisVars, recordVars, wait, spent>>

Id == 1 .. Cardinality(Call)

BatchTypeOK ==
  /\ call \in [Call -> {"new", "starting", "recorded", "rejected"}]
  /\ batchId \in [Call -> {0} \cup Id]
  /\ batchCounter \in 0 .. Cardinality(Call)
  /\ start \in [BatchJob -> {"none", "called", "resolved", "rejected"}]
  /\ workflow \in [Job -> {"none", "added", "ended"}]
  /\ resultJob \in [Job -> {"none", "waiting", "active", "done"}]
  /\ DOMAIN batches \subseteq Id
  /\ DOMAIN jobToBatch = UNION {batches[id] : id \in DOMAIN batches}
  /\ \A j \in DOMAIN jobToBatch : j \in batches[jobToBatch[j]]
  /\ resultsByJobId \in [DOMAIN batches -> SUBSET BatchJob]
  /\ orphanResults \subseteq Job
  /\ wait \in [Call -> {"none", "polling", "complete", "timedOut"}]
  /\ spent \in [{"rejected", "redelivered", "unpublished"} -> Nat]

Init ==
  /\ call = [c \in Call |-> "new"]
  /\ batchId = [c \in Call |-> 0]
  /\ batchCounter = 0
  /\ start = [j \in BatchJob |-> "none"]
  /\ workflow = [j \in Job |-> IF j \in Foreign THEN "added" ELSE "none"]
  /\ resultJob = [j \in Job |-> "none"]
  /\ batches = <<>> /\ jobToBatch = <<>> /\ resultsByJobId = <<>>
  /\ orphanResults = {}
  /\ wait = [c \in Call |-> "none"]
  /\ spent = [x \in {"rejected", "redelivered", "unpublished"} |-> 0]

Spend(x, max) == spent[x] < max /\ spent' = [spent EXCEPT ![x] = @ + 1]

(* Map.set *)
Put(map, S, v) == [x \in DOMAIN map \cup S |-> IF x \in S THEN v ELSE map[x]]

-----------------------------------------------------------------------------
(* submitBatch *)

(* Bug: the id is the number of batches that have been recorded. *)
NextId_Recorded == Cardinality(DOMAIN batches) + 1

NextId == batchCounter + 1

SubmitBatch(c) ==
  /\ call[c] = "new"
  /\ call' = [call EXCEPT ![c] = "starting"]
  /\ batchId' = [batchId EXCEPT ![c] = NextId]
  /\ batchCounter' = batchCounter + 1
  /\ start' = [j \in BatchJob |-> IF j \in JobsOf(c) THEN "called" ELSE start[j]]
  /\ UNCHANGED <<redisVars, recordVars, wait, spent>>

(* queue.add in Redis *)
AddJob(j) ==
  /\ j \in BatchJob /\ start[j] = "called" /\ workflow[j] = "none"
  /\ workflow' = [workflow EXCEPT ![j] = "added"]
  /\ UNCHANGED <<call, batchId, batchCounter, start, resultJob, recordVars, wait, spent>>

StartResolves(j) ==
  /\ j \in BatchJob /\ start[j] = "called" /\ workflow[j] # "none"
  /\ start' = [start EXCEPT ![j] = "resolved"]
  /\ UNCHANGED <<call, batchId, batchCounter, redisVars, recordVars, wait, spent>>

(* The job may have been added: only the answer was lost. *)
StartRejects(j) ==
  /\ j \in BatchJob /\ start[j] = "called"
  /\ Spend("rejected", MaxRejected)
  /\ start' = [start EXCEPT ![j] = "rejected"]
  /\ UNCHANGED <<call, batchId, batchCounter, redisVars, recordVars, wait>>

(* Bug: results that came before the batch was recorded stay where they are. *)
Adopted_None(c) == {}

(* The results of its jobs that are waiting for a batch. *)
Adopted(c) == orphanResults \cap JobsOf(c)

(* All starts are resolved: the call goes on. *)
RecordBatch(c) ==
  /\ call[c] = "starting"
  /\ \A j \in JobsOf(c) : start[j] = "resolved"
  /\ call' = [call EXCEPT ![c] = "recorded"]
  /\ batches' = Put(batches, {batchId[c]}, JobsOf(c))
  /\ jobToBatch' = Put(jobToBatch, JobsOf(c), batchId[c])
  /\ resultsByJobId' = Put(resultsByJobId, {batchId[c]}, Adopted(c))
  /\ orphanResults' = orphanResults \ Adopted(c)
  /\ UNCHANGED <<batchId, batchCounter, start, redisVars, wait, spent>>

(* Promise.all rejects with the first start; the others go on.             *)
RejectBatch(c) ==
  /\ call[c] = "starting"
  /\ \E j \in JobsOf(c) : start[j] = "rejected"
  /\ call' = [call EXCEPT ![c] = "rejected"]
  /\ UNCHANGED <<batchId, batchCounter, start, redisVars, recordVars, wait, spent>>

-----------------------------------------------------------------------------
(* The workflows and their results *)

(* A workflow ends and publishes its result, or it fails and does not.     *)
EndWorkflow(j) ==
  /\ workflow[j] = "added"
  /\ workflow' = [workflow EXCEPT ![j] = "ended"]
  /\ \/ resultJob' = [resultJob EXCEPT ![j] = "waiting"] /\ UNCHANGED spent
     \/ Spend("unpublished", MaxUnpublished) /\ UNCHANGED resultJob
  /\ UNCHANGED <<call, batchId, batchCounter, start, recordVars, wait>>

(* Bug: a result is kept only when its batch is known. *)
RecordResult_KnownOnly(j) ==
  /\ resultsByJobId' = IF j \in DOMAIN jobToBatch
                         THEN [resultsByJobId EXCEPT ![jobToBatch[j]] = @ \cup {j}]
                         ELSE resultsByJobId
  /\ UNCHANGED orphanResults

(* recordResult *)
RecordResult(j) ==
  IF j \in DOMAIN jobToBatch
    THEN /\ resultsByJobId' = [resultsByJobId EXCEPT ![jobToBatch[j]] = @ \cup {j}]
         /\ UNCHANGED orphanResults
    ELSE /\ orphanResults' = orphanResults \cup {j}
         /\ UNCHANGED resultsByJobId

(* The result worker calls the handler. *)
DeliverResult(j) ==
  /\ resultJob[j] = "waiting"
  /\ resultJob' = [resultJob EXCEPT ![j] = "active"]
  /\ RecordResult(j)
  /\ UNCHANGED <<call, batchId, batchCounter, start, workflow, batches, jobToBatch, wait, spent>>

Acknowledge(j) ==
  /\ resultJob[j] = "active"
  /\ resultJob' = [resultJob EXCEPT ![j] = "done"]
  /\ UNCHANGED <<call, batchId, batchCounter, start, workflow, recordVars, wait, spent>>

(* The acknowledgement is late: BullMQ delivers the job once more.         *)
Redeliver(j) ==
  /\ resultJob[j] = "active"
  /\ Spend("redelivered", MaxRedelivered)
  /\ resultJob' = [resultJob EXCEPT ![j] = "waiting"]
  /\ UNCHANGED <<call, batchId, batchCounter, start, workflow, recordVars, wait>>

-----------------------------------------------------------------------------
(* waitForBatch *)

(* getBatch: how many results are still missing. *)
Pending(id) == Cardinality(batches[id] \ resultsByJobId[id])

CallWait(c) ==
  /\ call[c] = "recorded" /\ wait[c] = "none"
  /\ wait' = [wait EXCEPT ![c] = "polling"]
  /\ UNCHANGED <<call, batchId, batchCounter, start, redisVars, recordVars, spent>>

Poll(c) ==
  /\ wait[c] = "polling" /\ Pending(batchId[c]) = 0
  /\ wait' = [wait EXCEPT ![c] = "complete"]
  /\ UNCHANGED <<call, batchId, batchCounter, start, redisVars, recordVars, spent>>

(* The deadline passes before another poll. *)
TimeOut(c) ==
  /\ wait[c] = "polling"
  /\ wait' = [wait EXCEPT ![c] = "timedOut"]
  /\ UNCHANGED <<call, batchId, batchCounter, start, redisVars, recordVars, spent>>

-----------------------------------------------------------------------------
Client(c) == RecordBatch(c) \/ RejectBatch(c) \/ Poll(c)

Redis(j) ==
  AddJob(j) \/ StartResolves(j) \/ EndWorkflow(j) \/ DeliverResult(j) \/ Acknowledge(j)

AllDone ==
  /\ \A c \in Call : call[c] \in {"recorded", "rejected"} /\ wait[c] # "polling"
  /\ \A j \in Job : workflow[j] # "added" /\ resultJob[j] \in {"none", "done"}
  /\ UNCHANGED vars

Next ==
  \/ \E c \in Call : SubmitBatch(c) \/ Client(c) \/ CallWait(c) \/ TimeOut(c)
  \/ \E j \in Job : Redis(j) \/ StartRejects(j) \/ Redeliver(j)
  \/ AllDone

(* The client, the worker and Redis go on; nothing is assumed of clocks.   *)
Spec ==
  /\ Init /\ [][Next]_vars
  /\ \A c \in Call : WF_vars(Client(c))
  /\ \A j \in Job : WF_vars(Redis(j))

-----------------------------------------------------------------------------
(* Properties *)

(* Every result that was handed over is in one place: with its batch, from *)
(* the moment the batch is recorded, and among the orphans until then -    *)
(* whichever of the two came first, and however often it was delivered.    *)
ResultsHaveAPlace ==
  /\ \A j \in Job : resultJob[j] \in {"active", "done"} =>
       (j \in orphanResults) # (\E id \in DOMAIN batches : j \in resultsByJobId[id])
  /\ \A j \in orphanResults : ~\E id \in DOMAIN batches : j \in batches[id]

(* Every call keeps a batch of its own, with its jobs and no other results *)
(* than theirs, while other calls are under way.                           *)
BatchesStayApart ==
  \A c \in Call : call[c] = "recorded" =>
    /\ batchId[c] \in DOMAIN batches
    /\ batches[batchId[c]] = JobsOf(c)
    /\ resultsByJobId[batchId[c]] \subseteq JobsOf(c)

(* A wait for a batch whose workflows all publish ends with all results,   *)
(* unless its deadline passes: what came early or twice does not get lost. *)
BatchesComplete ==
  \A c \in Call :
    wait[c] = "polling" ~>
      \/ wait[c] \in {"complete", "timedOut"}
      \/ \E j \in JobsOf(c) : workflow[j] = "ended" /\ resultJob[j] = "none"
=============================================================================
