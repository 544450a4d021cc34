------------------------- MODULE ClientBatchProofs --------------------------
(***************************************************************************)
(* Theorems about ClientBatch for any number of calls, of jobs, and of     *)
(* results, also from strangers.                                           *)
(***************************************************************************)
EXTENDS ClientBatch, FiniteSetTheorems, TLAPS

Recorded == {c \in Call : call[c] = "recorded"}

Types ==
  /\ call \in [Call -> {"new", "starting", "recorded", "rejected"}]
  /\ batchId \in [Call -> Nat]
  /\ batchCounter \in Nat
  /\ workflow \in [Job -> {"none", "added", "ended"}]
  /\ resultJob \in [Job -> {"none", "waiting", "active", "done"}]

(* A call has an id of its own from the start. *)
IdsDiffer ==
  /\ \A c \in Call : call[c] # "new" => batchId[c] <= batchCounter
  /\ \A c, d \in Call :
       call[c] # "new" /\ call[d] # "new" /\ batchId[c] = batchId[d] => c = d

(* The maps agree about which call a batch and a job belong to. *)
MapsAgree ==
  /\ DOMAIN batches = {batchId[c] : c \in Recorded}
  /\ DOMAIN resultsByJobId = DOMAIN batches
  /\ DOMAIN jobToBatch = UNION {JobsOf(c) : c \in Recorded}
  /\ \A c \in Recorded :
       /\ batches[batchId[c]] = JobsOf(c)
       /\ resultsByJobId[batchId[c]] \subseteq JobsOf(c)
       /\ \A j \in JobsOf(c) : jobToBatch[j] = batchId[c]

(* Orphans are what no batch asks for, and every result that was handled   *)
(* is either there or with its batch.                                      *)
ResultsKept ==
  /\ orphanResults \cap DOMAIN jobToBatch = {}
  /\ \A j \in Job : resultJob[j] \in {"active", "done"} =>
       j \in orphanResults \/ \E c \in Recorded : j \in resultsByJobId[batchId[c]]

IInv == Types /\ IdsDiffer /\ MapsAgree /\ ResultsKept

LEMMA JobsDiffer ==
  \A c, d \in Call : \A j \in JobsOf(c) : j \in JobsOf(d) => c = d
<1>1. \A c, d, i, k : <<c, i>> = <<d, k>> => c = d
  OBVIOUS
<1> QED
  BY <1>1 DEF JobsOf

LEMMA InitHolds == Init => IInv
<1> SUFFICES ASSUME Init PROVE IInv
  OBVIOUS
<1>1. Recorded = {}
  BY DEF Init, Recorded
<1>2. DOMAIN batches = {} /\ DOMAIN jobToBatch = {} /\ DOMAIN resultsByJobId = {}
  BY DEF Init
<1>3. Types /\ IdsDiffer
  BY DEF Init, Types, IdsDiffer, Job
<1>4. MapsAgree
  BY <1>1, <1>2 DEF MapsAgree
<1>5. ResultsKept
  BY <1>2 DEF Init, ResultsKept
<1> QED
  BY <1>3, <1>4, <1>5 DEF IInv

(* Steps that neither record a batch nor hand over a result. *)
LEMMA OthersKeep ==
  ASSUME IInv, Types', IdsDiffer', Recorded' = Recorded,
         \A c \in Recorded : batchId'[c] = batchId[c],
         UNCHANGED recordVars,
         \A j \in Job : resultJob'[j] \in {"active", "done"} => resultJob[j] \in {"active", "done"}
  PROVE  IInv'
<1>1. MapsAgree'
  BY DEF IInv, MapsAgree, recordVars
<1>2. ResultsKept'
  BY DEF IInv, ResultsKept, recordVars
<1> QED
  BY <1>1, <1>2 DEF IInv

LEMMA SubmitBatchKeeps ==
  ASSUME IInv, NEW c \in Call, SubmitBatch(c)
  PROVE  IInv'
<1> USE DEF SubmitBatch
<1>1. Types /\ IdsDiffer
  BY DEF IInv
<1>2. batchId'[c] = batchCounter + 1 /\ batchCounter' = batchCounter + 1
      /\ batchCounter \in Nat
  BY <1>1 DEF NextId, Types
<1>3. Types'
  BY <1>1, <1>2 DEF Types, redisVars
<1>4. \A d \in Call : d # c => call'[d] = call[d] /\ batchId'[d] = batchId[d]
  BY <1>1 DEF Types
<1>5. \A d \in Call : call[d] # "new" => d # c /\ batchId[d] <= batchCounter /\ batchId[d] \in Nat
  BY <1>1 DEF IdsDiffer, Types
<1>6. IdsDiffer'
  BY <1>1, <1>2, <1>4, <1>5 DEF IdsDiffer
<1>7. Recorded' = Recorded /\ \A d \in Recorded : batchId'[d] = batchId[d]
  BY <1>1, <1>4 DEF Recorded, Types
<1> QED
  BY <1>3, <1>6, <1>7, OthersKeep DEF redisVars

LEMMA RecordBatchKeeps ==
  ASSUME IInv, NEW c \in Call, RecordBatch(c)
  PROVE  IInv'
<1> USE DEF RecordBatch
<1>1. Types /\ IdsDiffer /\ MapsAgree /\ ResultsKept
  BY DEF IInv
<1>2. Recorded' = Recorded \cup {c} /\ c \notin Recorded
  BY <1>1 DEF Recorded, Types
<1>3. Types' /\ IdsDiffer'
  BY <1>1 DEF Types, IdsDiffer, redisVars
<1>4. \A d \in Recorded : batchId[d] # batchId[c]
  BY <1>1, <1>2 DEF IdsDiffer, Recorded
<1>5. \A d \in Recorded : \A j \in JobsOf(d) : j \notin JobsOf(c)
  BY <1>2, JobsDiffer DEF Recorded
<1>6. /\ DOMAIN batches' = DOMAIN batches \cup {batchId[c]}
      /\ DOMAIN jobToBatch' = DOMAIN jobToBatch \cup JobsOf(c)
      /\ DOMAIN resultsByJobId' = DOMAIN resultsByJobId \cup {batchId[c]}
  BY DEF Put
<1>7. /\ batches'[batchId[c]] = JobsOf(c)
      /\ resultsByJobId'[batchId[c]] = Adopted(c)
      /\ \A j \in JobsOf(c) : jobToBatch'[j] = batchId[c]
  BY DEF Put
<1>8. \A d \in Recorded :
        /\ batches'[batchId[d]] = batches[batchId[d]]
        /\ resultsByJobId'[batchId[d]] = resultsByJobId[batchId[d]]
        /\ \A j \in JobsOf(d) : jobToBatch'[j] = jobToBatch[j]
  BY <1>1, <1>4, <1>5 DEF Put, MapsAgree
<1>9. Adopted(c) \subseteq JobsOf(c)
  BY DEF Adopted
<1>10. MapsAgree'
  <2>1. DOMAIN batches' = {batchId'[d] : d \in Recorded'}
    BY <1>1, <1>2, <1>6 DEF MapsAgree
  <2>2. DOMAIN jobToBatch' = UNION {JobsOf(d) : d \in Recorded'}
    BY <1>1, <1>2, <1>6 DEF MapsAgree
  <2>3. DOMAIN resultsByJobId' = DOMAIN batches'
    BY <1>1, <1>6 DEF MapsAgree
  <2>4. \A d \in Recorded' :
          /\ batches'[batchId'[d]] = JobsOf(d)
          /\ resultsByJobId'[batchId'[d]] \subseteq JobsOf(d)
          /\ \A j \in JobsOf(d) : jobToBatch'[j] = batchId'[d]
    <3> TAKE d \in Recorded'
    <3>1. CASE d = c
      BY <3>1, <1>7, <1>9
    <3>2. CASE d # c
      <4>1. d \in Recorded
        BY <1>2, <3>2
      <4> QED
        BY <4>1, <1>1, <1>8 DEF MapsAgree
    <3> QED
      BY <3>1, <3>2
  <2> QED
    BY <2>1, <2>2, <2>3, <2>4 DEF MapsAgree
<1>11. ResultsKept'
  <2>1. orphanResults' \cap DOMAIN jobToBatch' = {}
    BY <1>1, <1>6 DEF ResultsKept, Adopted
  <2>2. \A j \in Job : resultJob'[j] \in {"active", "done"} =>
          j \in orphanResults' \/ \E d \in Recorded' : j \in resultsByJobId'[batchId'[d]]
    BY <1>1, <1>2, <1>7, <1>8 DEF ResultsKept, redisVars
  <2> QED
    BY <2>1, <2>2 DEF ResultsKept
<1> QED
  BY <1>3, <1>10, <1>11 DEF IInv

LEMMA DeliverResultKeeps ==
  ASSUME IInv, NEW j \in Job, DeliverResult(j)
  PROVE  IInv'
<1> USE DEF DeliverResult
<1>1. Types /\ IdsDiffer /\ MapsAgree /\ ResultsKept
  BY DEF IInv
<1>2. Types' /\ IdsDiffer' /\ Recorded' = Recorded
  BY <1>1 DEF Types, IdsDiffer, Recorded
<1>3. \A k \in Job : k # j => resultJob'[k] = resultJob[k]
  BY <1>1 DEF Types
<1>4. CASE j \in DOMAIN jobToBatch
  <2>1. PICK c \in Recorded : j \in JobsOf(c) /\ jobToBatch[j] = batchId[c]
    BY <1>1, <1>4 DEF MapsAgree
  <2>2. /\ resultsByJobId' = [resultsByJobId EXCEPT ![batchId[c]] = @ \cup {j}]
        /\ UNCHANGED orphanResults
    BY <1>4, <2>1 DEF RecordResult
  <2>3. batchId[c] \in DOMAIN resultsByJobId
    BY <1>1, <2>1 DEF MapsAgree
  <2>4. \A d \in Recorded :
          resultsByJobId'[batchId[d]] =
            IF d = c THEN resultsByJobId[batchId[d]] \cup {j} ELSE resultsByJobId[batchId[d]]
    BY <1>1, <2>1, <2>2, <2>3 DEF MapsAgree, IdsDiffer, Recorded
  <2>5. MapsAgree'
    BY <1>1, <1>2, <2>1, <2>2, <2>4 DEF MapsAgree
  <2>6. ResultsKept'
    BY <1>1, <1>2, <1>3, <2>1, <2>2, <2>4 DEF ResultsKept
  <2> QED
    BY <1>2, <2>5, <2>6 DEF IInv
<1>5. CASE j \notin DOMAIN jobToBatch
  <2>1. orphanResults' = orphanResults \cup {j} /\ UNCHANGED resultsByJobId
    BY <1>5 DEF RecordResult
  <2>2. MapsAgree'
    BY <1>1, <1>2, <2>1 DEF MapsAgree
  <2>3. ResultsKept'
    BY <1>1, <1>2, <1>3, <1>5, <2>1 DEF ResultsKept
  <2> QED
    BY <1>2, <2>2, <2>3 DEF IInv
<1> QED
  BY <1>4, <1>5

(* A step of Redis, of BullMQ or of a wait. *)
LEMMA JobStepKeeps ==
  ASSUME IInv, NEW j \in Job,
         \/ AddJob(j) \/ StartResolves(j) \/ StartRejects(j) \/ EndWorkflow(j)
         \/ Acknowledge(j) \/ Redeliver(j)
  PROVE  IInv'
<1> USE DEF AddJob, StartResolves, StartRejects, EndWorkflow, Acknowledge, Redeliver, redisVars
<1>1. Types /\ IdsDiffer
  BY DEF IInv
<1>2. UNCHANGED <<call, batchId, batchCounter, recordVars>>
  OBVIOUS
<1>3. Types'
  BY <1>1 DEF Types
<1>4. IdsDiffer' /\ Recorded' = Recorded
  BY <1>1, <1>2 DEF IdsDiffer, Recorded
<1>5. \A k \in Job : resultJob'[k] \in {"active", "done"} => resultJob[k] \in {"active", "done"}
  BY <1>1 DEF Types
<1> QED
  BY <1>2, <1>3, <1>4, <1>5, OthersKeep

LEMMA CallStepKeeps ==
  ASSUME IInv, NEW c \in Call, RejectBatch(c) \/ Poll(c) \/ CallWait(c) \/ TimeOut(c)
  PROVE  IInv'
<1> USE DEF RejectBatch, Poll, CallWait, TimeOut, redisVars
<1>1. Types /\ IdsDiffer
  BY DEF IInv
<1>2. UNCHANGED <<batchId, batchCounter, redisVars, recordVars>>
  OBVIOUS
<1>3. call' = call \/ (call[c] = "starting" /\ call' = [call EXCEPT ![c] = "rejected"])
  OBVIOUS
<1>4. Types' /\ IdsDiffer' /\ Recorded' = Recorded
  BY <1>1, <1>2, <1>3 DEF Types, IdsDiffer, Recorded
<1> QED
  BY <1>2, <1>4, OthersKeep

LEMMA StepHolds == IInv /\ [Next]_vars => IInv'
<1> SUFFICES ASSUME IInv, [Next]_vars PROVE IInv'
  OBVIOUS
<1>1. CASE \E c \in Call : SubmitBatch(c) \/ Client(c) \/ CallWait(c) \/ TimeOut(c)
  BY <1>1, SubmitBatchKeeps, RecordBatchKeeps, CallStepKeeps DEF Client
<1>2. CASE \E j \in Job : Redis(j) \/ StartRejects(j) \/ Redeliver(j)
  BY <1>2, JobStepKeeps, DeliverResultKeeps DEF Redis
<1>3. CASE UNCHANGED vars
  <2>1. Types' /\ IdsDiffer' /\ Recorded' = Recorded
    BY <1>3 DEF vars, redisVars, IInv, Types, IdsDiffer, Recorded
  <2> QED
    BY <1>3, <2>1, OthersKeep DEF vars, redisVars
<1> QED
  BY <1>1, <1>2, <1>3 DEF Next, AllDone

(* The inductive invariant of the client's records.                        *)
THEOREM Invariant == Spec => []IInv
  BY InitHolds, StepHolds, PTL DEF Spec

(* However many submissions overlap, each keeps the batch that it recorded, *)
(* with its own jobs and only their results.                                *)
THEOREM BatchesStaySeparate == Spec => []BatchesStayApart
<1>1. IInv => BatchesStayApart
  BY DEF IInv, MapsAgree, Recorded, BatchesStayApart
<1> QED
  BY <1>1, Invariant, PTL

(* No result that the handler has taken is lost or kept twice, whether it  *)
(* came before its batch, after it, again, or from a stranger.             *)
THEOREM ResultsStayInPlace == Spec => []ResultsHaveAPlace
<1>1. IInv => ResultsHaveAPlace
  <2> SUFFICES ASSUME IInv PROVE ResultsHaveAPlace
    OBVIOUS
  <2>1. \A id \in DOMAIN batches : batches[id] \subseteq DOMAIN jobToBatch
                                   /\ resultsByJobId[id] \subseteq DOMAIN jobToBatch
    BY DEF IInv, MapsAgree
  <2>2. \A j \in Job : resultJob[j] \in {"active", "done"} =>
          (j \in orphanResults \/ \E id \in DOMAIN batches : j \in resultsByJobId[id])
    BY DEF IInv, ResultsKept, MapsAgree
  <2> QED
    BY <2>1, <2>2 DEF IInv, ResultsKept, ResultsHaveAPlace
<1> QED
  BY <1>1, Invariant, PTL

-----------------------------------------------------------------------------
(* Types *)

Submitted == {c \in Call : call[c] # "new"}

(* The counter counts the calls, so no id is beyond their number. *)
Counted ==
  /\ batchCounter = Cardinality(Submitted)
  /\ \A c \in Call : IF c \in Submitted THEN batchId[c] >= 1 ELSE batchId[c] = 0

Shapes ==
  /\ start \in [BatchJob -> {"none", "called", "resolved", "rejected"}]
  /\ resultsByJobId \in [DOMAIN batches -> SUBSET BatchJob]
  /\ orphanResults \subseteq Job
  /\ wait \in [Call -> {"none", "polling", "complete", "timedOut"}]
  /\ spent \in [{"rejected", "redelivered", "unpublished"} -> Nat]

LEMMA InitShapes == Init => Counted /\ Shapes
<1> SUFFICES ASSUME Init PROVE Counted /\ Shapes
  OBVIOUS
<1>1. Submitted = {}
  BY DEF Init, Submitted
<1>2. Counted
  BY <1>1, FS_EmptySet DEF Init, Counted
<1>3. resultsByJobId \in [DOMAIN batches -> SUBSET BatchJob]
  BY DEF Init
<1>4. Shapes
  BY <1>3 DEF Init, Shapes
<1> QED
  BY <1>2, <1>4

LEMMA CallsAreCounted ==
  ASSUME IsFiniteSet(Call), IInv, Counted, [Next]_vars
  PROVE  Counted'
<1>1. Types
  BY DEF IInv
<1>2. ASSUME UNCHANGED <<batchCounter, batchId>>, Submitted' = Submitted
      PROVE  Counted'
  BY <1>2 DEF Counted
<1>3. ASSUME NEW c \in Call, SubmitBatch(c)
      PROVE  Counted'
  <2>1. c \notin Submitted /\ Submitted' = Submitted \cup {c}
    BY <1>1, <1>3 DEF SubmitBatch, Submitted, Types
  <2>2. IsFiniteSet(Submitted)
    BY FS_Subset DEF Submitted
  <2>3. Cardinality(Submitted') = Cardinality(Submitted) + 1
    BY <2>1, <2>2, FS_AddElement
  <2>4. batchCounter' = batchCounter + 1 /\ batchId' = [batchId EXCEPT ![c] = batchCounter + 1]
    BY <1>3 DEF SubmitBatch, NextId
  <2>5. \A d \in Call : IF d \in Submitted' THEN batchId'[d] >= 1 ELSE batchId'[d] = 0
    <3> TAKE d \in Call
    <3>1. CASE d = c
      BY <1>1, <2>1, <2>4, <3>1 DEF Types
    <3>2. CASE d # c
      BY <1>1, <2>1, <2>4, <3>2 DEF Types, Counted
    <3> QED
      BY <3>1, <3>2
  <2> QED
    BY <2>3, <2>4, <2>5 DEF Counted
<1>4. ASSUME NEW c \in Call, RecordBatch(c) \/ RejectBatch(c)
      PROVE  Counted'
  <2>1. Submitted' = Submitted
    BY <1>1, <1>4 DEF RecordBatch, RejectBatch, Submitted, Types
  <2> QED
    BY <1>2, <1>4, <2>1 DEF RecordBatch, RejectBatch
<1>5. ASSUME UNCHANGED <<call, batchCounter, batchId>>
      PROVE  Counted'
  BY <1>2, <1>5 DEF Submitted
<1>6. ASSUME NEW c \in Call, Poll(c) \/ CallWait(c) \/ TimeOut(c)
      PROVE  Counted'
  BY <1>5, <1>6 DEF Poll, CallWait, TimeOut
<1>7. ASSUME NEW j \in Job, Redis(j) \/ StartRejects(j) \/ Redeliver(j)
      PROVE  Counted'
  BY <1>5, <1>7 DEF Redis, AddJob, StartResolves, EndWorkflow, DeliverResult, Acknowledge,
                    StartRejects, Redeliver
<1>8. CASE UNCHANGED vars
  BY <1>5, <1>8 DEF vars
<1> QED
  BY <1>3, <1>4, <1>6, <1>7, <1>8 DEF Next, Client, AllDone

LEMMA ShapesStay ==
  ASSUME IInv, Shapes, [Next]_vars
  PROVE  Shapes'
<1>1. ASSUME UNCHANGED <<start, recordVars, wait, spent>>
      PROVE  Shapes'
  BY <1>1 DEF Shapes, recordVars
<1>2. ASSUME NEW x \in {"rejected", "redelivered", "unpublished"}, NEW max, Spend(x, max)
      PROVE  spent' \in [{"rejected", "redelivered", "unpublished"} -> Nat]
  <2>1. spent[x] \in Nat /\ spent[x] + 1 \in Nat
    BY DEF Shapes
  <2>2. spent' = [spent EXCEPT ![x] = spent[x] + 1]
    BY <1>2 DEF Spend
  <2> QED
    BY <2>1, <2>2 DEF Shapes
<1>3. ASSUME NEW c \in Call, SubmitBatch(c)
      PROVE  Shapes'
  BY <1>3 DEF SubmitBatch, Shapes, recordVars
<1>4. ASSUME NEW c \in Call, RecordBatch(c)
      PROVE  Shapes'
  <2>1. Adopted(c) \subseteq BatchJob
    BY DEF Adopted, JobsOf, BatchJob
  <2>2. DOMAIN batches' = DOMAIN batches \cup {batchId[c]}
    BY <1>4 DEF RecordBatch, Put
  <2>3. resultsByJobId' = [x \in DOMAIN batches \cup {batchId[c]} |->
                             IF x \in {batchId[c]} THEN Adopted(c) ELSE resultsByJobId[x]]
    BY <1>4 DEF RecordBatch, Put, Shapes
  <2>4. resultsByJobId' \in [DOMAIN batches' -> SUBSET BatchJob]
    BY <2>1, <2>2, <2>3 DEF Shapes
  <2> QED
    BY <1>4, <2>4 DEF RecordBatch, Shapes
<1>5. ASSUME NEW c \in Call, RejectBatch(c)
      PROVE  Shapes'
  BY <1>1, <1>5 DEF RejectBatch
<1>6. ASSUME NEW c \in Call, Poll(c) \/ CallWait(c) \/ TimeOut(c)
      PROVE  Shapes'
  BY <1>6 DEF Poll, CallWait, TimeOut, Shapes, recordVars
<1>7. ASSUME NEW j \in Job, AddJob(j) \/ Acknowledge(j)
      PROVE  Shapes'
  BY <1>1, <1>7 DEF AddJob, Acknowledge
<1>8. ASSUME NEW j \in Job, StartResolves(j)
      PROVE  Shapes'
  BY <1>8 DEF StartResolves, Shapes, recordVars
<1>9. ASSUME NEW j \in Job, StartRejects(j)
      PROVE  Shapes'
  BY <1>2, <1>9 DEF StartRejects, Shapes, recordVars
<1>10. ASSUME NEW j \in Job, EndWorkflow(j) \/ Redeliver(j)
       PROVE  Shapes'
  <2>1. UNCHANGED <<start, recordVars, wait>>
    BY <1>10 DEF EndWorkflow, Redeliver
  <2>2. spent' \in [{"rejected", "redelivered", "unpublished"} -> Nat]
    BY <1>2, <1>10 DEF EndWorkflow, Redeliver, Shapes
  <2> QED
    BY <2>1, <2>2 DEF Shapes, recordVars
<1>11. ASSUME NEW j \in Job, DeliverResult(j)
       PROVE  Shapes'
  <2>1. CASE j \in DOMAIN jobToBatch
    <3>1. j \in BatchJob /\ jobToBatch[j] \in DOMAIN batches
      BY <2>1 DEF IInv, MapsAgree, Recorded, BatchJob
    <3>2. /\ resultsByJobId' = [resultsByJobId EXCEPT ![jobToBatch[j]] = @ \cup {j}]
          /\ UNCHANGED <<orphanResults, batches, start, wait, spent>>
      BY <1>11, <2>1 DEF DeliverResult, RecordResult
    <3> QED
      BY <3>1, <3>2 DEF Shapes
  <2>2. CASE j \notin DOMAIN jobToBatch
    BY <1>11, <2>2 DEF DeliverResult, RecordResult, Shapes
  <2> QED
    BY <2>1, <2>2
<1>12. CASE UNCHANGED vars
  BY <1>1, <1>12 DEF vars
<1> QED
  BY <1>3, <1>4, <1>5, <1>6, <1>7, <1>8, <1>9, <1>10, <1>11, <1>12
     DEF Next, Client, Redis, AllDone

(* The maps of the client keep their shape, and the counter hands out no   *)
(* id beyond the number of calls: each call takes one, once.               *)
THEOREM ClientIsTyped == ASSUME IsFiniteSet(Call) PROVE Spec => []BatchTypeOK
<1>1. ASSUME IInv, Counted, Shapes
      PROVE  BatchTypeOK
  <2>1. Types /\ IdsDiffer /\ MapsAgree
    BY <1>1 DEF IInv
  <2>2. /\ Cardinality(Call) \in Nat /\ Cardinality(Submitted) \in Nat
        /\ Cardinality(Submitted) <= Cardinality(Call)
    <3>1. Submitted \subseteq Call
      BY DEF Submitted
    <3> QED
      BY <3>1, FS_Subset, FS_CardinalityType
  <2>3. batchCounter \in 0 .. Cardinality(Call)
    BY <1>1, <2>2 DEF Counted
  <2>4. \A c \in Call : batchId[c] \in {0} \cup Id
    BY <1>1, <2>1, <2>2 DEF Counted, Submitted, IdsDiffer, Types, Id
  <2>5. batchId \in [Call -> {0} \cup Id]
    BY <2>1, <2>4 DEF Types
  <2>6. \A c \in Recorded : batchId[c] \in Id
    <3> TAKE c \in Recorded
    <3>1. c \in Submitted
      BY DEF Recorded, Submitted
    <3>2. batchId[c] >= 1
      BY <1>1, <3>1 DEF Counted, Submitted
    <3> QED
      BY <2>4, <3>2 DEF Recorded
  <2>7. DOMAIN batches \subseteq Id
    BY <2>1, <2>6 DEF MapsAgree
  <2>8. DOMAIN jobToBatch = UNION {batches[id] : id \in DOMAIN batches}
    BY <2>1 DEF MapsAgree
  <2>9. \A j \in DOMAIN jobToBatch : j \in batches[jobToBatch[j]]
    BY <2>1 DEF MapsAgree
  <2> QED
    BY <1>1, <2>1, <2>3, <2>5, <2>7, <2>8, <2>9 DEF BatchTypeOK, Types, Shapes
<1> QED
  BY <1>1, Invariant, InitShapes, CallsAreCounted, ShapesStay, PTL DEF Spec
=============================================================================
