------------------------- MODULE DozerEngineProofs -------------------------
(***************************************************************************)
(* Of the engine, for every program, every retry policy and every number   *)
(* of crashes, failed writes, sleeps and reruns.                           *)
(*                                                                         *)
(* First type correctness, the retry budget and the permanence of decided  *)
(* steps, from IInv.  Then replay: what a body has got back from its       *)
(* calls, against what Redis says.  From it follow that observed values    *)
(* are durable, that a published result replays from Redis, that the       *)
(* engine implements DurableExecution, and that deterministic code never   *)
(* diverges from its trace.                                                *)
(***************************************************************************)
EXTENDS DozerEngineRefinement, WorkflowStateStoreProofs

(* The frames are those of run() and of steps nested in one another.       *)
Stack(fs) ==
  /\ fs # <<>>
  /\ fs[1].key = Root
  /\ \A i \in 2 .. Len(fs) : fs[i].key \in Key /\ Len(fs[i].key.path) = i - 1
  /\ \A i \in 1 .. Len(fs) : \A j \in 1 .. i - 1 : Below(fs[j].key.path, fs[i].key.path)

(* No step of the frames 2 .. n has a result in d. *)
Fresh(d, fs, n) == \A i \in 2 .. n : ~Cached(d, fs[i].key)

WithinBudget(d) == \A k \in Key : d.a[k] < Attempts[k]

StatesInv ==
  /\ store \in State /\ mem \in State
  /\ WithinBudget(store) /\ WithinBudget(mem)

(* The copy in memory may be ahead of Redis, never behind it or beside it. *)
StateInv ==
  /\ store \in State /\ mem \in State
  /\ Preserves(store, mem)
  /\ WithinBudget(store) /\ WithinBudget(mem)

ControlType ==
  /\ resultQ \in [status : {"none", "completed", "failed"},
                  result : Seq(Observation) \cup {Undefined}]
  /\ pc \in PC
  /\ frames \in Seq(Frame)
  /\ cursor \in Nat
  /\ failures \in Nat
  /\ probing \in BOOLEAN
  /\ err \in ErrorKind \cup {"none"}
  /\ outcome \in {"none", "resolved", "rejected", "delayed", "crashed"}
  /\ spent \in [Bounded -> Nat]

(* A step whose body runs has no result even in memory; when its wrapper   *)
(* handles a failure it may have one there, from a write that failed.      *)
FramesInv ==
  /\ pc \in {"body", "catch"} => Stack(frames)
  /\ pc = "body" => Fresh(mem, frames, Len(frames))
  /\ pc = "catch" => Len(frames) >= 2 /\ Fresh(mem, frames, Len(frames) - 1)

IInv == StateInv /\ ControlType /\ FramesInv

(* What the steps of the worker rely on: how its copy relates to Redis is  *)
(* not among it.                                                           *)
RunInv == StatesInv /\ ControlType /\ FramesInv

-----------------------------------------------------------------------------
(* Frames *)

(* The frame of run() alone is a stack.                                    *)
LEMMA RootStack ==
  /\ RootFrames \in Seq(Frame) /\ Stack(RootFrames) /\ Len(RootFrames) = 1
  /\ \A d : Fresh(d, RootFrames, 1)
<1>1. [key |-> Root, obs |-> <<>>] \in Frame
  BY DEF Frame, Body
<1>. QED
  BY <1>1 DEF RootFrames, Stack, Fresh

(* The path of a frame is a sequence of child indices.                     *)
LEMMA PathOfFrame == \A f \in Frame : f.key.path \in Seq(Nat)
<1>1. \A f \in Frame : f.key \in Key \cup {Root}
  BY DEF Frame, Body
<1>2. Root.path \in Seq(Nat)
  BY DEF Root
<1>. QED
  BY <1>1, <1>2, PathOfKey

(* The frame of a step, with the step's place in the tree.                 *)
LEMMA FrameOfStack ==
  ASSUME NEW fs \in Seq(Frame), Stack(fs)
  PROVE  /\ Len(fs) \in Nat /\ Len(fs) >= 1
         /\ Last(fs) = fs[Len(fs)] /\ Last(fs) \in Frame
         /\ \A i \in 1 .. Len(fs) : fs[i] \in Frame
         /\ Len(fs) >= 2 => Last(fs).key \in Key
         /\ Len(Last(fs).key.path) = Len(fs) - 1
<1>1. Len(fs) \in Nat /\ Len(fs) >= 1
  BY EmptySeq DEF Stack
<1>2. \A i \in 1 .. Len(fs) : fs[i] \in Frame
  OBVIOUS
<1>3. Last(fs) = fs[Len(fs)]
  BY DEF Last
<1>4. Len(fs) = 1 => Len(Last(fs).key.path) = 0
  BY <1>3 DEF Stack, Root
<1>5. Len(fs) >= 2 => Last(fs).key \in Key /\ Len(Last(fs).key.path) = Len(fs) - 1
  BY <1>1, <1>3 DEF Stack
<1>6. Last(fs) \in Frame
  BY <1>1, <1>2, <1>3
<1>7. Len(Last(fs).key.path) = Len(fs) - 1
  <2>1. \A n \in Nat : n >= 1 => n = 1 \/ n >= 2
    OBVIOUS
  <2>2. CASE Len(fs) = 1
    BY <1>4, <2>2
  <2>3. CASE Len(fs) >= 2
    BY <1>5, <2>3
  <2>. QED
    BY <1>1, <2>1, <2>2, <2>3
<1>. QED
  BY <1>1, <1>2, <1>3, <1>5, <1>6, <1>7

(* What has the keys of a stack, or the first of them, is a stack.         *)
LEMMA StackOfKeys ==
  ASSUME NEW fs \in Seq(Frame), Stack(fs), NEW g \in Seq(Frame), g # <<>>,
         Len(g) <= Len(fs), \A i \in 1 .. Len(g) : g[i].key = fs[i].key
  PROVE  Stack(g)
<1>1. Len(g) \in Nat /\ Len(fs) \in Nat /\ Len(g) >= 1
  BY EmptySeq
<1>2. \A i \in 1 .. Len(g) : i \in 1 .. Len(fs) /\ \A j \in 1 .. i - 1 : j \in 1 .. Len(g)
  BY <1>1
<1>3. \A i \in 1 .. Len(g) : \A j \in 1 .. i - 1 : Below(g[j].key.path, g[i].key.path)
  <2>. SUFFICES ASSUME NEW i \in 1 .. Len(g), NEW j \in 1 .. i - 1
                PROVE  Below(g[j].key.path, g[i].key.path)
    OBVIOUS
  <2>1. Below(fs[j].key.path, fs[i].key.path)
    BY <1>2 DEF Stack
  <2>2. g[i].key = fs[i].key /\ g[j].key = fs[j].key
    BY <1>2
  <2>. QED
    BY <2>1, <2>2
<1>4. \A i \in 2 .. Len(g) : i \in 2 .. Len(fs) /\ i \in 1 .. Len(g)
  BY <1>1
<1>5. \A i \in 2 .. Len(g) : g[i].key \in Key /\ Len(g[i].key.path) = i - 1
  BY <1>4 DEF Stack
<1>6. g[1].key = Root
  BY <1>1 DEF Stack
<1>. QED
  BY <1>3, <1>5, <1>6 DEF Stack

(* An observation changes neither the stack nor its keys.                  *)
LEMMA ObservedStack ==
  ASSUME NEW fs \in Seq(Frame), Stack(fs), NEW v \in Observation
  PROVE  /\ Observed(fs, v) \in Seq(Frame) /\ Stack(Observed(fs, v))
         /\ Len(Observed(fs, v)) = Len(fs)
         /\ \A i \in 1 .. Len(fs) : Observed(fs, v)[i].key = fs[i].key
<1>. DEFINE n == Len(fs)
            f == [fs[n] EXCEPT !.obs = Append(fs[n].obs, v)]
<1>1. n \in 1 .. Len(fs) /\ fs[n] \in Frame
  BY FrameOfStack
<1>2. f \in Frame /\ f.key = fs[n].key
  <2>1. Append(fs[n].obs, v) \in Seq(Observation)
    BY <1>1 DEF Frame
  <2>. QED
    BY <1>1, <2>1 DEF Frame
<1>3. Observed(fs, v) = [fs EXCEPT ![n] = f]
  BY DEF Observed
<1>. HIDE DEF f
<1>4. /\ Observed(fs, v) \in Seq(Frame) /\ Len(Observed(fs, v)) = n
      /\ \A i \in 1 .. n : Observed(fs, v)[i] = IF i = n THEN f ELSE fs[i]
  BY <1>1, <1>2, <1>3, ExceptSeq
<1>5. \A i \in 1 .. n : Observed(fs, v)[i].key = fs[i].key
  BY <1>2, <1>4
<1>6. Observed(fs, v) # <<>>
  BY <1>1, <1>4, EmptySeq
<1>. QED
  BY <1>1, <1>4, <1>5, <1>6, StackOfKeys

(* exitStep of a step leaves the stack of its caller.                      *)
LEMMA FrontStack ==
  ASSUME NEW fs \in Seq(Frame), Stack(fs), Len(fs) >= 2
  PROVE  /\ Front(fs) \in Seq(Frame) /\ Stack(Front(fs))
         /\ Len(Front(fs)) = Len(fs) - 1
         /\ \A i \in 1 .. Len(fs) - 1 : Front(fs)[i] = fs[i]
<1>1. Len(fs) \in Nat /\ \A i \in 1 .. Len(fs) : fs[i] \in Frame
  BY FrameOfStack
<1>2. /\ Front(fs) \in Seq(Frame)
      /\ Len(Front(fs)) = Len(fs) - 1
      /\ \A i \in 1 .. Len(fs) - 1 : Front(fs)[i] = fs[i]
  BY <1>1, SubSeqProperties DEF Front
<1>3. Front(fs) # <<>>
  BY <1>1, <1>2, EmptySeq
<1>4. Stack(Front(fs))
  BY <1>1, <1>2, <1>3, StackOfKeys
<1>. QED
  BY <1>2, <1>4

(* A step that is called is one level below its caller.                    *)
LEMMA PushStack ==
  ASSUME NEW fs \in Seq(Frame), Stack(fs), NEW k \in Callable(Last(fs))
  PROVE  LET g == Append(fs, [key |-> k, obs |-> <<>>]) IN
         /\ g \in Seq(Frame) /\ Stack(g)
         /\ Len(g) = Len(fs) + 1
         /\ g[Len(fs) + 1].key = k
         /\ \A i \in 1 .. Len(fs) : g[i] = fs[i]
<1>. DEFINE g == Append(fs, [key |-> k, obs |-> <<>>])
<1>1. [key |-> k, obs |-> <<>>] \in Frame
  BY DEF Frame, Body, Callable
<1>2. /\ g \in Seq(Frame) /\ Len(g) = Len(fs) + 1
      /\ g[Len(fs) + 1] = [key |-> k, obs |-> <<>>]
      /\ \A i \in 1 .. Len(fs) : g[i] = fs[i]
  BY <1>1, AppendProperties
<1>3. k \in Key /\ Len(k.path) = Len(fs)
  <2>1. k \in Key /\ k.path = Append(Last(fs).key.path, Len(Last(fs).obs))
    BY DEF Callable
  <2>2. Last(fs).key.path \in Seq(Nat) /\ Len(Last(fs).obs) \in Nat
    <3>1. Last(fs) \in Frame /\ Last(fs).obs \in Seq(Observation)
      BY FrameOfStack DEF Frame
    <3>. QED
      BY <3>1, PathOfFrame
  <2>3. Len(Append(Last(fs).key.path, Len(Last(fs).obs))) = Len(Last(fs).key.path) + 1
    BY <2>2, AppendProperties
  <2>. QED
    BY <2>1, <2>3, FrameOfStack
<1>4. Len(fs) \in Nat /\ Len(fs) >= 1
  BY FrameOfStack
<1>5. g # <<>>
  BY <1>2, <1>4, EmptySeq
<1>6. ASSUME NEW j \in 1 .. Len(fs)
      PROVE  Below(fs[j].key.path, k.path)
  <2>1. /\ Last(fs) = fs[Len(fs)] /\ Last(fs).key.path \in Seq(Nat)
        /\ fs[j].key.path \in Seq(Nat)
    BY FrameOfStack, PathOfFrame
  <2>2. Below(Last(fs).key.path, k.path)
    <3>1. k.path = Append(Last(fs).key.path, Len(Last(fs).obs)) /\ Last(fs).obs \in Seq(Observation)
      BY FrameOfStack DEF Callable, Frame
    <3>. QED
      BY <2>1, <3>1, BelowAppend
  <2>3. j = Len(fs) \/ j \in 1 .. Len(fs) - 1
    BY <1>4
  <2>4. j \in 1 .. Len(fs) - 1 => Below(fs[j].key.path, Last(fs).key.path)
    BY <1>4, <2>1 DEF Stack
  <2>. QED
    BY <1>3, <2>1, <2>2, <2>3, <2>4, BelowTransitive, PathOfKey
<1>7. \A i \in 1 .. Len(g) : \A j \in 1 .. i - 1 : Below(g[j].key.path, g[i].key.path)
  <2>. SUFFICES ASSUME NEW i \in 1 .. Len(g), NEW j \in 1 .. i - 1
                PROVE  Below(g[j].key.path, g[i].key.path)
    OBVIOUS
  <2>1. i \in 1 .. Len(fs) \/ i = Len(fs) + 1
    BY <1>2, <1>4
  <2>2. CASE i \in 1 .. Len(fs)
    BY <1>2, <1>4, <2>2 DEF Stack
  <2>3. CASE i = Len(fs) + 1
    BY <1>2, <1>4, <1>6, <2>3
  <2>. QED
    BY <2>1, <2>2, <2>3
<1>. QED
  BY <1>2, <1>3, <1>4, <1>5, <1>7 DEF Stack

(* Steps without a result stay so when the step cache stays.               *)
LEMMA FreshSame ==
  ASSUME NEW d, NEW f, f.c = d.c, f.u = d.u, NEW fs, NEW n, Fresh(d, fs, n)
  PROVE  Fresh(f, fs, n)
  BY SameCache DEF Fresh

(* skipCachedDescendants never moves the cursor out of the naturals.       *)
LEMMA SkipType ==
  ASSUME NEW t \in Seq(Key), NEW i \in Nat, NEW path
  PROVE  SkipDescendants(t, i, path) \in Nat
<1>. DEFINE m == Max({i, Len(t)})
            S == {n \in i .. m : n >= Len(t) \/ ~Below(path, t[n + 1].path)}
<1>1. Len(t) \in Nat
  OBVIOUS
<1>2. \E x \in {i, Len(t)} : \A y \in {i, Len(t)} : x >= y
  BY <1>1
<1>3. m \in {i, Len(t)} /\ \A y \in {i, Len(t)} : m >= y
  BY <1>2 DEF Max
<1>4. m \in S /\ S \subseteq Nat
  BY <1>1, <1>3
<1>5. \E x \in S : \A y \in S : x <= y
  BY <1>4, LeastNatural
<1>6. Min(S) \in S
  BY <1>5 DEF Min
<1>. QED
  BY <1>4, <1>6 DEF SkipDescendants

-----------------------------------------------------------------------------
(* Writes *)

(* The step whose body runs: the only one that may get a result.           *)
Running == IF pc = "body" THEN {Top.key} ELSE {}

(* A state that the worker may make of its copy.                           *)
Safe(d) ==
  /\ d \in State /\ WithinBudget(d)
  /\ Preserves(mem, d) /\ Retains(mem, d, Running)
  /\ d.ps = mem.ps

(* The worker changes its copy to such a state, whatever becomes of the    *)
(* write; only at the end of a run does it take Redis' state instead.      *)
Moves ==
  \E d : /\ Safe(d)
         /\ store' \in {store, d}
         /\ mem' = d \/ (mem' = store' /\ pc' = "idle")

(* The result of a step leaves every step an attempt.                      *)
LEMMA SaveKeepsBudget ==
  ASSUME NEW d \in State, WithinBudget(d), NEW k \in Key, NEW v \in Value \cup {Undefined}
  PROVE  WithinBudget(SaveStepResult(d, k, v))
<1>1. \A j \in Key : 0 < Attempts[j]
  BY EngineAssumption
<1>2. \A j \in Key : SaveStepResult(d, k, v).a[j] \in {0, d.a[j]}
  <2>1. Cache(d, k, v) \in State
    BY DEF State, Cache
  <2>2. \A j \in Key : Cache(d, k, v).a[j] = IF j = k THEN 0 ELSE d.a[j]
    BY DEF State, Cache
  <2>3. \A j \in Key : SaveStepResult(d, k, v).a[j] \in {0, Cache(d, k, v).a[j]}
    BY <2>1 DEF State, SaveStepResult, Drop
  <2>. QED
    BY <2>2, <2>3
<1>. QED
  BY <1>1, <1>2 DEF WithinBudget

(* Every state that the worker makes of its copy is safe.                  *)
LEMMA SafeOps ==
  ASSUME StatesInv
  PROVE  /\ Safe(mem) /\ Safe(MarkRunning(mem))
         /\ Safe(MarkCompletedFromStoredResult(mem))
         /\ \A kind \in ErrorKind \cup {"none"} : Safe(MarkFailed(mem, kind))
         /\ \A r \in Seq(Observation) : /\ Safe(MarkPublishingResult(mem, r))
                                       /\ Safe(MarkCompleted(mem, r))
         /\ \A k \in Key : Safe(RecordStep(mem, k))
         /\ \A k \in Key : mem.a[k] + 1 < Attempts[k] => Safe(IncrementStepRetryCount(mem, k))
         /\ \A k \in Running \cap Key, v \in Value \cup {Undefined} :
              ~Cached(mem, k) => Safe(SaveStepResult(mem, k, v))
<1>. USE DEF StatesInv
<1>0. /\ MarkRunning(mem).ps = mem.ps /\ MarkCompletedFromStoredResult(mem).ps = mem.ps
      /\ \A kind : MarkFailed(mem, kind).ps = mem.ps
      /\ \A r : MarkPublishingResult(mem, r).ps = mem.ps /\ MarkCompleted(mem, r).ps = mem.ps
      /\ \A k : RecordStep(mem, k).ps = mem.ps /\ IncrementStepRetryCount(mem, k).ps = mem.ps
      /\ \A k, v : SaveStepResult(mem, k, v).ps = mem.ps
  BY PendingStays
<1>1. ASSUME NEW d \in State, Preserves(mem, d), Retains(mem, d, Running), WithinBudget(d),
             d.ps = mem.ps
      PROVE  Safe(d)
  BY <1>1 DEF Safe
<1>2. ASSUME NEW d \in State, d.c = mem.c, d.u = mem.u, WithinBudget(d), d.ps = mem.ps
      PROVE  Safe(d)
  BY <1>1, <1>2, SameCache, SameCacheRetains
<1>3. /\ MarkRunning(mem).a = mem.a
      /\ \A kind : MarkFailed(mem, kind).a = mem.a
      /\ \A r : MarkPublishingResult(mem, r).a = mem.a
      /\ \A k : RecordStep(mem, k).a = mem.a
  BY DEF State, MarkRunning, MarkFailed, MarkPublishingResult, RecordStep
<1>4. ASSUME NEW d \in State, d.a = mem.a
      PROVE  WithinBudget(d)
  BY <1>4 DEF WithinBudget
<1>5. ASSUME NEW d \in State, WithinBudget(d), NEW K
      PROVE  WithinBudget(Drop(d, K))
  <2>1. \A k \in Key : 0 < Attempts[k]
    BY EngineAssumption
  <2>2. \A k \in Key : Drop(d, K).a[k] \in {0, d.a[k]}
    BY DEF State, Drop
  <2>. QED
    BY <1>5, <2>1, <2>2 DEF WithinBudget
<1>6. Safe(mem)
  BY <1>2
<1>7. Safe(MarkRunning(mem))
  BY <1>0, <1>2, <1>3, <1>4, StatusOpsType, UncachingOps
<1>9. ASSUME NEW kind \in ErrorKind \cup {"none"}
      PROVE  Safe(MarkFailed(mem, kind))
  BY <1>0, <1>2, <1>3, <1>4, StatusOpsType, UncachingOps
<1>10. ASSUME NEW r \in Seq(Observation)
       PROVE  Safe(MarkPublishingResult(mem, r))
  BY <1>0, <1>2, <1>3, <1>4, StatusOpsType, UncachingOps
<1>11. ASSUME NEW k \in Key
       PROVE  Safe(RecordStep(mem, k))
  BY <1>0, <1>2, <1>3, <1>4, CacheOpsType, UncachingOps
<1>12. ASSUME NEW k \in Key, mem.a[k] + 1 < Attempts[k]
       PROVE  Safe(IncrementStepRetryCount(mem, k))
  <2>1. \A j \in Key : IncrementStepRetryCount(mem, k).a[j] = IF j = k THEN mem.a[k] + 1 ELSE mem.a[j]
    BY DEF State, IncrementStepRetryCount
  <2>2. WithinBudget(IncrementStepRetryCount(mem, k))
    BY <1>12, <2>1 DEF WithinBudget
  <2>. QED
    BY <1>0, <1>2, <2>2, CacheOpsType, UncachingOps
<1>13. ASSUME NEW k \in Running \cap Key, NEW v \in Value \cup {Undefined}, ~Cached(mem, k)
       PROVE  Safe(SaveStepResult(mem, k, v))
  <2>1. WithinBudget(SaveStepResult(mem, k, v))
    BY SaveKeepsBudget
  <2>2. Retains(mem, SaveStepResult(mem, k, v), Running)
    <3>1. Retains(mem, SaveStepResult(mem, k, v), {k})
      BY SaveRetains
    <3>. QED
      BY <1>13, <3>1 DEF Retains
  <2>. QED
    BY <1>0, <1>1, <1>13, <2>1, <2>2, CacheOpsType, SavePreserves
<1>14. ASSUME NEW d \in State, d.a = mem.a
       PROVE  WithinBudget(Compact(d))
  BY <1>4, <1>5, <1>14 DEF Compact
<1>15. Safe(MarkCompletedFromStoredResult(mem))
  <2>1. /\ [mem EXCEPT !.s = "completed", !.e = "none"] \in State
        /\ [mem EXCEPT !.s = "completed", !.e = "none"].a = mem.a
    BY DEF State, Status
  <2>2. WithinBudget(MarkCompletedFromStoredResult(mem))
    BY <1>14, <2>1 DEF MarkCompletedFromStoredResult
  <2>. QED
    BY <1>0, <1>1, <2>2, CompletionType, CompletionPreserves, CompletionRetains
<1>16. ASSUME NEW r \in Seq(Observation)
       PROVE  Safe(MarkCompleted(mem, r))
  <2>1. /\ [mem EXCEPT !.s = "completed", !.r = r, !.e = "none"] \in State
        /\ [mem EXCEPT !.s = "completed", !.r = r, !.e = "none"].a = mem.a
    BY DEF State, Status
  <2>2. WithinBudget(MarkCompleted(mem, r))
    BY <1>14, <2>1 DEF MarkCompleted
  <2>. QED
    BY <1>0, <1>1, <2>2, CompletionType, CompletionPreserves, CompletionRetains
<1>. QED
  BY <1>6, <1>7, <1>9, <1>10, <1>11, <1>12, <1>13, <1>15, <1>16

(* A safe write, whatever becomes of it.                                   *)
LEMMA WriteKeeps ==
  ASSUME StatesInv, NEW d, Safe(d), store' \in {store, d},
         mem' = d \/ (mem' = store' /\ pc' = "idle")
  PROVE  StatesInv' /\ Moves
<1>1. Moves
  BY DEF Moves
<1>2. store' \in State /\ mem' \in State /\ WithinBudget(store)' /\ WithinBudget(mem)'
  BY DEF StatesInv, Safe, WithinBudget
<1>. QED
  BY <1>1, <1>2 DEF StatesInv

(* No write: the worker keeps its copy or takes that of Redis.             *)
LEMMA QuietKeeps ==
  ASSUME StatesInv, store' = store, mem' = mem \/ (mem' = store /\ pc' = "idle")
  PROVE  StatesInv' /\ Moves
  BY SafeOps, WriteKeeps

(* In the engine, where nobody else writes, the worker's copy stays ahead  *)
(* of Redis, and Redis keeps its decisions.                                *)
LEMMA MovesKeep ==
  ASSUME StateInv, StatesInv', Moves
  PROVE  StateInv' /\ Preserves(store, store')
<1>1. PICK d : /\ Safe(d) /\ store' \in {store, d} /\ mem' \in {d, store'}
  BY DEF Moves
<1>2. /\ d \in State /\ store \in State /\ mem \in State
      /\ Preserves(store, mem) /\ Preserves(mem, d)
  BY <1>1 DEF Safe, StateInv
<1>5. Preserves(store, store) /\ Preserves(d, d) /\ Preserves(store, d)
  <2>1. Preserves(store, store) /\ Preserves(d, d)
    BY <1>2, PreservesReflexive
  <2>2. Preserves(store, d)
    BY <1>2, PreservesTransitive
  <2>. QED
    BY <2>1, <2>2
<1>3. Preserves(store, store') /\ Preserves(store', mem')
  BY <1>1, <1>5
<1>. QED
  BY <1>3 DEF StateInv, StatesInv

(* Spending from a bound.                                                  *)
LEMMA SpendType ==
  ASSUME ControlType, NEW field \in Bounded, Spend(field)
  PROVE  spent' \in [Bounded -> Nat]
  BY DEF ControlType, Spend

(* The effect of a flush, whether it succeeds or not.                      *)
LEMMA FlushEffect ==
  ASSUME ControlType, NEW d, NEW limited, FlushOk(d, limited) \/ FlushFails(d, limited)
  PROVE  /\ mem' = d
         /\ store' \in {store, d}
         /\ spent' \in [Bounded -> Nat]
<1>1. Spend("faults") => spent' \in [Bounded -> Nat]
  BY SpendType DEF Bounded
<1>. QED
  BY <1>1 DEF ControlType, FlushOk, FlushFails

-----------------------------------------------------------------------------
(* Control *)

(* The end of a run leaves no frames.                                      *)
LEMMA EndRunEffect ==
  ASSUME ControlType, NEW how \in {"resolved", "rejected", "delayed", "crashed"}, EndRun(how),
         resultQ' = resultQ \/ resultQ' \in [status : {"none", "completed", "failed"},
                                            result : Seq(Observation) \cup {Undefined}],
         spent' \in [Bounded -> Nat]
  PROVE  ControlType' /\ FramesInv' /\ mem' = store' /\ pc' = "idle"
<1>1. <<>> \in Seq(Frame)
  OBVIOUS
<1>. QED
  BY <1>1 DEF ControlType, FramesInv, EndRun, PC

(* After the last write of a run, the probe starts or the run ends.        *)
LEMMA CompletionEffect ==
  ASSUME ControlType, AfterCompletion, mem' = store', resultQ' = resultQ,
         spent' \in [Bounded -> Nat]
  PROVE  ControlType' /\ FramesInv'
<1>1. CASE AutoProbe
  <2>1. /\ pc' = "body" /\ frames' = RootFrames /\ cursor' = 0 /\ probing' = TRUE
        /\ failures' = failures /\ err' = err /\ outcome' = outcome
    BY <1>1 DEF AfterCompletion
  <2>2. FramesInv'
    BY <2>1, RootStack DEF FramesInv
  <2>3. ControlType'
    BY <2>1, RootStack DEF ControlType, PC
  <2>. QED
    BY <2>2, <2>3
<1>2. CASE ~AutoProbe
  BY <1>2, EndRunEffect DEF AfterCompletion
<1>. QED
  BY <1>1, <1>2

(* An error that reaches a body meets a proper stack there.                *)
LEMMA DeliverEffect ==
  ASSUME NEW fs \in Seq(Frame), Stack(fs), NEW kind \in ErrorKind \cup {"none"},
         Deliver(fs, kind), Fresh(mem', fs, Len(fs))
  PROVE  /\ frames' \in Seq(Frame) /\ pc' \in {"body", "catch", "caught"}
         /\ err' \in ErrorKind \cup {"none"}
         /\ FramesInv'
<1>1. Len(fs) \in Nat /\ Len(fs) >= 1
  BY FrameOfStack
<1>2. CASE Last(fs).key \in Catches
  <2>1. frames' = Observed(fs, Caught) /\ pc' = "body" /\ err' = "none"
    BY <1>2 DEF Deliver
  <2>2. Caught \in Observation
    BY DEF Observation
  <2>3. /\ frames' \in Seq(Frame) /\ Stack(frames') /\ Len(frames') = Len(fs)
        /\ \A i \in 1 .. Len(fs) : frames'[i].key = fs[i].key
    BY <2>1, <2>2, ObservedStack
  <2>4. Fresh(mem', frames', Len(frames'))
    BY <1>1, <2>3 DEF Fresh
  <2>. QED
    BY <2>1, <2>3, <2>4 DEF FramesInv
<1>3. CASE Last(fs).key \notin Catches
  <2>1. frames' = fs /\ err' = kind /\ pc' = IF Len(fs) = 1 THEN "caught" ELSE "catch"
    BY <1>3 DEF Deliver
  <2>2. CASE Len(fs) = 1
    BY <2>1, <2>2 DEF FramesInv
  <2>3. CASE Len(fs) # 1
    <3>1. Len(fs) >= 2 /\ Fresh(mem', fs, Len(fs) - 1)
      <4>1. \A n \in Nat : n >= 1 /\ n # 1 => n >= 2 /\ 2 .. n - 1 \subseteq 2 .. n
        OBVIOUS
      <4>. QED
        BY <1>1, <2>3, <4>1 DEF Fresh
    <3>2. pc' = "catch" /\ frames' = fs
      BY <2>1, <2>3
    <3>. QED
      BY <2>1, <3>1, <3>2 DEF FramesInv
  <2>. QED
    BY <2>2, <2>3
<1>. QED
  BY <1>2, <1>3

(* A cached call is observed, another one starts its body.                 *)
LEMMA EnterEffect ==
  ASSUME ControlType, Stack(frames), pc = "body", NEW k \in Callable(Top), Enter(mem', k),
         mem' \in State, Fresh(mem', frames, Len(frames))
  PROVE  /\ frames' \in Seq(Frame) /\ pc' \in {"body", "catch", "caught"}
         /\ err' \in ErrorKind \cup {"none"} /\ cursor' \in Nat
         /\ FramesInv'
<1>. USE DEF ControlType
<1>1. k \in Key /\ Len(frames) \in Nat /\ Len(frames) >= 1
  BY FrameOfStack DEF Callable
<1>2. CASE Cached(mem', k)
  <2>1. /\ cursor' = SkipDescendants(mem'.t, cursor + 1, k.path)
        /\ frames' = Observed(frames, StepResult(mem', k))
        /\ pc' = pc /\ err' = err
    BY <1>2 DEF Enter
  <2>2. StepResult(mem', k) \in Observation
    BY <1>1, <1>2 DEF State, Cached, StepResult, Observation
  <2>3. /\ frames' \in Seq(Frame) /\ Stack(frames') /\ Len(frames') = Len(frames)
        /\ \A i \in 1 .. Len(frames) : frames'[i].key = frames[i].key
    BY <2>1, <2>2, ObservedStack
  <2>4. Fresh(mem', frames', Len(frames'))
    BY <1>1, <2>3 DEF Fresh
  <2>5. cursor' \in Nat
    BY <2>1, SkipType DEF State
  <2>. QED
    BY <2>1, <2>3, <2>4, <2>5 DEF FramesInv
<1>3. CASE ~Cached(mem', k) /\ probing
  <2>1. cursor' = cursor + 1 /\ Deliver(frames, "nondeterminism")
    BY <1>3 DEF Enter
  <2>2. cursor' \in Nat
    BY <2>1
  <2>. QED
    BY <2>1, <2>2, DeliverEffect DEF ErrorKind
<1>4. CASE ~Cached(mem', k) /\ ~probing
  <2>1. /\ cursor' = cursor + 1 /\ pc' = pc /\ err' = err
        /\ frames' = Append(frames, [key |-> k, obs |-> <<>>])
    BY <1>4 DEF Enter
  <2>2. /\ frames' \in Seq(Frame) /\ Stack(frames') /\ Len(frames') = Len(frames) + 1
        /\ frames'[Len(frames) + 1].key = k
        /\ \A i \in 1 .. Len(frames) : frames'[i] = frames[i]
    BY <2>1, PushStack DEF Top
  <2>3. Fresh(mem', frames', Len(frames'))
    BY <1>1, <1>4, <2>2 DEF Fresh
  <2>. QED
    BY <2>1, <2>2, <2>3 DEF FramesInv
<1>. QED
  BY <1>2, <1>3, <1>4

-----------------------------------------------------------------------------
(* Steps *)

Stays == RunInv' /\ Moves

(* The delivery of the job.                                                *)
LEMMA RunStep ==
  ASSUME RunInv, Run
  PROVE  RunInv' /\ store' = store /\ mem' \in {mem, store}
<1>. USE DEF RunInv
<1>1. store' = store /\ mem' \in {mem, store} /\ pc' \in {"idle", "attempt"}
  BY DEF Run, durable
<1>2. spent' \in [Bounded -> Nat]
  <2>1. Spend("reruns") => spent' \in [Bounded -> Nat]
    BY SpendType DEF Bounded
  <2>. QED
    BY <2>1 DEF Run, Delivered, ControlType
<1>3. ControlType'
  BY <1>1, <1>2 DEF Run, ControlType, durable, context, PC
<1>4. FramesInv'
  BY <1>1 DEF FramesInv
<1>5. StatesInv'
  BY <1>1 DEF StatesInv, WithinBudget
<1>. QED
  BY <1>1, <1>3, <1>4, <1>5

(* A cancelled job keeps the decisions it had.                             *)
LEMMA MarkCancelledKeeps ==
  ASSUME NEW d \in State, WithinBudget(d)
  PROVE  /\ MarkCancelled(d) \in State /\ WithinBudget(MarkCancelled(d))
         /\ Preserves(d, MarkCancelled(d))
<1>1. MarkCancelled(d).a = d.a
  BY DEF State, MarkCancelled
<1>. QED
  BY <1>1, StatusOpsType, UncachingOps, SameCache DEF WithinBudget

(* The start of an attempt.                                                *)
LEMMA AttemptStep ==
  ASSUME RunInv, BeginAttempt \/ ResumePublishing
  PROVE  Stays
<1>. USE DEF RunInv, Stays
<1>1. CASE BeginAttempt
  <2>. DEFINE d == MarkRunning(mem)
  <2>1. /\ mem' = d /\ store' \in {store, d} /\ spent' \in [Bounded -> Nat]
    BY <1>1, FlushEffect DEF BeginAttempt
  <2>2. StatesInv' /\ Moves
    BY <2>1, SafeOps, WriteKeeps
  <2>3. \/ pc' = "body" /\ frames' = RootFrames /\ err' = err
        \/ pc' = "caught" /\ frames' = frames /\ err' = "error"
    BY <1>1 DEF BeginAttempt
  <2>4. ControlType'
    BY <1>1, <2>1, <2>3, RootStack DEF BeginAttempt, ControlType, PC, ErrorKind
  <2>5. FramesInv'
    BY <2>3, RootStack DEF FramesInv
  <2>. QED
    BY <2>2, <2>4, <2>5
<1>2. CASE ResumePublishing
  <2>1. StatesInv' /\ Moves
    BY <1>2, QuietKeeps DEF ResumePublishing, durable
  <2>2. ControlType'
    BY <1>2 DEF ResumePublishing, ControlType, durable, context, PC
  <2>3. FramesInv'
    BY <1>2 DEF ResumePublishing, FramesInv
  <2>. QED
    BY <2>1, <2>2, <2>3
<1>. QED
  BY <1>1, <1>2

(* enterStep.                                                              *)
LEMMA CallStep ==
  ASSUME RunInv, NEW k \in Key, ReplayStep(k) \/ TraceStep(k) \/ DivergeStep(k)
  PROVE  Stays
<1>. USE DEF RunInv, Stays
<1>1. /\ pc = "body" /\ k \in Callable(Top) /\ Stack(frames)
      /\ frames \in Seq(Frame) /\ Fresh(mem, frames, Len(frames))
  BY DEF ReplayStep, TraceStep, DivergeStep, FramesInv, ControlType
<1>2. {"body", "catch", "caught"} \subseteq PC /\ ErrorKind \subseteq ErrorKind \cup {"none"}
  BY DEF PC
<1>3. CASE ReplayStep(k)
  <2>1. mem' = mem /\ store' = store /\ Enter(mem', k)
    BY <1>3 DEF ReplayStep, durable
  <2>2. StatesInv' /\ Moves
    BY <2>1, QuietKeeps
  <2>3. /\ frames' \in Seq(Frame) /\ pc' \in {"body", "catch", "caught"}
        /\ err' \in ErrorKind \cup {"none"} /\ cursor' \in Nat
        /\ FramesInv'
    BY <1>1, <2>1, EnterEffect DEF StatesInv
  <2>4. ControlType'
    BY <1>2, <1>3, <2>3 DEF ReplayStep, ControlType, durable
  <2>. QED
    BY <2>2, <2>3, <2>4
<1>4. CASE TraceStep(k)
  <2>. DEFINE d == RecordStep(mem, k)
  <2>1. /\ mem' = d /\ store' \in {store, d} /\ spent' \in [Bounded -> Nat]
    BY <1>4, FlushEffect DEF TraceStep
  <2>2. StatesInv' /\ Moves
    BY <2>1, SafeOps, WriteKeeps
  <2>3. Fresh(mem', frames, Len(frames)) /\ mem' \in State
    <3>1. d.c = mem.c /\ d.u = mem.u
      BY UncachingOps DEF StatesInv
    <3>2. Fresh(d, frames, Len(frames))
      BY <1>1, <3>1, FreshSame
    <3>. QED
      BY <2>1, <2>2, <3>2 DEF StatesInv
  <2>4. \/ Enter(mem', k)
        \/ Deliver(frames, "error") /\ cursor' = cursor
    BY <1>4, <2>1 DEF TraceStep
  <2>5. /\ frames' \in Seq(Frame) /\ pc' \in {"body", "catch", "caught"}
        /\ err' \in ErrorKind \cup {"none"} /\ cursor' \in Nat
        /\ FramesInv'
    <3>1. CASE Enter(mem', k)
      BY <1>1, <2>3, <3>1, EnterEffect
    <3>2. CASE Deliver(frames, "error") /\ cursor' = cursor
      BY <1>1, <2>3, <3>2, DeliverEffect DEF ErrorKind, ControlType
    <3>. QED
      BY <2>4, <3>1, <3>2
  <2>6. ControlType'
    BY <1>2, <1>4, <2>1, <2>5 DEF TraceStep, ControlType
  <2>. QED
    BY <2>2, <2>5, <2>6
<1>5. CASE DivergeStep(k)
  <2>1. mem' = mem /\ store' = store
    BY <1>5 DEF DivergeStep, durable
  <2>2. StatesInv' /\ Moves
    BY <2>1, QuietKeeps
  <2>3. \E kind \in ErrorKind : Deliver(frames, kind)
    BY <1>5 DEF DivergeStep, ErrorKind
  <2>4. /\ frames' \in Seq(Frame) /\ pc' \in {"body", "catch", "caught"}
        /\ err' \in ErrorKind \cup {"none"} /\ FramesInv'
    BY <1>1, <2>1, <2>3, DeliverEffect
  <2>5. ControlType'
    BY <1>2, <1>5, <2>4 DEF DivergeStep, ControlType, durable
  <2>. QED
    BY <2>2, <2>4, <2>5
<1>. QED
  BY <1>3, <1>4, <1>5

(* A step that saves its result decides no other step on the stack.        *)
LEMMA FreshAfterSave ==
  ASSUME NEW d \in State, NEW fs \in Seq(Frame), Stack(fs), Len(fs) >= 2,
         NEW v \in Value \cup {Undefined}, Fresh(d, fs, Len(fs))
  PROVE  /\ ~Cached(d, Last(fs).key)
         /\ Fresh(SaveStepResult(d, Last(fs).key, v), fs, Len(fs) - 1)
<1>. DEFINE k == Last(fs).key
<1>1. Len(fs) \in Nat /\ k \in Key /\ k = fs[Len(fs)].key /\ Len(k.path) = Len(fs) - 1
  BY FrameOfStack
<1>2. ~Cached(d, k)
  BY <1>1 DEF Fresh
<1>3. ASSUME NEW i \in 2 .. Len(fs) - 1
      PROVE  ~Cached(SaveStepResult(d, k, v), fs[i].key)
  <2>1. i \in 2 .. Len(fs) /\ i - 1 # Len(fs) - 1
    BY <1>1
  <2>2. fs[i].key \in Key /\ Len(fs[i].key.path) = i - 1 /\ ~Cached(d, fs[i].key)
    BY <2>1 DEF Stack, Fresh
  <2>3. fs[i].key # k
    BY <1>1, <2>1, <2>2
  <2>. QED
    BY <1>1, <1>2, <2>2, <2>3, SavePreserves
<1>. QED
  BY <1>2, <1>3 DEF Fresh

(* The body of a step returns or throws.                                   *)
LEMMA BodyStep ==
  ASSUME RunInv,
         \/ \E v \in Value \cup {Undefined} : CompleteStep(v)
         \/ \E kind \in {"error", "nonRetryable", "sleep"} : Throw(kind)
  PROVE  Stays
<1>. USE DEF RunInv, Stays
<1>1. pc = "body" /\ Stack(frames) /\ frames \in Seq(Frame) /\ Fresh(mem, frames, Len(frames))
  BY DEF CompleteStep, Throw, FramesInv, ControlType
<1>2. Len(frames) \in Nat /\ Len(frames) >= 1 /\ (~InRoot => Len(frames) >= 2)
  <2>1. \A n \in Nat : n >= 1 /\ n # 1 => n >= 2
    OBVIOUS
  <2>. QED
    BY <1>1, <2>1, FrameOfStack DEF InRoot
<1>3. ASSUME NEW v \in Value \cup {Undefined}, CompleteStep(v)
      PROVE  Stays
  <2>. DEFINE k == Top.key
              d == SaveStepResult(mem, k, v)
  <2>1. /\ mem' = d /\ store' \in {store, d} /\ spent' \in [Bounded -> Nat]
    BY <1>3, FlushEffect DEF CompleteStep
  <2>2. Len(frames) >= 2 /\ k \in Key
    BY <1>1, <1>2, <1>3, FrameOfStack DEF CompleteStep, Top
  <2>3. ~Cached(mem, k) /\ Fresh(d, frames, Len(frames) - 1)
    BY <1>1, <2>2, FreshAfterSave DEF Top, StatesInv
  <2>4. StatesInv' /\ Moves
    <3>1. k \in Running \cap Key
      BY <1>1, <2>2 DEF Running
    <3>2. Safe(d)
      BY <2>3, <3>1, SafeOps
    <3>. QED
      BY <2>1, <3>2, WriteKeeps
  <2>5. \/ frames' = Observed(Front(frames), v) /\ pc' = pc /\ err' = err
        \/ frames' = frames /\ pc' = "catch" /\ err' = "error"
    BY <1>3 DEF CompleteStep
  <2>6. CASE frames' = Observed(Front(frames), v) /\ pc' = pc /\ err' = err
    <3>1. v \in Observation
      BY DEF Observation
    <3>2. /\ Front(frames) \in Seq(Frame) /\ Stack(Front(frames))
          /\ Len(Front(frames)) = Len(frames) - 1
          /\ \A i \in 1 .. Len(frames) - 1 : Front(frames)[i] = frames[i]
      BY <1>1, <2>2, FrontStack
    <3>3. /\ frames' \in Seq(Frame) /\ Stack(frames') /\ Len(frames') = Len(frames) - 1
          /\ \A i \in 1 .. Len(frames) - 1 : frames'[i].key = frames[i].key
      BY <2>6, <3>1, <3>2, ObservedStack
    <3>4. Fresh(mem', frames', Len(frames'))
      BY <1>2, <2>1, <2>3, <3>3 DEF Fresh
    <3>5. ControlType' /\ FramesInv'
      BY <1>1, <1>3, <2>1, <2>6, <3>3, <3>4 DEF CompleteStep, ControlType, FramesInv
    <3>. QED
      BY <2>4, <3>5
  <2>7. CASE frames' = frames /\ pc' = "catch" /\ err' = "error"
    <3>1. FramesInv'
      BY <1>1, <2>1, <2>2, <2>3, <2>7 DEF FramesInv
    <3>2. ControlType'
      BY <1>3, <2>1, <2>7 DEF CompleteStep, ControlType, PC, ErrorKind
    <3>. QED
      BY <2>4, <3>1, <3>2
  <2>. QED
    BY <2>5, <2>6, <2>7
<1>4. ASSUME NEW kind \in {"error", "nonRetryable", "sleep"}, Throw(kind)
      PROVE  Stays
  <2>1. StatesInv' /\ Moves
    BY <1>4, QuietKeeps DEF Throw, durable
  <2>2. spent' \in [Bounded -> Nat]
    <3>1. Spend("sleeps") => spent' \in [Bounded -> Nat]
      BY SpendType DEF Bounded
    <3>. QED
      BY <1>4, <3>1 DEF Throw, ControlType
  <2>3. ControlType'
    BY <1>4, <2>2 DEF Throw, ControlType, durable, context, PC, ErrorKind
  <2>4. /\ mem' = mem /\ frames' = frames
        /\ pc' = IF InRoot THEN "caught" ELSE "catch"
    BY <1>4 DEF Throw, context
  <2>5. ~InRoot => Fresh(mem, frames, Len(frames) - 1)
    <3>1. \A n \in Nat : 2 .. n - 1 \subseteq 2 .. n
      OBVIOUS
    <3>. QED
      BY <1>1, <1>2, <3>1 DEF Fresh
  <2>6. FramesInv'
    BY <1>1, <1>2, <2>4, <2>5 DEF FramesInv
  <2>. QED
    BY <2>1, <2>3, <2>6
<1>. QED
  BY <1>3, <1>4

(* The wrapper's catch.                                                    *)
LEMMA WrapperStep ==
  ASSUME RunInv, ChargeFailure \/ Rethrow
  PROVE  Stays
<1>. USE DEF RunInv, Stays
<1>1. /\ pc = "catch" /\ Stack(frames) /\ frames \in Seq(Frame)
      /\ Len(frames) >= 2 /\ Fresh(mem, frames, Len(frames) - 1)
  BY DEF ChargeFailure, Rethrow, FramesInv, ControlType
<1>2. Len(frames) \in Nat /\ Top.key \in Key
  BY <1>1, FrameOfStack DEF Top
<1>3. /\ Front(frames) \in Seq(Frame) /\ Stack(Front(frames))
      /\ Len(Front(frames)) = Len(frames) - 1
      /\ \A i \in 1 .. Len(frames) - 1 : Front(frames)[i] = frames[i]
  BY <1>1, FrontStack
<1>4. Fresh(mem, Front(frames), Len(Front(frames)))
  BY <1>1, <1>2, <1>3 DEF Fresh
<1>5. {"body", "catch", "caught"} \subseteq PC
  BY DEF PC
<1>6. CASE ChargeFailure
  <2>. DEFINE d == IncrementStepRetryCount(mem, Top.key)
  <2>1. /\ mem' = d /\ store' \in {store, d} /\ spent' \in [Bounded -> Nat]
    BY <1>6, FlushEffect DEF ChargeFailure
  <2>2. StatesInv' /\ Moves
    BY <1>2, <1>6, <2>1, SafeOps, WriteKeeps DEF ChargeFailure, MayRetry
  <2>3. Fresh(mem', Front(frames), Len(Front(frames)))
    <3>1. d.c = mem.c /\ d.u = mem.u
      BY UncachingOps DEF StatesInv
    <3>. QED
      BY <1>4, <2>1, <3>1, FreshSame
  <2>4. \E kind \in ErrorKind : Deliver(Front(frames), kind)
    BY <1>6 DEF ChargeFailure, ErrorKind
  <2>5. /\ frames' \in Seq(Frame) /\ pc' \in {"body", "catch", "caught"}
        /\ err' \in ErrorKind \cup {"none"} /\ FramesInv'
    BY <1>3, <2>3, <2>4, DeliverEffect
  <2>6. ControlType'
    BY <1>5, <1>6, <2>1, <2>5 DEF ChargeFailure, ControlType
  <2>. QED
    BY <2>2, <2>5, <2>6
<1>7. CASE Rethrow
  <2>1. mem' = mem /\ store' = store /\ Deliver(Front(frames), err)
    BY <1>7 DEF Rethrow, durable
  <2>2. StatesInv' /\ Moves
    BY <2>1, QuietKeeps
  <2>3. /\ frames' \in Seq(Frame) /\ pc' \in {"body", "catch", "caught"}
        /\ err' \in ErrorKind \cup {"none"} /\ FramesInv'
    BY <1>3, <1>4, <2>1, DeliverEffect DEF ControlType
  <2>4. ControlType'
    BY <1>5, <1>7, <2>3 DEF Rethrow, ControlType, durable
  <2>. QED
    BY <2>2, <2>3, <2>4
<1>. QED
  BY <1>6, <1>7

(* run() of the workflow returned.                                         *)
LEMMA ReturnStep ==
  ASSUME RunInv,
         ReturnDiverged \/ Complete \/ StoreResult \/ ReturnUnserializable \/ ReturnFromProbe
  PROVE  Stays
<1>. USE DEF RunInv, Stays
<1>1. pc = "body" /\ Stack(frames) /\ frames \in Seq(Frame) /\ Top.obs \in Seq(Observation)
  <2>1. pc = "body" /\ Stack(frames) /\ frames \in Seq(Frame)
    BY DEF ReturnDiverged, Complete, StoreResult, ReturnUnserializable, ReturnFromProbe,
           CanReturn, FramesInv, ControlType
  <2>2. Top \in Frame
    BY <2>1, FrameOfStack DEF Top
  <2>. QED
    BY <2>1, <2>2 DEF Frame
<1>2. CASE ReturnDiverged
  <2>1. StatesInv' /\ Moves
    BY <1>2, QuietKeeps DEF ReturnDiverged, durable
  <2>2. ControlType' /\ FramesInv'
    BY <1>2 DEF ReturnDiverged, ControlType, FramesInv, durable, context, PC, ErrorKind
  <2>. QED
    BY <2>1, <2>2
<1>3. CASE Complete
  <2>. DEFINE d == MarkCompleted(mem, Top.obs)
  <2>1. /\ mem' = d /\ store' \in {store, d} /\ spent' \in [Bounded -> Nat]
    BY <1>3, FlushEffect DEF Complete
  <2>2. StatesInv' /\ Moves
    BY <1>1, <2>1, SafeOps, WriteKeeps
  <2>3. \/ AfterCompletion /\ mem' = store'
        \/ pc' = "caught" /\ err' = "error" /\ UNCHANGED <<context, failures, outcome>>
    BY <1>3 DEF Complete, FlushOk
  <2>4. resultQ' = resultQ
    BY <1>3 DEF Complete
  <2>5. CASE AfterCompletion /\ mem' = store'
    BY <2>1, <2>2, <2>4, <2>5, CompletionEffect
  <2>6. CASE pc' = "caught" /\ err' = "error" /\ UNCHANGED <<context, failures, outcome>>
    <3>1. ControlType' /\ FramesInv'
      BY <2>1, <2>4, <2>6 DEF ControlType, FramesInv, context, PC, ErrorKind
    <3>. QED
      BY <2>2, <3>1
  <2>. QED
    BY <2>3, <2>5, <2>6
<1>4. CASE StoreResult
  <2>. DEFINE d == MarkPublishingResult(mem, Top.obs)
  <2>1. /\ mem' = d /\ store' \in {store, d} /\ spent' \in [Bounded -> Nat]
    BY <1>4, FlushEffect DEF StoreResult
  <2>2. StatesInv' /\ Moves
    BY <1>1, <2>1, SafeOps, WriteKeeps
  <2>3. ControlType' /\ FramesInv'
    BY <1>4, <2>1 DEF StoreResult, ControlType, FramesInv, context, PC, ErrorKind
  <2>. QED
    BY <2>2, <2>3
<1>5. CASE ReturnUnserializable
  <2>1. \E x \in {"completing", "completed"} : mem' = [mem EXCEPT !.s = x]
    BY <1>5 DEF ReturnUnserializable
  <2>2. mem' \in State /\ mem'.c = mem.c /\ mem'.u = mem.u /\ mem'.a = mem.a
        /\ mem'.ps = mem.ps
    BY <2>1 DEF StatesInv, State, Status
  <2>3. Preserves(mem, mem') /\ store' = store
    BY <1>5, <2>2, SameCache DEF ReturnUnserializable, durable
  <2>4. PICK d : d = mem' /\ Safe(d)
    BY <2>2, <2>3, SameCacheRetains DEF StatesInv, WithinBudget, Safe
  <2>5. StatesInv' /\ Moves
    BY <2>3, <2>4, WriteKeeps
  <2>6. ControlType' /\ FramesInv'
    BY <1>5 DEF ReturnUnserializable, ControlType, FramesInv, durable, context, PC, ErrorKind
  <2>. QED
    BY <2>5, <2>6
<1>6. CASE ReturnFromProbe
  <2>1. /\ store' = store /\ resultQ' = resultQ /\ spent' = spent
        /\ \E how \in {"resolved", "rejected"} : EndRun(how)
    BY <1>6 DEF ReturnFromProbe, durable
  <2>2. ControlType' /\ FramesInv' /\ mem' = store' /\ pc' = "idle"
    BY <2>1, EndRunEffect DEF ControlType
  <2>3. StatesInv' /\ Moves
    BY <2>1, <2>2, QuietKeeps
  <2>. QED
    BY <2>2, <2>3
<1>. QED
  BY <1>2, <1>3, <1>4, <1>5, <1>6

(* The publication of the stored result.                                   *)
LEMMA PublishStep ==
  ASSUME RunInv, Publish \/ Finalize
  PROVE  Stays
<1>. USE DEF RunInv, Stays
<1>1. Spend("faults") => spent' \in [Bounded -> Nat]
  BY SpendType DEF Bounded
<1>2. CASE Publish
  <2>1. Enqueue([status |-> "completed", result |-> mem.r])
          \in [status : {"none", "completed", "failed"},
               result : Seq(Observation) \cup {Undefined}]
    BY DEF Enqueue, ControlType, StatesInv, State
  <2>2. CASE pc' = "finalize" /\ UNCHANGED <<mem, context, failures, err, outcome, spent>>
    <3>1. ControlType' /\ FramesInv'
      BY <1>2, <2>1, <2>2 DEF Publish, ControlType, FramesInv, context, PC
    <3>2. StatesInv' /\ Moves
      BY <1>2, <2>2, QuietKeeps DEF Publish
    <3>. QED
      BY <3>1, <3>2
  <2>3. CASE Spend("faults") /\ EndRun("rejected")
    <3>1. ControlType' /\ FramesInv' /\ mem' = store' /\ pc' = "idle"
      BY <1>1, <1>2, <2>1, <2>3, EndRunEffect DEF Publish, ControlType
    <3>2. StatesInv' /\ Moves
      BY <1>2, <3>1, QuietKeeps DEF Publish
    <3>. QED
      BY <3>1, <3>2
  <2>. QED
    BY <1>2, <2>2, <2>3 DEF Publish
<1>3. CASE Finalize
  <2>. DEFINE d == MarkCompletedFromStoredResult(mem)
  <2>1. resultQ' = resultQ /\ Safe(d)
    BY <1>3, SafeOps DEF Finalize
  <2>2. CASE FlushOk(d, FALSE) /\ AfterCompletion
    <3>1. /\ mem' = d /\ store' \in {store, d} /\ spent' \in [Bounded -> Nat]
      BY <2>2, FlushEffect
    <3>2. StatesInv' /\ Moves
      BY <2>1, <3>1, WriteKeeps
    <3>3. mem' = store'
      BY <2>2 DEF FlushOk
    <3>. QED
      BY <2>1, <2>2, <3>1, <3>2, <3>3, CompletionEffect
  <2>3. CASE Spend("faults") /\ store' \in {store, d} /\ EndRun("rejected")
    <3>1. ControlType' /\ FramesInv' /\ mem' = store' /\ pc' = "idle"
      BY <1>1, <2>1, <2>3, EndRunEffect
    <3>2. StatesInv' /\ Moves
      BY <2>1, <2>3, <3>1, WriteKeeps
    <3>. QED
      BY <3>1, <3>2
  <2>. QED
    BY <1>3, <2>2, <2>3 DEF Finalize
<1>. QED
  BY <1>2, <1>3

(* The catch of run(), and the crash of the worker.                        *)
LEMMA CatchStep ==
  ASSUME RunInv,
         FailProbe \/ Park \/ RetryStep \/ RetryWorkflow \/ Fail \/ HandleFailure \/ Crash
  PROVE  Stays
<1>. USE DEF RunInv, Stays
<1>1. /\ Spend("faults") => spent' \in [Bounded -> Nat]
      /\ Spend("crashes") => spent' \in [Bounded -> Nat]
      /\ spent' = spent => spent' \in [Bounded -> Nat]
  BY SpendType DEF Bounded, ControlType
<1>2. ASSUME store' = store, NEW how \in {"resolved", "rejected", "delayed", "crashed"}, EndRun(how),
             resultQ' = resultQ \/ resultQ' \in [status : {"none", "completed", "failed"},
                                                result : Seq(Observation) \cup {Undefined}],
             spent' = spent \/ Spend("faults") \/ Spend("crashes")
      PROVE  Stays
  <2>1. ControlType' /\ FramesInv' /\ mem' = store' /\ pc' = "idle"
    BY <1>1, <1>2, EndRunEffect
  <2>2. StatesInv' /\ Moves
    BY <1>2, <2>1, QuietKeeps
  <2>. QED
    BY <2>1, <2>2
<1>3. CASE FailProbe
  BY <1>2, <1>3 DEF FailProbe, durable
<1>4. CASE Park
  BY <1>2, <1>4 DEF Park, durable
<1>5. CASE Crash
  BY <1>2, <1>5 DEF Crash, durable
<1>6. CASE HandleFailure
  <2>1. Enqueue([status |-> "failed", result |-> Undefined])
          \in [status : {"none", "completed", "failed"},
               result : Seq(Observation) \cup {Undefined}]
    BY DEF Enqueue, ControlType
  <2>. QED
    BY <1>2, <1>6, <2>1 DEF HandleFailure
<1>7. CASE RetryStep \/ RetryWorkflow
  <2>1. <<>> \in Seq(Frame)
    OBVIOUS
  <2>2. /\ store' = store /\ mem' = mem /\ pc' = "attempt" /\ frames' = <<>>
    BY <1>7 DEF RetryStep, RetryWorkflow, durable
  <2>3. ControlType' /\ FramesInv'
    BY <1>7, <2>1, <2>2 DEF RetryStep, RetryWorkflow, ControlType, FramesInv, durable, PC
  <2>4. StatesInv' /\ Moves
    BY <2>2, QuietKeeps
  <2>. QED
    BY <2>3, <2>4
<1>8. CASE Fail
  <2>. DEFINE d == MarkFailed(mem, err)
  <2>1. resultQ' = resultQ /\ Safe(d)
    BY <1>8, SafeOps DEF Fail, ControlType
  <2>2. CASE FlushOk(d, FALSE) /\ pc' = "failed" /\ UNCHANGED <<context, failures, err, outcome>>
    <3>1. /\ mem' = d /\ store' \in {store, d} /\ spent' \in [Bounded -> Nat]
      BY <2>2, FlushEffect
    <3>2. StatesInv' /\ Moves
      BY <2>1, <3>1, WriteKeeps
    <3>3. ControlType' /\ FramesInv'
      BY <2>1, <2>2, <3>1 DEF ControlType, FramesInv, context, PC
    <3>. QED
      BY <3>2, <3>3
  <2>3. CASE Spend("faults") /\ store' \in {store, d} /\ EndRun("rejected")
    <3>1. ControlType' /\ FramesInv' /\ mem' = store' /\ pc' = "idle"
      BY <1>1, <2>1, <2>3, EndRunEffect
    <3>2. StatesInv' /\ Moves
      BY <2>1, <2>3, <3>1, WriteKeeps
    <3>. QED
      BY <3>1, <3>2
  <2>. QED
    BY <1>8, <2>2, <2>3 DEF Fail
<1>. QED
  BY <1>3, <1>4, <1>5, <1>6, <1>7, <1>8

-----------------------------------------------------------------------------
(* The inductive invariant *)

(* The state of a new job satisfies the invariant.                         *)
LEMMA InitInv == Init => IInv
<1>. SUFFICES ASSUME Init PROVE IInv
  OBVIOUS
<1>1. StateInv
  <2>1. \A k \in Key : InitialState.a[k] = 0 /\ 0 < Attempts[k]
    BY EngineAssumption DEF InitialState
  <2>. QED
    BY <2>1, InitialStateType, PreservesReflexive DEF Init, StateInv, WithinBudget
<1>2. ControlType
  <2>1. /\ resultQ \in [status : {"none", "completed", "failed"},
                       result : Seq(Observation) \cup {Undefined}]
        /\ spent \in [Bounded -> Nat]
    BY DEF Init, NoResultJob
  <2>2. <<>> \in Seq(Frame)
    OBVIOUS
  <2>. QED
    BY <2>1, <2>2 DEF Init, ControlType, PC
<1>. QED
  BY <1>1, <1>2 DEF IInv, FramesInv, Init

(* A step of the worker changes its copy in a safe way, whatever others    *)
(* have written to Redis.                                                  *)
LEMMA WorkerMoves ==
  ASSUME RunInv, Worker \/ Crash
  PROVE  RunInv' /\ Moves
<1>1. CASE BeginAttempt \/ ResumePublishing
  BY <1>1, AttemptStep DEF Stays
<1>2. CASE Calls
  BY <1>2, CallStep DEF Calls, Stays
<1>3. CASE Steps
  BY <1>3, BodyStep, WrapperStep DEF Steps, Stays
<1>4. CASE Returning
  BY <1>4, ReturnStep, PublishStep DEF Returning, Stays
<1>5. CASE Catching \/ Crash
  BY <1>5, CatchStep DEF Catching, Stays
<1>. QED
  BY <1>1, <1>2, <1>3, <1>4, <1>5 DEF Worker

LEMMA RunInvOfIInv == IInv => RunInv
  BY DEF IInv, RunInv, StateInv, StatesInv

(* Every step keeps the invariant and the decisions in Redis.              *)
LEMMA NextInv == IInv /\ [Next]_vars => IInv' /\ Preserves(store, store')
<1>. SUFFICES ASSUME IInv, [Next]_vars
              PROVE  IInv' /\ Preserves(store, store')
  OBVIOUS
<1>1. RunInv /\ StateInv /\ ControlType /\ FramesInv
  BY RunInvOfIInv DEF IInv
<1>2. Preserves(store, store)
  BY PreservesReflexive
<1>3. CASE Worker \/ Crash
  <2>1. RunInv' /\ Moves
    BY <1>1, <1>3, WorkerMoves
  <2>2. StateInv' /\ Preserves(store, store')
    BY <1>1, <2>1, MovesKeep DEF RunInv
  <2>. QED
    BY <2>1, <2>2 DEF RunInv, IInv
<1>4. CASE Run
  <2>1. RunInv' /\ store' = store /\ mem' \in {mem, store}
    BY <1>1, <1>4, RunStep
  <2>2. Preserves(store', mem')
    BY <1>1, <1>2, <2>1 DEF StateInv
  <2>. QED
    BY <1>2, <2>1, <2>2 DEF RunInv, StatesInv, IInv, StateInv
<1>5. CASE Cancel
  <2>1. store' = MarkCancelled(store) /\ mem' = store' /\ pc' = "idle"
    BY <1>5 DEF Cancel
  <2>2. store' \in State /\ WithinBudget(store') /\ Preserves(store, store')
    BY <1>1, <2>1, MarkCancelledKeeps DEF StateInv
  <2>3. WithinBudget(store)' /\ WithinBudget(mem)' /\ Preserves(store', mem')
    BY <2>1, <2>2, PreservesReflexive DEF WithinBudget
  <2>4. ControlType'
    BY <1>1, <1>5 DEF Cancel, ControlType, context
  <2>5. FramesInv'
    BY <2>1 DEF FramesInv
  <2>. QED
    BY <2>1, <2>2, <2>3, <2>4, <2>5 DEF IInv, StateInv
<1>6. CASE UNCHANGED vars
  BY <1>1, <1>2, <1>6 DEF vars, IInv, StateInv, ControlType, FramesInv, WithinBudget
<1>. QED
  BY <1>3, <1>4, <1>5, <1>6 DEF Next, Ended

(* The invariant holds of every reachable state.                           *)
THEOREM Invariant == Spec => []IInv
<1>1. Init => IInv
  BY InitInv
<1>2. IInv /\ [Next]_vars => IInv'
  BY NextInv
<1>. QED
  BY <1>1, <1>2, PTL DEF Spec

(* Every variable has its type in every reachable state: in particular,    *)
(* the stack of step frames is never popped beyond the frame of run().     *)
THEOREM TypeCorrect == Spec => []TypeOK
<1>1. IInv => TypeOK
  BY DEF IInv, StateInv, ControlType, TypeOK
<1>. QED
  BY <1>1, Invariant, PTL

(* The retry counts in Redis leave every step an attempt: whatever the     *)
(* crashes, failed writes and reruns, a step is given up only by its       *)
(* wrapper, never by a count that has run over its maximum.                *)
THEOREM RetryBudgetHolds == Spec => []RetryBudget
<1>1. IInv => RetryBudget
  BY DEF IInv, StateInv, WithinBudget, RetryBudget
<1>. QED
  BY <1>1, Invariant, PTL

(* A workflow that always calls the same step at the same place, as the    *)
(* determinism guard of the trace demands.  (Two steps at one place that   *)
(* share descendants can undo each other's results: see README.)           *)
OneStepPerPlace == \A j, k \in Key : j.path = k.path => j = k

(* The steps around a frame are the frames below it: where none of them    *)
(* has a result, no step around this one has.                              *)
LEMMA NothingDecidedAround ==
  ASSUME OneStepPerPlace, NEW fs \in Seq(Frame), Stack(fs), NEW i \in 2 .. Len(fs),
         NEW d, Fresh(d, fs, i - 1), NEW j \in Key, Cached(d, j)
  PROVE  ~Below(j.path, fs[i].key.path)
<1>. SUFFICES ASSUME Below(j.path, fs[i].key.path)
              PROVE  FALSE
  OBVIOUS
<1>1. Len(fs) \in Nat /\ i \in 1 .. Len(fs)
  BY FrameOfStack
<1>2. PICK k \in Key : k = fs[i].key /\ Len(k.path) = i - 1
  BY DEF Stack
<1>3. PICK n \in Nat : n = Len(j.path)
  BY PathOfKey
<1>4. j.path \in Seq(Nat) /\ k.path \in Seq(Nat) /\ j.path # <<>>
  BY <1>2, StoreAssumption DEF StepKeys
<1>5. n < i - 1 /\ \A m \in 1 .. n : j.path[m] = k.path[m]
  BY <1>2, <1>3, <1>4, BelowPointwise
<1>6. n # 0
  BY <1>3, <1>4, EmptySeq
<1>7. PICK x \in 2 .. Len(fs) : x \in 1 .. i - 1 /\ x \in 2 .. i - 1 /\ n = x - 1
  <2>1. n + 1 \in 2 .. Len(fs) /\ n + 1 \in 1 .. i - 1 /\ n + 1 \in 2 .. i - 1 /\ n = n + 1 - 1
    BY <1>1, <1>5, <1>6
  <2>. QED
    BY <2>1
<1>8. PICK q \in Key : q = fs[x].key /\ Len(q.path) = n /\ ~Cached(d, q)
  BY <1>7 DEF Stack, Fresh
<1>9. Below(q.path, k.path) /\ q.path \in Seq(Nat)
  <2>1. Below(fs[x].key.path, fs[i].key.path)
    BY <1>1, <1>7 DEF Stack
  <2>. QED
    BY <1>2, <1>8, <2>1, PathOfKey
<1>10. \A m \in 1 .. n : q.path[m] = k.path[m]
  <2>1. \A m \in 1 .. Len(q.path) : q.path[m] = k.path[m]
    BY <1>4, <1>9, BelowPointwise
  <2>. QED
    BY <1>8, <2>1
<1>11. q.path = j.path
  <2>1. \A m \in 1 .. n : q.path[m] = j.path[m]
    BY <1>5, <1>10
  <2>. QED
    BY <1>3, <1>4, <1>8, <1>9, <2>1, SeqEqual
<1>. QED
  BY <1>8, <1>11 DEF OneStepPerPlace

(* When the place of a step determines its name, the body of a step never  *)
(* runs while Redis holds its result.                                      *)
THEOREM StepsAreNotReexecuted ==
  ASSUME OneStepPerPlace
  PROVE  Spec => []NoReexecution
<1>1. IInv => NoReexecution
  <2>. SUFFICES ASSUME IInv, pc = "body", NEW i \in 2 .. Len(frames),
                       Cached(store, frames[i].key)
                PROVE  FALSE
    BY DEF NoReexecution
  <2>1. /\ Stack(frames) /\ frames \in Seq(Frame) /\ Fresh(mem, frames, Len(frames))
        /\ Preserves(store, mem) /\ Len(frames) \in Nat
    BY FrameOfStack DEF IInv, FramesInv, ControlType, StateInv
  <2>2. PICK k \in Key : k = frames[i].key /\ ~Cached(mem, k)
    BY <2>1 DEF Stack, Fresh
  <2>3. PICK j \in Key : Cached(mem, j) /\ Below(j.path, k.path)
    BY <2>1, <2>2 DEF Preserves, CachedKeys, Keeps, Superseded
  <2>4. Fresh(mem, frames, i - 1)
    <3>1. \A m \in 2 .. i - 1 : m \in 2 .. Len(frames)
      BY <2>1
    <3>. QED
      BY <2>1, <3>1 DEF Fresh
  <2>5. ~Below(j.path, frames[i].key.path)
    BY <2>1, <2>3, <2>4, NothingDecidedAround
  <2>. QED
    BY <2>2, <2>3, <2>5
<1>. QED
  BY <1>1, Invariant, PTL

(* A step result in Redis is lost only to the result of a step around it.  *)
THEOREM DecidedStepsStayDecided == Spec => DecidedStepsStay
<1>1. IInv /\ [Next]_vars => [Preserves(store, store')]_vars
  BY NextInv
<1>. QED
  BY <1>1, Invariant, PTL DEF Spec, DecidedStepsStay

-----------------------------------------------------------------------------
(* Replay *)

(* A frame that has another one on top of it is waiting for that call.     *)
Chain(fs) ==
  \A i \in 1 .. Len(fs) : \A j \in i + 1 .. Len(fs) : fs[j].key.path[i] = Len(fs[i].obs)

(* k, or something around k, is a call of frame i: the n-th one from 0.    *)
InCall(fs, i, n, k) ==
  /\ i <= Len(k.path)
  /\ \A m \in 1 .. i - 1 : k.path[m] = fs[i].key.path[m]
  /\ k.path[i] = n

(* State d has what the calls of the first n frames returned, other than   *)
(* the errors that their bodies caught.                                    *)
Kept(d, fs, n) ==
  \A i \in 1 .. n : \A m \in 1 .. Len(fs[i].obs) :
    \/ fs[i].obs[m] = Caught
    \/ \E k \in Key : Len(k.path) = i /\ InCall(fs, i, m - 1, k) /\ Keeps(d, k, fs[i].obs[m])

(* The first n frames have made the call k, or one around it: the body     *)
(* does not come to k again in this attempt.                               *)
Over(fs, n, k) ==
  \E i \in 1 .. n : \E m \in 0 .. Len(fs[i].obs) - 1 : InCall(fs, i, m, k)

(* k is called at p or below it.                                           *)
Under(p, k) == Len(p) <= Len(k.path) /\ \A m \in 1 .. Len(p) : k.path[m] = p[m]

(* The copy f has a result for k that Redis, d, does not have.             *)
Ahead(d, f, k) == Cached(f, k) /\ ~Keeps(d, k, StepResult(f, k))

(* While a body runs, memory is ahead of Redis only about calls that are   *)
(* over: a result whose write failed has reached the caller as an error,   *)
(* and no call to come finds it in the cache.                              *)
Replays(d, f, fs) ==
  /\ Kept(d, fs, Len(fs)) /\ Kept(f, fs, Len(fs))
  /\ \A k \in Key : Ahead(d, f, k) => Over(fs, Len(fs), k)

(* While an error is on its way up, memory may also be ahead about the     *)
(* step whose wrapper handles it, and what is below that step.             *)
Unwinds(d, f, fs) ==
  /\ Kept(d, fs, Len(fs) - 1) /\ Kept(f, fs, Len(fs) - 1)
  /\ \A k \in Key : Ahead(d, f, k) => Over(fs, Len(fs) - 1, k) \/ Under(Last(fs).key.path, k)

(* The strengthening of ObservedIsDurable that is inductive with IInv.     *)
ReplayInv ==
  /\ pc \in {"body", "catch"} => Chain(frames)
  /\ pc = "body" => Replays(store, mem, frames)
  /\ pc = "catch" => Unwinds(store, mem, frames)

IsCompact(d) ==
  \A k \in CachedKeys(d) : \A j \in Descendants(k) : d.a[j] = 0 /\ ~Cached(d, j)

(* Memory has to be compact as well: the next content of Redis comes from  *)
(* it.                                                                     *)
CompactInv == IsCompact(store) /\ IsCompact(mem)

-----------------------------------------------------------------------------
(* Frames and the places of their calls *)

(* The frames of a stack have paths of increasing length, each of which    *)
(* starts with those before it.                                            *)
LEMMA StackPaths ==
  ASSUME NEW fs \in Seq(Frame), Stack(fs)
  PROVE  /\ Len(fs) \in Nat /\ Len(fs) >= 1
         /\ \A i \in 1 .. Len(fs) :
              /\ fs[i].key.path \in Seq(Nat) /\ Len(fs[i].key.path) = i - 1
              /\ fs[i].obs \in Seq(Observation) /\ Len(fs[i].obs) \in Nat
         /\ \A i \in 1 .. Len(fs) : \A j \in i .. Len(fs) : \A m \in 1 .. i - 1 :
              fs[j].key.path[m] = fs[i].key.path[m]
<1>1. Len(fs) \in Nat /\ Len(fs) >= 1 /\ \A i \in 1 .. Len(fs) : fs[i] \in Frame
  BY FrameOfStack
<1>2. ASSUME NEW i \in 1 .. Len(fs)
      PROVE  /\ fs[i].key.path \in Seq(Nat) /\ Len(fs[i].key.path) = i - 1
             /\ fs[i].obs \in Seq(Observation) /\ Len(fs[i].obs) \in Nat
  <2>1. fs[i].key.path \in Seq(Nat)
    BY <1>1, PathOfFrame
  <2>2. fs[i].obs \in Seq(Observation)
    BY <1>1 DEF Frame
  <2>3. CASE i = 1
    <3>1. fs[i].key = Root
      BY <2>3 DEF Stack
    <3>2. Root.path = <<>> /\ Len(<<>>) = 0
      BY DEF Root
    <3>. QED
      BY <2>1, <2>2, <2>3, <3>1, <3>2
  <2>4. CASE i # 1
    <3>1. i \in 2 .. Len(fs)
      BY <1>1, <2>4
    <3>. QED
      BY <2>1, <2>2, <3>1 DEF Stack
  <2>. QED
    BY <2>3, <2>4
<1>3. ASSUME NEW i \in 1 .. Len(fs), NEW j \in i .. Len(fs), NEW m \in 1 .. i - 1
      PROVE  fs[j].key.path[m] = fs[i].key.path[m]
  <2>1. CASE j = i
    BY <2>1
  <2>2. CASE j # i
    <3>1. j \in 1 .. Len(fs) /\ i \in 1 .. j - 1
      BY <1>1, <2>2
    <3>2. Below(fs[i].key.path, fs[j].key.path)
      BY <3>1 DEF Stack
    <3>3. \A x \in 1 .. Len(fs[i].key.path) : fs[i].key.path[x] = fs[j].key.path[x]
      BY <1>2, <3>1, <3>2, BelowPointwise
    <3>. QED
      BY <1>2, <3>3
  <2>. QED
    BY <2>1, <2>2
<1>. QED
  BY <1>1, <1>2, <1>3

(* The key of a call has the path of the caller with the call's number.    *)
LEMMA CallPath ==
  ASSUME NEW fs \in Seq(Frame), Stack(fs), NEW i \in 1 .. Len(fs), NEW n \in Nat,
         NEW k \in Key
  PROVE  k.path = Append(fs[i].key.path, n) <=> Len(k.path) = i /\ InCall(fs, i, n, k)
<1>. DEFINE p == fs[i].key.path
            q == Append(p, n)
<1>1. p \in Seq(Nat) /\ Len(p) = i - 1 /\ i \in Nat /\ i >= 1
  BY StackPaths
<1>2. k.path \in Seq(Nat) /\ Len(k.path) \in Nat
  BY PathOfKey
<1>. HIDE DEF p
<1>3. /\ q \in Seq(Nat) /\ Len(q) = i /\ q[i] = n
      /\ \A m \in 1 .. i - 1 : q[m] = p[m]
  BY <1>1, AppendProperties
<1>. HIDE DEF q
<1>4. ASSUME k.path = q
      PROVE  Len(k.path) = i /\ InCall(fs, i, n, k)
  BY <1>1, <1>3, <1>4 DEF InCall, p
<1>5. ASSUME Len(k.path) = i, InCall(fs, i, n, k)
      PROVE  k.path = q
  <2>1. ASSUME NEW m \in 1 .. i
        PROVE  k.path[m] = q[m]
    <3>1. m = i \/ m \in 1 .. i - 1
      BY <1>1
    <3>. QED
      BY <1>3, <1>5, <3>1 DEF InCall, p
  <2>. QED
    BY <1>2, <1>3, <1>5, <2>1, SeqEqual
<1>. QED
  BY <1>4, <1>5 DEF p, q

(* What an observation changes.                                            *)
LEMMA ObservedFrames ==
  ASSUME NEW fs \in Seq(Frame), Stack(fs), NEW v \in Observation
  PROVE  LET g == Observed(fs, v) IN
         /\ g \in Seq(Frame) /\ Stack(g) /\ Len(g) = Len(fs)
         /\ \A i \in 1 .. Len(fs) : g[i].key = fs[i].key
         /\ \A i \in 1 .. Len(fs) - 1 : g[i] = fs[i]
         /\ g[Len(fs)].obs = Append(fs[Len(fs)].obs, v)
         /\ Last(g).key = Last(fs).key
<1>. DEFINE n == Len(fs)
            f == [fs[n] EXCEPT !.obs = Append(fs[n].obs, v)]
            g == Observed(fs, v)
<1>1. n \in Nat /\ n >= 1 /\ fs[n] \in Frame /\ Last(fs) = fs[n]
  BY FrameOfStack
<1>2. f.obs = Append(fs[n].obs, v)
  BY <1>1 DEF Frame
<1>3. g = [fs EXCEPT ![n] = f]
  BY DEF Observed
<1>. HIDE DEF f
<1>4. g[n] = f /\ \A i \in 1 .. n - 1 : g[i] = fs[i]
  BY <1>1, <1>3
<1>5. /\ g \in Seq(Frame) /\ Stack(g) /\ Len(g) = n
      /\ \A i \in 1 .. n : g[i].key = fs[i].key
  BY ObservedStack
<1>6. Last(g) = g[n]
  BY <1>5, FrameOfStack
<1>. QED
  BY <1>1, <1>2, <1>4, <1>5, <1>6

(* What frames have over stays over as they go on.                         *)
LEMMA OverGrows ==
  ASSUME NEW fs, NEW g, NEW n \in Nat, NEW k, Over(fs, n, k),
         \A i \in 1 .. n : /\ g[i].key = fs[i].key
                          /\ Len(fs[i].obs) \in Nat /\ Len(g[i].obs) \in Nat
                          /\ Len(fs[i].obs) <= Len(g[i].obs)
  PROVE  Over(g, n, k)
<1>1. PICK i \in 1 .. n : \E m \in 0 .. Len(fs[i].obs) - 1 : InCall(fs, i, m, k)
  BY DEF Over
<1>2. PICK m \in 0 .. Len(fs[i].obs) - 1 : InCall(fs, i, m, k)
  BY <1>1
<1>3. InCall(g, i, m, k)
  <2>1. \A j \in 1 .. i - 1 : j \in 1 .. n
    OBVIOUS
  <2>2. \A j \in 1 .. i - 1 : g[j].key = fs[j].key
    BY <2>1
  <2>. QED
    BY <1>2, <2>2 DEF InCall
<1>4. m \in 0 .. Len(g[i].obs) - 1
  <2>1. Len(fs[i].obs) \in Nat /\ Len(g[i].obs) \in Nat /\ Len(fs[i].obs) <= Len(g[i].obs)
    OBVIOUS
  <2>. QED
    BY <1>2, <2>1
<1>. QED
  BY <1>3, <1>4 DEF Over

(* What is over at the innermost of some frames is under its key.          *)
LEMMA OverTop ==
  ASSUME NEW fs \in Seq(Frame), Stack(fs), NEW n \in 1 .. Len(fs), NEW k \in Key,
         Over(fs, n, k)
  PROVE  Over(fs, n - 1, k) \/ Under(fs[n].key.path, k)
<1>1. Len(fs) \in Nat /\ Len(fs[n].key.path) = n - 1 /\ Len(k.path) \in Nat
  BY StackPaths, PathOfKey
<1>2. PICK i \in 1 .. n : \E m \in 0 .. Len(fs[i].obs) - 1 : InCall(fs, i, m, k)
  BY DEF Over
<1>3. CASE i = n
  BY <1>1, <1>2, <1>3 DEF InCall, Under
<1>4. CASE i # n
  <2>1. i \in 1 .. n - 1
    BY <1>1, <1>4
  <2>. QED
    BY <1>2, <2>1 DEF Over
<1>. QED
  BY <1>3, <1>4

(* The key of a frame is the call its caller waits for.                    *)
LEMMA TopIsCall ==
  ASSUME NEW fs \in Seq(Frame), Stack(fs), Chain(fs), Len(fs) >= 2
  PROVE  LET n == Len(fs) - 1 IN
         /\ n \in 1 .. Len(fs) /\ n \in Nat /\ Last(fs) = fs[n + 1]
         /\ Last(fs).key.path = Append(fs[n].key.path, Len(fs[n].obs))
         /\ \A k \in Key : Under(Last(fs).key.path, k) =>
              InCall(fs, n, Len(fs[n].obs), k) /\ Under(fs[n].key.path, k)
<1>. DEFINE n == Len(fs) - 1
            p == Last(fs).key.path
            o == Len(fs[n].obs)
<1>1. Len(fs) \in Nat /\ Last(fs) = fs[Len(fs)] /\ Last(fs).key \in Key
  BY FrameOfStack
<1>2. /\ n \in 1 .. Len(fs) /\ n \in Nat /\ n + 1 \in 1 .. Len(fs)
      /\ n + 1 \in n + 1 .. Len(fs) /\ n + 1 \in n .. Len(fs)
  BY <1>1
<1>3. n + 1 = Len(fs) /\ p = fs[n + 1].key.path /\ o = Len(fs[n].obs)
  BY <1>1
<1>. HIDE DEF n, p, o
<1>4. /\ p \in Seq(Nat) /\ Len(p) = n /\ o \in Nat
      /\ fs[n].key.path \in Seq(Nat) /\ Len(fs[n].key.path) = n - 1
      /\ \A m \in 1 .. n - 1 : p[m] = fs[n].key.path[m]
  <2>1. /\ p \in Seq(Nat) /\ Len(p) = n + 1 - 1 /\ o \in Nat
        /\ fs[n].key.path \in Seq(Nat) /\ Len(fs[n].key.path) = n - 1
    BY <1>2, <1>3, StackPaths
  <2>2. \A m \in 1 .. n - 1 : p[m] = fs[n].key.path[m]
    BY <1>2, <1>3, StackPaths
  <2>3. n + 1 - 1 = n
    BY <1>2
  <2>. QED
    BY <2>1, <2>2, <2>3
<1>5. p[n] = o
  BY <1>2, <1>3 DEF Chain
<1>6. InCall(fs, n, o, Last(fs).key) /\ Len(Last(fs).key.path) = n
  BY <1>2, <1>4, <1>5 DEF InCall, p
<1>7. p = Append(fs[n].key.path, o)
  <2>1. PICK q \in Key : q = Last(fs).key
    BY <1>1
  <2>2. n \in 1 .. Len(fs) /\ o \in Nat /\ Len(q.path) = n /\ InCall(fs, n, o, q)
    BY <1>2, <1>4, <1>6, <2>1
  <2>3. q.path = Append(fs[n].key.path, o)
    BY <2>2, CallPath
  <2>. QED
    BY <2>1, <2>3 DEF p
<1>8. ASSUME NEW k \in Key, Under(p, k)
      PROVE  InCall(fs, n, o, k) /\ Under(fs[n].key.path, k)
  <2>0. Len(k.path) \in Nat
    BY PathOfKey
  <2>1. n <= Len(k.path) /\ \A m \in 1 .. n : k.path[m] = p[m]
    <3>1. Len(p) <= Len(k.path) /\ \A m \in 1 .. Len(p) : k.path[m] = p[m]
      BY <1>8 DEF Under
    <3>. QED
      BY <1>4, <3>1
  <2>2. n \in 1 .. n /\ \A m \in 1 .. n - 1 : m \in 1 .. n
    BY <1>2
  <2>3. k.path[n] = o
    BY <1>5, <2>1, <2>2
  <2>4. \A m \in 1 .. n - 1 : k.path[m] = fs[n].key.path[m]
    BY <1>4, <2>1, <2>2
  <2>5. n - 1 <= Len(k.path)
    BY <1>2, <2>0, <2>1
  <2>. QED
    BY <1>4, <2>1, <2>3, <2>4, <2>5 DEF InCall, Under
<1>. QED
  BY <1>1, <1>2, <1>3, <1>7, <1>8 DEF n, p, o

(* An observation that is kept, or caught, leaves all observations kept.   *)
LEMMA ObserveKept ==
  ASSUME NEW fs \in Seq(Frame), Stack(fs), NEW d, Kept(d, fs, Len(fs)), NEW v \in Observation,
         \/ v = Caught
         \/ \E k \in Key : /\ k.path = Append(Last(fs).key.path, Len(Last(fs).obs))
                          /\ Keeps(d, k, v)
  PROVE  Kept(d, Observed(fs, v), Len(fs))
<1>. DEFINE n == Len(fs)
            g == Observed(fs, v)
            o == fs[n].obs
<1>1. /\ n \in Nat /\ n >= 1 /\ Last(fs) = fs[n]
      /\ \A i \in 1 .. n - 1 : g[i] = fs[i]
      /\ g[n].key = fs[n].key /\ g[n].obs = Append(o, v)
      /\ \A i \in 1 .. n : g[i].key = fs[i].key
  BY FrameOfStack, ObservedFrames
<1>2. o \in Seq(Observation) /\ Len(o) \in Nat /\ n \in 1 .. n
  BY <1>1, StackPaths
<1>3. /\ Len(g[n].obs) = Len(o) + 1 /\ g[n].obs[Len(o) + 1] = v
      /\ \A m \in 1 .. Len(o) : g[n].obs[m] = o[m]
  BY <1>1, <1>2, AppendProperties
<1>. HIDE DEF g
<1>4. ASSUME NEW i \in 1 .. n, NEW m \in 1 .. Len(g[i].obs), g[i].obs[m] # Caught
      PROVE  \E k \in Key : Len(k.path) = i /\ InCall(g, i, m - 1, k) /\ Keeps(d, k, g[i].obs[m])
  <2>1. CASE m \in 1 .. Len(fs[i].obs) /\ g[i].obs[m] = fs[i].obs[m]
    <3>1. PICK k \in Key : Len(k.path) = i /\ InCall(fs, i, m - 1, k) /\ Keeps(d, k, fs[i].obs[m])
      BY <1>4, <2>1 DEF Kept
    <3>2. InCall(g, i, m - 1, k)
      BY <1>1, <3>1 DEF InCall
    <3>. QED
      BY <2>1, <3>1, <3>2
  <2>2. CASE i = n /\ m = Len(o) + 1
    <3>1. PICK k \in Key : k.path = Append(fs[n].key.path, Len(o)) /\ Keeps(d, k, v)
      BY <1>1, <1>3, <1>4, <2>2
    <3>2. Len(k.path) = n /\ InCall(fs, n, Len(o), k)
      BY <1>2, <3>1, CallPath
    <3>3. InCall(g, n, Len(o), k)
      BY <1>1, <3>2 DEF InCall
    <3>4. m - 1 = Len(o) /\ g[i].obs[m] = v
      BY <1>2, <1>3, <2>2
    <3>. QED
      BY <2>2, <3>1, <3>2, <3>3, <3>4
  <2>3. CASE i # n
    <3>1. i \in 1 .. n - 1
      BY <1>1, <2>3
    <3>. QED
      BY <1>1, <2>1, <3>1
  <2>4. CASE i = n /\ m # Len(o) + 1
    <3>1. m \in 1 .. Len(o)
      BY <1>2, <1>3, <2>4
    <3>. QED
      BY <1>3, <2>1, <2>4, <3>1
  <2>. QED
    BY <2>2, <2>3, <2>4
<1>. QED
  BY <1>4 DEF Kept, g

(* What is kept of the calls of some frames is kept when they have others  *)
(* on top.                                                                 *)
LEMMA KeptSame ==
  ASSUME NEW fs, NEW g, NEW d, NEW n, Kept(d, fs, n),
         \A i \in 1 .. n : g[i].key = fs[i].key /\ g[i].obs = fs[i].obs
  PROVE  Kept(d, g, n)
<1>1. ASSUME NEW i \in 1 .. n, NEW m \in 1 .. Len(g[i].obs), g[i].obs[m] # Caught
      PROVE  \E k \in Key : Len(k.path) = i /\ InCall(g, i, m - 1, k) /\ Keeps(d, k, g[i].obs[m])
  <2>1. g[i].key = fs[i].key /\ g[i].obs = fs[i].obs
    OBVIOUS
  <2>2. m \in 1 .. Len(fs[i].obs) /\ fs[i].obs[m] = g[i].obs[m]
    BY <2>1
  <2>3. PICK k \in Key : Len(k.path) = i /\ InCall(fs, i, m - 1, k) /\ Keeps(d, k, fs[i].obs[m])
    BY <1>1, <2>2 DEF Kept
  <2>4. InCall(g, i, m - 1, k)
    BY <2>1, <2>3 DEF InCall
  <2>. QED
    BY <2>2, <2>3, <2>4
<1>. QED
  BY <1>1 DEF Kept

(* The chain of calls stays one when its end observes something, when a    *)
(* call is put on top of it, and when its end is taken away.               *)
LEMMA ChainOps ==
  ASSUME NEW fs \in Seq(Frame), Stack(fs), Chain(fs)
  PROVE  /\ \A v \in Observation : Chain(Observed(fs, v))
         /\ \A k \in Callable(Last(fs)) : Chain(Append(fs, [key |-> k, obs |-> <<>>]))
         /\ Len(fs) >= 2 => Chain(Front(fs))
<1>1. Len(fs) \in Nat /\ Len(fs) >= 1 /\ Last(fs) = fs[Len(fs)]
  BY FrameOfStack
<1>2. ASSUME NEW v \in Observation
      PROVE  Chain(Observed(fs, v))
  <2>. DEFINE g == Observed(fs, v)
  <2>1. /\ Len(g) = Len(fs)
        /\ \A i \in 1 .. Len(fs) : g[i].key = fs[i].key
        /\ \A i \in 1 .. Len(fs) - 1 : g[i] = fs[i]
    BY ObservedFrames
  <2>. HIDE DEF g
  <2>2. ASSUME NEW i \in 1 .. Len(g), NEW j \in i + 1 .. Len(g)
        PROVE  g[j].key.path[i] = Len(g[i].obs)
    <3>1. i \in 1 .. Len(fs) - 1 /\ j \in 1 .. Len(fs) /\ j \in i + 1 .. Len(fs)
      BY <1>1, <2>1
    <3>2. fs[j].key.path[i] = Len(fs[i].obs)
      BY <3>1 DEF Chain
    <3>. QED
      BY <2>1, <3>1, <3>2
  <2>. QED
    BY <2>2 DEF Chain, g
<1>3. ASSUME NEW k \in Callable(Last(fs))
      PROVE  Chain(Append(fs, [key |-> k, obs |-> <<>>]))
  <2>. DEFINE g == Append(fs, [key |-> k, obs |-> <<>>])
              n == Len(fs)
  <2>1. /\ Len(g) = n + 1 /\ g[n + 1].key = k /\ \A i \in 1 .. n : g[i] = fs[i]
    BY PushStack
  <2>2. k \in Key /\ Len(k.path) = n /\ InCall(fs, n, Len(fs[n].obs), k)
    <3>1. k \in Key /\ k.path = Append(fs[n].key.path, Len(fs[n].obs))
      BY <1>1 DEF Callable
    <3>2. n \in 1 .. n /\ Len(fs[n].obs) \in Nat
      BY <1>1, StackPaths
    <3>. QED
      BY <3>1, <3>2, CallPath
  <2>. HIDE DEF g
  <2>3. ASSUME NEW i \in 1 .. n
        PROVE  k.path[i] = Len(fs[i].obs)
    <3>1. CASE i = n
      BY <2>2, <3>1 DEF InCall
    <3>2. CASE i # n
      <4>1. i \in 1 .. n - 1 /\ n \in i + 1 .. n
        BY <1>1, <3>2
      <4>. QED
        BY <2>2, <4>1 DEF InCall, Chain
    <3>. QED
      BY <3>1, <3>2
  <2>4. ASSUME NEW i \in 1 .. n + 1, NEW j \in i + 1 .. n + 1
        PROVE  g[j].key.path[i] = Len(g[i].obs)
    <3>1. i \in 1 .. n /\ g[i] = fs[i]
      BY <1>1, <2>1
    <3>2. CASE j = n + 1
      BY <2>1, <2>3, <3>1, <3>2
    <3>3. CASE j # n + 1
      <4>1. j \in i + 1 .. n /\ j \in 1 .. n
        BY <1>1, <3>3
      <4>. QED
        BY <2>1, <3>1, <4>1 DEF Chain
    <3>. QED
      BY <3>2, <3>3
  <2>. QED
    BY <2>1, <2>4 DEF Chain, g
<1>4. ASSUME Len(fs) >= 2
      PROVE  Chain(Front(fs))
  <2>1. /\ Len(Front(fs)) = Len(fs) - 1
        /\ \A i \in 1 .. Len(fs) - 1 : Front(fs)[i] = fs[i]
    BY <1>4, FrontStack
  <2>2. ASSUME NEW i \in 1 .. Len(fs) - 1, NEW j \in i + 1 .. Len(fs) - 1
        PROVE  Front(fs)[j].key.path[i] = Len(Front(fs)[i].obs)
    <3>1. i \in 1 .. Len(fs) /\ j \in 1 .. Len(fs) - 1 /\ j \in i + 1 .. Len(fs)
      BY <1>1
    <3>. QED
      BY <2>1, <3>1 DEF Chain
  <2>. QED
    BY <2>1, <2>2 DEF Chain
<1>. QED
  BY <1>2, <1>3, <1>4

(* The body on top observes a value that is kept, or the error of a call.  *)
LEMMA ReplaysObserved ==
  ASSUME NEW fs \in Seq(Frame), Stack(fs), NEW d, NEW f, Replays(d, f, fs),
         NEW v \in Observation,
         \/ v = Caught
         \/ \E k \in Key : /\ k.path = Append(Last(fs).key.path, Len(Last(fs).obs))
                          /\ Keeps(d, k, v) /\ Keeps(f, k, v)
  PROVE  Replays(d, f, Observed(fs, v))
<1>. DEFINE g == Observed(fs, v)
            n == Len(fs)
<1>1. /\ n \in Nat /\ n >= 1 /\ Len(g) = n /\ g \in Seq(Frame) /\ Stack(g)
      /\ \A i \in 1 .. n : g[i].key = fs[i].key
      /\ \A i \in 1 .. n - 1 : g[i] = fs[i]
      /\ g[n].obs = Append(fs[n].obs, v)
  BY ObservedFrames, FrameOfStack
<1>2. Kept(d, g, n) /\ Kept(f, g, n)
  BY ObserveKept DEF Replays
<1>3. \A i \in 1 .. n : fs[i].obs \in Seq(Observation) /\ Len(fs[i].obs) \in Nat
  BY StackPaths
<1>. HIDE DEF g
<1>4. ASSUME NEW i \in 1 .. n
      PROVE  Len(g[i].obs) \in Nat /\ Len(fs[i].obs) <= Len(g[i].obs)
  <2>1. CASE i = n
    <3>1. Len(g[i].obs) = Len(fs[i].obs) + 1
      BY <1>1, <1>3, <2>1, AppendProperties
    <3>. QED
      BY <1>3, <3>1
  <2>2. CASE i # n
    <3>1. g[i] = fs[i]
      BY <1>1, <2>2
    <3>. QED
      BY <1>3, <3>1
  <2>. QED
    BY <2>1, <2>2
<1>5. \A k \in Key : Over(fs, n, k) => Over(g, n, k)
  BY <1>1, <1>3, <1>4, OverGrows
<1>. QED
  BY <1>1, <1>2, <1>5 DEF Replays, g

(* A new call has observed nothing yet.                                    *)
LEMMA ReplaysPush ==
  ASSUME NEW fs \in Seq(Frame), Stack(fs), NEW d, NEW f, Replays(d, f, fs),
         NEW k \in Callable(Last(fs))
  PROVE  Replays(d, f, Append(fs, [key |-> k, obs |-> <<>>]))
<1>. DEFINE g == Append(fs, [key |-> k, obs |-> <<>>])
            n == Len(fs)
<1>1. /\ n \in Nat /\ n >= 1 /\ Len(g) = n + 1 /\ g[n + 1] = [key |-> k, obs |-> <<>>]
      /\ \A i \in 1 .. n : g[i] = fs[i]
  <2>1. [key |-> k, obs |-> <<>>] \in Frame
    BY DEF Frame, Body, Callable
  <2>. QED
    BY <2>1, FrameOfStack, AppendProperties
<1>2. Len(g[n + 1].obs) = 0
  BY <1>1
<1>. HIDE DEF g
<1>3. ASSUME NEW x \in {d, f}
      PROVE  Kept(x, g, n + 1)
  <2>1. Kept(x, g, n)
    BY <1>1, KeptSame DEF Replays
  <2>2. \A i \in 1 .. n + 1 : i \in 1 .. n \/ i = n + 1
    BY <1>1
  <2>3. \A m \in 1 .. Len(g[n + 1].obs) : FALSE
    BY <1>2
  <2>. QED
    BY <2>1, <2>2, <2>3 DEF Kept
<1>4. \A j \in Key : Over(fs, n, j) => Over(g, n + 1, j)
  <2>1. \A i \in 1 .. n : i \in 1 .. n + 1
    BY <1>1
  <2>. QED
    BY <1>1, <2>1 DEF Over, InCall
<1>. QED
  BY <1>1, <1>3, <1>4 DEF Replays, g

(* A body that throws leaves what was over to its caller.                  *)
LEMMA ReplaysUnwinds ==
  ASSUME NEW fs \in Seq(Frame), Stack(fs), NEW d, NEW f, Replays(d, f, fs)
  PROVE  Unwinds(d, f, fs)
<1>1. Len(fs) \in Nat /\ Len(fs) \in 1 .. Len(fs) /\ Last(fs) = fs[Len(fs)]
  BY FrameOfStack
<1>2. \A i \in 1 .. Len(fs) - 1 : i \in 1 .. Len(fs)
  BY <1>1
<1>3. Kept(d, fs, Len(fs) - 1) /\ Kept(f, fs, Len(fs) - 1)
  BY <1>2 DEF Replays, Kept
<1>4. \A k \in Key : Over(fs, Len(fs), k) => Over(fs, Len(fs) - 1, k) \/ Under(Last(fs).key.path, k)
  BY <1>1, OverTop
<1>. QED
  BY <1>3, <1>4 DEF Replays, Unwinds

(* The frames of the callers, when the top frame is gone.                  *)
LEMMA FrontKept ==
  ASSUME NEW fs \in Seq(Frame), Stack(fs), Len(fs) >= 2
  PROVE  LET n == Len(fs) - 1
             h == Front(fs)
         IN  /\ n \in Nat /\ n >= 1 /\ Len(h) = n /\ h \in Seq(Frame) /\ Stack(h)
             /\ \A i \in 1 .. n : h[i] = fs[i]
             /\ Last(h) = fs[n]
             /\ \A d : Kept(d, fs, n) => Kept(d, h, n)
             /\ \A k \in Key : Over(fs, n, k) => Over(h, n, k)
<1>. DEFINE n == Len(fs) - 1
            h == Front(fs)
<1>1. Len(fs) \in Nat
  BY FrameOfStack
<1>2. n \in Nat /\ n >= 1 /\ Len(h) = n /\ h \in Seq(Frame) /\ Stack(h) /\ \A i \in 1 .. n : h[i] = fs[i]
  BY <1>1, FrontStack
<1>3. Last(h) = h[n] /\ h[n] = fs[n]
  <2>1. n \in 1 .. n
    BY <1>2
  <2>2. Last(h) = h[Len(h)]
    BY <1>2, FrameOfStack
  <2>. QED
    BY <1>2, <2>1, <2>2
<1>. HIDE DEF n, h
<1>4. ASSUME NEW d, Kept(d, fs, n)
      PROVE  Kept(d, h, n)
  BY <1>2, <1>4, KeptSame
<1>5. ASSUME NEW k \in Key, Over(fs, n, k)
      PROVE  Over(h, n, k)
  <2>1. PICK i \in 1 .. n : \E m \in 0 .. Len(fs[i].obs) - 1 : InCall(fs, i, m, k)
    BY <1>5 DEF Over
  <2>2. \A m \in 1 .. i - 1 : m \in 1 .. n
    BY <1>2
  <2>3. h[i] = fs[i] /\ \A m \in 1 .. i - 1 : h[m] = fs[m]
    BY <1>2, <2>2
  <2>4. \A m : InCall(fs, i, m, k) => InCall(h, i, m, k)
    BY <2>3 DEF InCall
  <2>. QED
    BY <2>1, <2>3, <2>4 DEF Over
<1>. QED
  BY <1>2, <1>3, <1>4, <1>5 DEF n, h

(* The caller of the top frame goes on: with the result of the call when   *)
(* that is kept, or with its error.                                        *)
LEMMA ReturnReplays ==
  ASSUME NEW fs \in Seq(Frame), Stack(fs), Chain(fs), Len(fs) >= 2,
         NEW d, NEW f, Unwinds(d, f, fs), NEW v \in Observation,
         v = Caught \/ (Keeps(d, Last(fs).key, v) /\ Keeps(f, Last(fs).key, v))
  PROVE  Replays(d, f, Observed(Front(fs), v))
<1>. DEFINE n == Len(fs) - 1
            h == Front(fs)
            g == Observed(h, v)
<1>1. /\ n \in Nat /\ n >= 1 /\ n \in 1 .. n /\ Len(h) = n /\ h \in Seq(Frame) /\ Stack(h)
      /\ \A i \in 1 .. n : h[i] = fs[i]
      /\ Last(h) = fs[n] /\ h[n] = fs[n]
  BY FrontKept
<1>2. Kept(d, h, n) /\ Kept(f, h, n)
  BY FrontKept DEF Unwinds
<1>3. /\ Last(fs).key \in Key
      /\ Last(fs).key.path = Append(Last(h).key.path, Len(Last(h).obs))
  BY <1>1, FrameOfStack, TopIsCall
<1>4. Kept(d, g, n) /\ Kept(f, g, n)
  <2>1. ASSUME NEW x \in {d, f}
        PROVE  \/ v = Caught
               \/ \E k \in Key : /\ k.path = Append(Last(h).key.path, Len(Last(h).obs))
                                /\ Keeps(x, k, v)
    BY <1>3
  <2>. HIDE DEF h, n
  <2>2. Kept(d, Observed(h, v), Len(h)) /\ Kept(f, Observed(h, v), Len(h))
    BY <1>1, <1>2, <2>1, ObserveKept
  <2>. QED
    BY <1>1, <2>2
<1>5. /\ Len(g) = n
      /\ \A i \in 1 .. n : g[i].key = h[i].key
      /\ \A i \in 1 .. n - 1 : g[i] = h[i]
      /\ g[n].obs = Append(h[n].obs, v)
  BY <1>1, ObservedFrames
<1>6. \A i \in 1 .. n : h[i].obs \in Seq(Observation) /\ Len(h[i].obs) \in Nat
  BY <1>1, StackPaths
<1>7. Len(g[n].obs) = Len(h[n].obs) + 1
  BY <1>1, <1>5, <1>6, AppendProperties
<1>8. ASSUME NEW k \in Key, Over(fs, n, k)
      PROVE  Over(g, n, k)
  <2>1. Over(h, n, k)
    BY <1>8, FrontKept
  <2>. HIDE DEF h, g, n
  <2>2. ASSUME NEW i \in 1 .. n
        PROVE  /\ g[i].key = h[i].key
               /\ Len(h[i].obs) \in Nat /\ Len(g[i].obs) \in Nat
               /\ Len(h[i].obs) <= Len(g[i].obs)
    <3>1. CASE i = n
      BY <1>5, <1>6, <1>7, <3>1
    <3>2. CASE i # n
      BY <1>1, <1>5, <1>6, <3>2
    <3>. QED
      BY <3>1, <3>2
  <2>. QED
    BY <1>1, <2>1, <2>2, OverGrows
<1>9. ASSUME NEW k \in Key, Under(Last(fs).key.path, k)
      PROVE  Over(g, n, k)
  <2>1. InCall(fs, n, Len(fs[n].obs), k)
    BY <1>9, TopIsCall
  <2>2. g[n].key = fs[n].key /\ Len(fs[n].obs) \in 0 .. Len(g[n].obs) - 1
    <3>1. h[n] = fs[n] /\ Len(h[n].obs) \in Nat /\ g[n].key = h[n].key
      BY <1>1, <1>5, <1>6
    <3>. HIDE DEF h, g, n
    <3>. QED
      BY <1>7, <3>1
  <2>. HIDE DEF h, g, n
  <2>3. InCall(g, n, Len(fs[n].obs), k)
    BY <2>1, <2>2 DEF InCall
  <2>. QED
    BY <1>1, <2>2, <2>3 DEF Over
<1>10. \A k \in Key : Ahead(d, f, k) => Over(fs, n, k) \/ Under(Last(fs).key.path, k)
  BY DEF Unwinds
<1>. QED
  BY <1>4, <1>5, <1>8, <1>9, <1>10 DEF Replays

(* The error goes on to the wrapper around the caller.                     *)
LEMMA UnwindsFront ==
  ASSUME NEW fs \in Seq(Frame), Stack(fs), Chain(fs), Len(fs) >= 2,
         NEW d, NEW f, Unwinds(d, f, fs)
  PROVE  Unwinds(d, f, Front(fs))
<1>. DEFINE n == Len(fs) - 1
            h == Front(fs)
<1>1. /\ n \in Nat /\ n >= 1 /\ n \in 1 .. n /\ Len(h) = n /\ h \in Seq(Frame) /\ Stack(h)
      /\ \A i \in 1 .. n : h[i] = fs[i]
      /\ Last(h) = fs[n] /\ h[n] = fs[n]
  BY FrontKept
<1>2. Kept(d, h, n) /\ Kept(f, h, n)
  BY FrontKept DEF Unwinds
<1>3. \A k \in Key : Over(fs, n, k) => Over(h, n, k)
  BY FrontKept
<1>4. \A k \in Key : Under(Last(fs).key.path, k) => Under(Last(h).key.path, k)
  BY <1>1, TopIsCall
<1>5. \A k \in Key : Ahead(d, f, k) => Over(fs, n, k) \/ Under(Last(fs).key.path, k)
  BY DEF Unwinds
<1>. HIDE DEF n, h
<1>6. ASSUME NEW k \in Key, Over(h, n, k)
      PROVE  Over(h, n - 1, k) \/ Under(Last(h).key.path, k)
  BY <1>1, <1>6, OverTop
<1>7. \A i \in 1 .. n - 1 : i \in 1 .. n
  BY <1>1
<1>8. Kept(d, h, n - 1) /\ Kept(f, h, n - 1)
  BY <1>2, <1>7 DEF Kept
<1>9. Unwinds(d, f, h)
  BY <1>1, <1>3, <1>4, <1>5, <1>6, <1>8 DEF Unwinds
<1>. QED
  BY <1>9 DEF h

(* A write that leaves the step cache in memory alone, whatever becomes of *)
(* it.                                                                     *)
LEMMA SameCacheReplays ==
  ASSUME NEW d, NEW f, NEW d2, NEW f2, f2.c = f.c, f2.u = f.u, d2 = d \/ d2 = f2, NEW fs
  PROVE  /\ Replays(d, f, fs) => Replays(d2, f2, fs)
         /\ Unwinds(d, f, fs) => Unwinds(d2, f2, fs)
<1>1. \A k, v : Keeps(f2, k, v) <=> Keeps(f, k, v)
  BY DEF Keeps, Cached, StepResult
<1>2. \A k : Ahead(d2, f2, k) => Ahead(d, f, k)
  BY DEF Ahead, Keeps, Cached, StepResult
<1>3. \A n : Kept(f, fs, n) => Kept(f2, fs, n)
  BY <1>1 DEF Kept
<1>. QED
  BY <1>2, <1>3 DEF Replays, Unwinds

(* The place of the next call is not over.                                 *)
LEMMA NextIsNotOver ==
  ASSUME NEW fs \in Seq(Frame), Stack(fs), Chain(fs), NEW k \in Callable(Last(fs))
  PROVE  ~Over(fs, Len(fs), k)
<1>. DEFINE n == Len(fs)
<1>1. n \in Nat /\ n >= 1 /\ Last(fs) = fs[n]
  BY FrameOfStack
<1>2. k \in Key /\ Len(k.path) = n /\ InCall(fs, n, Len(fs[n].obs), k)
  <2>1. k \in Key /\ k.path = Append(fs[n].key.path, Len(fs[n].obs))
    BY <1>1 DEF Callable
  <2>2. n \in 1 .. n /\ Len(fs[n].obs) \in Nat
    BY <1>1, StackPaths
  <2>. QED
    BY <2>1, <2>2, CallPath
<1>3. ASSUME NEW i \in 1 .. n, NEW m \in 0 .. Len(fs[i].obs) - 1, InCall(fs, i, m, k)
      PROVE  FALSE
  <2>1. k.path[i] = Len(fs[i].obs)
    <3>1. CASE i = n
      BY <1>2, <3>1 DEF InCall
    <3>2. CASE i # n
      <4>1. i \in 1 .. n - 1 /\ n \in i + 1 .. n
        BY <1>1, <3>2
      <4>. QED
        BY <1>2, <4>1 DEF InCall, Chain
    <3>. QED
      BY <3>1, <3>2
  <2>2. Len(fs[i].obs) \in Nat
    BY StackPaths
  <2>. QED
    BY <1>3, <2>1, <2>2 DEF InCall
<1>. QED
  BY <1>3 DEF Over

(* The result of the top frame is saved, at least in memory.               *)
LEMMA SaveUnwinds ==
  ASSUME NEW fs \in Seq(Frame), Stack(fs), Chain(fs), Len(fs) >= 2,
         NEW d, NEW f \in State, Replays(d, f, fs),
         NEW v \in Value \cup {Undefined}, ~Cached(f, Last(fs).key),
         NEW f2, f2 = SaveStepResult(f, Last(fs).key, v), NEW d2 \in {d, f2}
  PROVE  Unwinds(d2, f2, fs)
<1>. DEFINE n == Len(fs) - 1
            k == Last(fs).key
<1>1. /\ Len(fs) \in Nat /\ n \in Nat /\ n >= 1 /\ n + 1 = Len(fs)
      /\ k \in Key /\ k = fs[n + 1].key /\ Len(k.path) = n
  BY FrameOfStack
<1>. HIDE DEF n, k
<1>2. ASSUME NEW i \in 1 .. n
      PROVE  i \in 1 .. Len(fs) /\ Len(fs[i].obs) \in Nat /\ k.path[i] = Len(fs[i].obs)
  <2>1. i \in 1 .. Len(fs) /\ n + 1 \in i + 1 .. Len(fs)
    BY <1>1
  <2>. QED
    BY <1>1, <2>1, StackPaths DEF Chain
<1>3. Kept(f2, fs, n)
  <2>1. ASSUME NEW i \in 1 .. n, NEW m \in 1 .. Len(fs[i].obs), fs[i].obs[m] # Caught
        PROVE  \E j \in Key : /\ Len(j.path) = i /\ InCall(fs, i, m - 1, j)
                             /\ Keeps(f2, j, fs[i].obs[m])
    <3>1. PICK j \in Key : Len(j.path) = i /\ InCall(fs, i, m - 1, j) /\ Keeps(f, j, fs[i].obs[m])
      BY <1>2, <2>1 DEF Replays, Kept
    <3>2. j # k
      BY <1>2, <3>1 DEF InCall
    <3>3. j \notin Descendants(k)
      <4>1. Below(k.path, j.path) => Len(k.path) < Len(j.path)
        BY <1>1, PathOfKey, BelowPointwise
      <4>. QED
        BY <1>1, <3>1, <4>1 DEF Descendants
    <3>4. (Cached(f2, j) <=> Cached(f, j)) /\ StepResult(f2, j) = StepResult(f, j)
      BY <1>1, <3>2, <3>3, SaveLeaves DEF k
    <3>. QED
      BY <3>1, <3>4 DEF Keeps
  <2>. QED
    BY <2>1 DEF Kept
<1>4. Kept(d2, fs, n)
  <2>1. \A i \in 1 .. n : i \in 1 .. Len(fs)
    BY <1>2
  <2>2. Kept(d, fs, n)
    BY <2>1 DEF Replays, Kept
  <2>. QED
    BY <1>3, <2>2
<1>5. ASSUME NEW j \in Key, Ahead(d2, f2, j)
      PROVE  Over(fs, n, j) \/ Under(k.path, j)
  <2>1. d2 = d
    BY <1>5 DEF Ahead, Keeps
  <2>2. CASE j = k
    BY <2>2 DEF Under
  <2>3. CASE j # k
    <3>1. j \notin Descendants(k)
      BY <1>1, <1>5, SaveLeaves DEF Ahead, k
    <3>2. (Cached(f2, j) <=> Cached(f, j)) /\ StepResult(f2, j) = StepResult(f, j)
      BY <1>1, <2>3, <3>1, SaveLeaves DEF k
    <3>3. Ahead(d, f, j)
      BY <1>5, <2>1, <3>2 DEF Ahead
    <3>4. Over(fs, Len(fs), j)
      BY <1>1, <3>3 DEF Replays
    <3>5. Len(fs) \in 1 .. Len(fs)
      BY <1>1
    <3>6. Over(fs, Len(fs) - 1, j) \/ Under(fs[Len(fs)].key.path, j)
      BY <3>4, <3>5, OverTop
    <3>7. Len(fs) - 1 = n /\ fs[Len(fs)].key = k
      BY <1>1
    <3>. QED
      BY <3>6, <3>7
  <2>. QED
    BY <2>2, <2>3
<1>. QED
  BY <1>3, <1>4, <1>5 DEF Unwinds, n, k

(* The frame of run() alone.                                               *)
LEMMA RootReplays == Chain(RootFrames) /\ \A d : Replays(d, d, RootFrames)
<1>1. Len(RootFrames) = 1 /\ RootFrames[1].obs = <<>>
  BY DEF RootFrames
<1>2. \A i \in 1 .. 1 : \A m \in 1 .. Len(RootFrames[i].obs) : FALSE
  BY <1>1
<1>3. \A d, k : ~Ahead(d, d, k)
  BY DEF Ahead, Keeps
<1>. QED
  BY <1>1, <1>2, <1>3 DEF Chain, Replays, Kept

-----------------------------------------------------------------------------
(* Every value a body has got back is in Redis *)

(* An error of the call that the body on top makes reaches that body.      *)
LEMMA DeliverToCaller ==
  ASSUME NEW fs \in Seq(Frame), Stack(fs), Chain(fs), Replays(store', mem', fs),
         NEW kind, Deliver(fs, kind)
  PROVE  ReplayInv'
<1>1. CASE Last(fs).key \in Catches
  <2>1. frames' = Observed(fs, Caught) /\ pc' = "body" /\ Caught \in Observation
    BY <1>1 DEF Deliver, Observation
  <2>2. Chain(frames') /\ Replays(store', mem', frames')
    BY <2>1, ChainOps, ReplaysObserved
  <2>. QED
    BY <2>1, <2>2 DEF ReplayInv
<1>2. CASE Last(fs).key \notin Catches
  <2>1. frames' = fs /\ pc' \in {"caught", "catch"}
    BY <1>2 DEF Deliver
  <2>2. Unwinds(store', mem', fs)
    BY ReplaysUnwinds
  <2>. QED
    BY <2>1, <2>2 DEF ReplayInv
<1>. QED
  BY <1>1, <1>2

(* The wrapper of the top frame passes an error on.                        *)
LEMMA DeliverFromWrapper ==
  ASSUME NEW fs \in Seq(Frame), Stack(fs), Chain(fs), Len(fs) >= 2,
         Unwinds(store', mem', fs), NEW kind, Deliver(Front(fs), kind)
  PROVE  ReplayInv'
<1>1. Front(fs) \in Seq(Frame) /\ Stack(Front(fs)) /\ Chain(Front(fs))
  BY FrontKept, ChainOps
<1>2. CASE Last(Front(fs)).key \in Catches
  <2>1. frames' = Observed(Front(fs), Caught) /\ pc' = "body" /\ Caught \in Observation
    BY <1>2 DEF Deliver, Observation
  <2>2. Chain(frames')
    BY <1>1, <2>1, ChainOps
  <2>3. Replays(store', mem', frames')
    BY <2>1, ReturnReplays
  <2>. QED
    BY <2>1, <2>2, <2>3 DEF ReplayInv
<1>3. CASE Last(Front(fs)).key \notin Catches
  <2>1. frames' = Front(fs) /\ pc' \in {"caught", "catch"}
    BY <1>3 DEF Deliver
  <2>2. Unwinds(store', mem', Front(fs))
    BY UnwindsFront
  <2>. QED
    BY <1>1, <2>1, <2>2 DEF ReplayInv
<1>. QED
  BY <1>2, <1>3

(* enterStep passes: a cached value is in Redis too, because what is only  *)
(* in memory lies at places the bodies have left behind.                   *)
LEMMA EnterReplays ==
  ASSUME pc = "body", frames \in Seq(Frame), Stack(frames), Chain(frames),
         NEW k \in Callable(Top), Enter(mem', k), mem' \in State,
         Replays(store', mem', frames)
  PROVE  ReplayInv'
<1>1. k \in Callable(Last(frames)) /\ k \in Key
  BY DEF Top, Callable
<1>2. CASE Cached(mem', k)
  <2>. DEFINE v == StepResult(mem', k)
  <2>1. frames' = Observed(frames, v) /\ pc' = "body"
    BY <1>2 DEF Enter
  <2>2. v \in Observation
    BY <1>1, <1>2 DEF State, Cached, StepResult, Observation
  <2>3. Keeps(mem', k, v)
    BY <1>2 DEF Keeps
  <2>4. Keeps(store', k, v)
    <3>1. ~Over(frames, Len(frames), k)
      BY <1>1, NextIsNotOver
    <3>2. ~Ahead(store', mem', k)
      BY <1>1, <3>1 DEF Replays
    <3>. QED
      BY <1>2, <3>2 DEF Ahead
  <2>5. k.path = Append(Last(frames).key.path, Len(Last(frames).obs))
    BY <1>1 DEF Callable
  <2>. HIDE DEF v
  <2>6. Replays(store', mem', frames')
    BY <1>1, <2>1, <2>2, <2>3, <2>4, <2>5, ReplaysObserved
  <2>7. Chain(frames')
    BY <2>1, <2>2, ChainOps
  <2>. QED
    BY <2>1, <2>6, <2>7 DEF ReplayInv
<1>3. CASE ~Cached(mem', k) /\ probing
  <2>1. Deliver(frames, "nondeterminism")
    BY <1>3 DEF Enter
  <2>. QED
    BY <2>1, DeliverToCaller
<1>4. CASE ~Cached(mem', k) /\ ~probing
  <2>1. frames' = Append(frames, [key |-> k, obs |-> <<>>]) /\ pc' = "body"
    BY <1>4 DEF Enter
  <2>2. Replays(store', mem', frames') /\ Chain(frames')
    BY <1>1, <2>1, ReplaysPush, ChainOps
  <2>. QED
    BY <2>1, <2>2 DEF ReplayInv
<1>. QED
  BY <1>2, <1>3, <1>4

(* enterStep.                                                              *)
LEMMA CallReplays ==
  ASSUME IInv, IInv', ReplayInv, NEW k \in Key, ReplayStep(k) \/ TraceStep(k) \/ DivergeStep(k)
  PROVE  ReplayInv'
<1>1. /\ pc = "body" /\ k \in Callable(Top) /\ frames \in Seq(Frame) /\ Stack(frames)
      /\ Chain(frames) /\ Replays(store, mem, frames) /\ mem \in State /\ mem' \in State
  BY DEF ReplayStep, TraceStep, DivergeStep, IInv, FramesInv, ControlType, StateInv, ReplayInv
<1>2. CASE ReplayStep(k)
  <2>1. mem' = mem /\ store' = store /\ Enter(mem', k)
    BY <1>2 DEF ReplayStep, durable
  <2>. QED
    BY <1>1, <2>1, EnterReplays
<1>3. CASE TraceStep(k)
  <2>. DEFINE d == RecordStep(mem, k)
  <2>1. /\ mem' = d /\ (store' = store \/ store' = mem')
        /\ Enter(mem', k) \/ Deliver(frames, "error")
    BY <1>3 DEF TraceStep, FlushOk, FlushFails
  <2>2. d.c = mem.c /\ d.u = mem.u
    BY <1>1, UncachingOps
  <2>3. Replays(store', mem', frames)
    BY <1>1, <2>1, <2>2, SameCacheReplays
  <2>. QED
    BY <1>1, <2>1, <2>3, EnterReplays, DeliverToCaller
<1>4. CASE DivergeStep(k)
  <2>1. mem' = mem /\ store' = store /\ \E kind : Deliver(frames, kind)
    BY <1>4 DEF DivergeStep, durable
  <2>. QED
    BY <1>1, <2>1, DeliverToCaller
<1>. QED
  BY <1>2, <1>3, <1>4

(* The body of a step returns or throws.                                   *)
LEMMA BodyReplays ==
  ASSUME IInv, ReplayInv,
         \/ \E v \in Value \cup {Undefined} : CompleteStep(v)
         \/ \E kind \in {"error", "nonRetryable", "sleep"} : Throw(kind)
  PROVE  ReplayInv'
<1>1. /\ pc = "body" /\ frames \in Seq(Frame) /\ Stack(frames) /\ Chain(frames)
      /\ Replays(store, mem, frames) /\ Fresh(mem, frames, Len(frames)) /\ mem \in State
  BY DEF CompleteStep, Throw, IInv, FramesInv, ControlType, StateInv, ReplayInv
<1>2. ASSUME NEW v \in Value \cup {Undefined}, CompleteStep(v)
      PROVE  ReplayInv'
  <2>. DEFINE k == Last(frames).key
              d == SaveStepResult(mem, k, v)
  <2>1. Len(frames) >= 2
    <3>1. \A n \in Nat : n >= 1 /\ n # 1 => n >= 2
      OBVIOUS
    <3>. QED
      BY <1>1, <1>2, <3>1, FrameOfStack DEF CompleteStep, InRoot
  <2>2. k \in Key /\ ~Cached(mem, k)
    BY <1>1, <2>1, FrameOfStack, FreshAfterSave
  <2>3. Keeps(d, k, v)
    BY <1>1, <2>2, SaveLeaves
  <2>4. v \in Observation
    BY DEF Observation
  <2>5. mem' = d /\ store' \in {store, d}
    BY <1>2 DEF CompleteStep, Top, FlushOk, FlushFails
  <2>6. Unwinds(store', mem', frames)
    BY <1>1, <2>1, <2>2, <2>5, SaveUnwinds
  <2>7. CASE store' = d /\ frames' = Observed(Front(frames), v) /\ pc' = pc
    <3>1. Keeps(store', k, v) /\ Keeps(mem', k, v)
      BY <2>3, <2>5, <2>7
    <3>. HIDE DEF d
    <3>2. Replays(store', mem', Observed(Front(frames), v))
      BY <1>1, <2>1, <2>4, <2>6, <3>1, ReturnReplays
    <3>3. Chain(Observed(Front(frames), v))
      <4>1. Front(frames) \in Seq(Frame) /\ Stack(Front(frames)) /\ Chain(Front(frames))
        BY <1>1, <2>1, FrontKept, ChainOps
      <4>. QED
        BY <2>4, <4>1, ChainOps
    <3>. QED
      BY <1>1, <2>7, <3>2, <3>3 DEF ReplayInv
  <2>8. CASE pc' = "catch" /\ frames' = frames
    BY <1>1, <2>6, <2>8 DEF ReplayInv
  <2>. QED
    BY <1>2, <2>7, <2>8 DEF CompleteStep, Top, FlushOk
<1>3. ASSUME NEW kind \in {"error", "nonRetryable", "sleep"}, Throw(kind)
      PROVE  ReplayInv'
  <2>1. /\ store' = store /\ mem' = mem /\ frames' = frames /\ pc' \in {"caught", "catch"}
    BY <1>3 DEF Throw, durable, context
  <2>2. Unwinds(store, mem, frames)
    BY <1>1, ReplaysUnwinds
  <2>. QED
    BY <1>1, <2>1, <2>2 DEF ReplayInv
<1>. QED
  BY <1>2, <1>3

(* The wrapper's catch.                                                    *)
LEMMA WrapperReplays ==
  ASSUME IInv, ReplayInv, ChargeFailure \/ Rethrow
  PROVE  ReplayInv'
<1>1. /\ frames \in Seq(Frame) /\ Stack(frames) /\ Chain(frames) /\ Len(frames) >= 2
      /\ Unwinds(store, mem, frames) /\ mem \in State
  BY DEF ChargeFailure, Rethrow, IInv, FramesInv, ControlType, StateInv, ReplayInv
<1>2. CASE ChargeFailure
  <2>. DEFINE d == IncrementStepRetryCount(mem, Top.key)
  <2>1. mem' = d /\ (store' = store \/ store' = mem')
    BY <1>2 DEF ChargeFailure, FlushOk, FlushFails
  <2>2. d.c = mem.c /\ d.u = mem.u
    BY <1>1, UncachingOps
  <2>3. Unwinds(store', mem', frames)
    BY <1>1, <2>1, <2>2, SameCacheReplays
  <2>4. \E kind : Deliver(Front(frames), kind)
    BY <1>2 DEF ChargeFailure
  <2>. QED
    BY <1>1, <2>3, <2>4, DeliverFromWrapper
<1>3. CASE Rethrow
  <2>1. mem' = mem /\ store' = store /\ Deliver(Front(frames), err)
    BY <1>3 DEF Rethrow, durable
  <2>. QED
    BY <1>1, <2>1, DeliverFromWrapper
<1>. QED
  BY <1>2, <1>3

(* The steps that leave the body, and those that start with a fresh one.   *)
LEMMA OtherReplays ==
  ASSUME \/ Run \/ Cancel \/ BeginAttempt \/ ResumePublishing
         \/ Returning \/ Catching \/ Crash
  PROVE  ReplayInv'
<1>1. ASSUME pc' \notin {"body", "catch"}
      PROVE  ReplayInv'
  BY <1>1 DEF ReplayInv
<1>2. ASSUME pc' = "body", frames' = RootFrames, mem' = store'
      PROVE  ReplayInv'
  BY <1>2, RootReplays DEF ReplayInv
<1>3. \A how : EndRun(how) => pc' = "idle"
  BY DEF EndRun
<1>4. AfterCompletion => pc' = "idle" \/ (pc' = "body" /\ frames' = RootFrames)
  BY <1>3 DEF AfterCompletion
<1>5. CASE Run \/ Cancel \/ ResumePublishing \/ Catching \/ Crash
  BY <1>1, <1>3, <1>5 DEF Run, Cancel, ResumePublishing, Catching, FailProbe, Park, RetryStep,
     RetryWorkflow, Fail, HandleFailure, Crash
<1>6. CASE BeginAttempt
  BY <1>1, <1>2, <1>6 DEF BeginAttempt, FlushOk
<1>7. CASE ReturnDiverged \/ StoreResult \/ ReturnUnserializable \/ ReturnFromProbe \/ Publish
  BY <1>1, <1>3, <1>7 DEF ReturnDiverged, StoreResult, ReturnUnserializable, ReturnFromProbe,
     Publish
<1>8. CASE Complete \/ Finalize
  BY <1>1, <1>2, <1>3, <1>4, <1>8 DEF Complete, Finalize, FlushOk
<1>. QED
  BY <1>5, <1>6, <1>7, <1>8 DEF Returning

(* Every step keeps the invariant of the replay.                           *)
LEMMA NextReplays == IInv /\ IInv' /\ ReplayInv /\ [Next]_vars => ReplayInv'
<1>. SUFFICES ASSUME IInv, IInv', ReplayInv, [Next]_vars
              PROVE  ReplayInv'
  OBVIOUS
<1>1. CASE Calls
  BY <1>1, CallReplays DEF Calls
<1>2. CASE Steps
  BY <1>2, BodyReplays, WrapperReplays DEF Steps
<1>3. CASE UNCHANGED vars
  BY <1>3 DEF vars, ReplayInv
<1>. QED
  BY <1>1, <1>2, <1>3, OtherReplays DEF Next, Worker, Ended

(* What Redis has, when bodies have got back nothing else.                 *)
LEMMA ReplayIsDurable == IInv /\ ReplayInv => ObservedIsDurable
<1>. SUFFICES ASSUME IInv, ReplayInv, pc = "body", NEW i \in DOMAIN frames,
                     NEW n \in DOMAIN frames[i].obs, frames[i].obs[n] # Caught
              PROVE  \E k \in Key : /\ k.path = Append(frames[i].key.path, n - 1)
                                   /\ Keeps(store, k, frames[i].obs[n])
  BY DEF ObservedIsDurable
<1>1. /\ frames \in Seq(Frame) /\ Stack(frames) /\ Kept(store, frames, Len(frames))
  BY DEF IInv, ControlType, FramesInv, ReplayInv, Replays
<1>2. i \in 1 .. Len(frames)
  BY <1>1
<1>3. frames[i].obs \in Seq(Observation)
  BY <1>1, <1>2, StackPaths
<1>4. n \in 1 .. Len(frames[i].obs) /\ n - 1 \in Nat
  BY <1>3
<1>5. PICK k \in Key : /\ Len(k.path) = i /\ InCall(frames, i, n - 1, k)
                       /\ Keeps(store, k, frames[i].obs[n])
  BY <1>1, <1>2, <1>4 DEF Kept
<1>6. k.path = Append(frames[i].key.path, n - 1)
  <2>. DEFINE m == n - 1
  <2>1. m \in Nat /\ Len(k.path) = i /\ InCall(frames, i, m, k)
    BY <1>4, <1>5
  <2>. HIDE DEF m
  <2>2. \A j \in Nat : k.path = Append(frames[i].key.path, j) <=>
                        Len(k.path) = i /\ InCall(frames, i, j, k)
    BY <1>1, <1>2, CallPath
  <2>3. k.path = Append(frames[i].key.path, m)
    BY <2>1, <2>2
  <2>. QED
    BY <2>3 DEF m
<1>. QED
  BY <1>5, <1>6

(* What a body has got back from its calls is in Redis, or is an error it  *)
(* caught: no code acts on a result that a crash could undo, although the  *)
(* step cache in memory runs ahead of Redis.                               *)
THEOREM ObservedValuesAreDurable == Spec => []ObservedIsDurable
<1>1. Init => ReplayInv
  BY DEF Init, ReplayInv
<1>. QED
  BY <1>1, ReplayIsDurable, Invariant, NextInv, NextReplays, PTL DEF Spec

-----------------------------------------------------------------------------
(* What a step can write *)

SameDecisions(d, f) == f.c = d.c /\ f.u = d.u /\ f.a = d.a

(* What the operations do to the status and to the result.                 *)
LEMMA StatusOps ==
  ASSUME NEW d \in State
  PROVE  /\ MarkRunning(d).s = "running" /\ MarkRunning(d).r = d.r
         /\ MarkCancelled(d).s = "cancelled" /\ MarkCancelled(d).r = Undefined
         /\ \A kind : MarkFailed(d, kind).s = "failed" /\ MarkFailed(d, kind).r = Undefined
         /\ \A r : /\ MarkPublishingResult(d, r).s = "completing"
                  /\ MarkPublishingResult(d, r).r = r
                  /\ MarkCompleted(d, r).s = "completed" /\ MarkCompleted(d, r).r = r
         /\ MarkCompletedFromStoredResult(d).s = "completed"
         /\ MarkCompletedFromStoredResult(d).r = d.r
         /\ \A k : /\ RecordStep(d, k).s = d.s /\ RecordStep(d, k).r = d.r
                  /\ IncrementStepRetryCount(d, k).s = d.s /\ IncrementStepRetryCount(d, k).r = d.r
         /\ \A k, v : SaveStepResult(d, k, v).s = d.s /\ SaveStepResult(d, k, v).r = d.r
<1>1. /\ MarkRunning(d).s = "running" /\ MarkRunning(d).r = d.r
      /\ MarkCancelled(d).s = "cancelled" /\ MarkCancelled(d).r = Undefined
      /\ \A kind : MarkFailed(d, kind).s = "failed" /\ MarkFailed(d, kind).r = Undefined
      /\ \A r : /\ MarkPublishingResult(d, r).s = "completing"
               /\ MarkPublishingResult(d, r).r = r
  BY DEF State, MarkRunning, MarkCancelled, MarkFailed, MarkPublishingResult
<1>2. /\ MarkCompletedFromStoredResult(d).s = "completed"
      /\ MarkCompletedFromStoredResult(d).r = d.r
      /\ \A r : MarkCompleted(d, r).s = "completed" /\ MarkCompleted(d, r).r = r
  BY DEF State, MarkCompletedFromStoredResult, MarkCompleted, Compact, Drop
<1>3. /\ \A k : /\ RecordStep(d, k).s = d.s /\ RecordStep(d, k).r = d.r
               /\ IncrementStepRetryCount(d, k).s = d.s /\ IncrementStepRetryCount(d, k).r = d.r
      /\ \A k, v : SaveStepResult(d, k, v).s = d.s /\ SaveStepResult(d, k, v).r = d.r
  BY DEF State, RecordStep, IncrementStepRetryCount, SaveStepResult, Cache, Drop
<1>. QED
  BY <1>1, <1>2, <1>3

(* The states that a step of the engine may leave in Redis or in memory,   *)
(* other than those it found there, as to the step cache and the result.   *)
Writable(d) ==
  /\ \/ SameDecisions(mem, d) \/ SameDecisions(store, d)
     \/ \E f \in State : SameDecisions(mem, f) /\ d = Compact(f)
     \/ /\ pc = "body" /\ Len(frames) >= 2
        /\ \E v \in Value \cup {Undefined} : d = SaveStepResult(mem, Last(frames).key, v)
     \/ pc = "catch" /\ d = IncrementStepRetryCount(mem, Last(frames).key)
  /\ d.r \in {mem.r, store.r, Undefined} \/ (CanReturn /\ ~probing /\ d.r = Top.obs)

(* The changes of status leave the decisions alone.                        *)
LEMMA StatusSameDecisions ==
  ASSUME NEW d \in State
  PROVE  /\ SameDecisions(d, d) /\ SameDecisions(d, MarkRunning(d))
         /\ SameDecisions(d, MarkCancelled(d))
         /\ \A kind : SameDecisions(d, MarkFailed(d, kind))
         /\ \A r : SameDecisions(d, MarkPublishingResult(d, r))
         /\ \A k : SameDecisions(d, RecordStep(d, k))
  BY DEF State, SameDecisions, MarkRunning, MarkCancelled, MarkFailed, MarkPublishingResult,
     RecordStep

(* What a change of status writes.                                         *)
LEMMA StatusWritable ==
  ASSUME mem \in State, store \in State
  PROVE  /\ Writable(mem) /\ Writable(MarkRunning(mem)) /\ Writable(MarkCancelled(store))
         /\ \A kind : Writable(MarkFailed(mem, kind))
         /\ \A k : Writable(RecordStep(mem, k))
         /\ \A s : Writable([mem EXCEPT !.s = s])
<1>1. ASSUME NEW d, SameDecisions(mem, d) \/ SameDecisions(store, d),
             d.r \in {mem.r, store.r, Undefined}
      PROVE  Writable(d)
  BY <1>1 DEF Writable
<1>2. Writable(mem)
  BY <1>1, StatusSameDecisions
<1>3. Writable(MarkRunning(mem))
  BY <1>1, StatusSameDecisions, StatusOps
<1>4. Writable(MarkCancelled(store))
  BY <1>1, StatusSameDecisions, StatusOps
<1>5. \A kind : Writable(MarkFailed(mem, kind))
  BY <1>1, StatusSameDecisions, StatusOps
<1>6. \A k : Writable(RecordStep(mem, k))
  BY <1>1, StatusSameDecisions, StatusOps
<1>7. ASSUME NEW s
      PROVE  Writable([mem EXCEPT !.s = s])
  <2>1. PICK d : d = [mem EXCEPT !.s = s]
    OBVIOUS
  <2>2. SameDecisions(mem, d) /\ d.r = mem.r
    BY <2>1 DEF State, SameDecisions
  <2>. QED
    BY <1>1, <2>1, <2>2
<1>. QED
  BY <1>2, <1>3, <1>4, <1>5, <1>6, <1>7

(* The result that run() returned, and the completion of the job, which    *)
(* compacts a state with the decisions of mem.                             *)
LEMMA ResultWritable ==
  ASSUME mem \in State
  PROVE  /\ Writable(MarkCompletedFromStoredResult(mem))
         /\ CanReturn /\ ~probing /\ Top.obs \in Seq(Observation) =>
              Writable(MarkPublishingResult(mem, Top.obs)) /\ Writable(MarkCompleted(mem, Top.obs))
<1>1. Writable(MarkCompletedFromStoredResult(mem))
  <2>1. /\ [mem EXCEPT !.s = "completed", !.e = "none"] \in State
        /\ SameDecisions(mem, [mem EXCEPT !.s = "completed", !.e = "none"])
    BY DEF State, Status, SameDecisions
  <2>2. MarkCompletedFromStoredResult(mem).r = mem.r
    BY StatusOps
  <2>. QED
    BY <2>1, <2>2 DEF Writable, MarkCompletedFromStoredResult
<1>2. ASSUME CanReturn, ~probing, Top.obs \in Seq(Observation)
      PROVE  Writable(MarkPublishingResult(mem, Top.obs))
  <2>1. /\ SameDecisions(mem, MarkPublishingResult(mem, Top.obs))
        /\ MarkPublishingResult(mem, Top.obs).r = Top.obs
    BY StatusSameDecisions, StatusOps
  <2>. QED
    BY <1>2, <2>1 DEF Writable
<1>3. ASSUME CanReturn, ~probing, Top.obs \in Seq(Observation)
      PROVE  Writable(MarkCompleted(mem, Top.obs))
  <2>1. PICK r \in Seq(Observation) : r = Top.obs
    BY <1>3
  <2>2. /\ [mem EXCEPT !.s = "completed", !.r = r, !.e = "none"] \in State
        /\ SameDecisions(mem, [mem EXCEPT !.s = "completed", !.r = r, !.e = "none"])
    BY DEF State, Status, SameDecisions
  <2>3. MarkCompleted(mem, r).r = r
    BY StatusOps
  <2>4. \E f \in State : SameDecisions(mem, f) /\ MarkCompleted(mem, r) = Compact(f)
    BY <2>2 DEF MarkCompleted
  <2>. QED
    BY <1>3, <2>1, <2>3, <2>4 DEF Writable
<1>. QED
  BY <1>1, <1>2, <1>3

(* What the body on top of the stack has got back so far.                  *)
LEMMA TopType ==
  ASSUME IInv, pc \in {"body", "catch"}
  PROVE  Top = frames[Len(frames)] /\ Top \in Frame /\ Top.obs \in Seq(Observation)
<1>1. frames \in Seq(Frame) /\ Stack(frames)
  BY DEF IInv, FramesInv, ControlType
<1>2. Top = frames[Len(frames)] /\ Top \in Frame
  BY <1>1, FrameOfStack DEF Top
<1>. QED
  BY <1>2 DEF Frame

(* Every step writes at most one such state, to memory and perhaps to      *)
(* Redis, or takes the state in Redis into memory.                         *)
LEMMA StepWrites ==
  ASSUME IInv, [Next]_vars
  PROVE  \E d : Writable(d) /\ store' \in {store, d} /\ mem' \in {d, store'}
<1>0. mem \in State /\ store \in State
  BY DEF IInv, StateInv
<1>1. ASSUME store' = store, mem' = mem \/ mem' = store'
      PROVE  \E d : Writable(d) /\ store' \in {store, d} /\ mem' \in {d, store'}
  BY <1>0, <1>1, StatusWritable
<1>2. ASSUME NEW d, Writable(d),
             \/ \E limited : FlushOk(d, limited) \/ FlushFails(d, limited)
             \/ store' \in {store, d} /\ mem' = store'
      PROVE  \E x : Writable(x) /\ store' \in {store, x} /\ mem' \in {x, store'}
  BY <1>2 DEF FlushOk, FlushFails
<1>3. \A how : EndRun(how) => mem' = store'
  BY DEF EndRun
<1>4. CASE Run \/ Cancel
  <2>1. CASE Run
    BY <1>1, <2>1 DEF Run, durable
  <2>2. CASE Cancel
    <3>1. Writable(MarkCancelled(store))
      BY <1>0, StatusWritable
    <3>. QED
      BY <1>2, <2>2, <3>1 DEF Cancel
  <2>. QED
    BY <1>4, <2>1, <2>2
<1>5. CASE BeginAttempt
  <2>1. Writable(MarkRunning(mem))
    BY <1>0, StatusWritable
  <2>. QED
    BY <1>2, <1>5, <2>1 DEF BeginAttempt
<1>6. ASSUME NEW k \in Key, ReplayStep(k) \/ TraceStep(k) \/ DivergeStep(k)
      PROVE  \E d : Writable(d) /\ store' \in {store, d} /\ mem' \in {d, store'}
  <2>1. CASE TraceStep(k)
    <3>1. Writable(RecordStep(mem, k))
      BY <1>0, StatusWritable
    <3>. QED
      BY <1>2, <2>1, <3>1 DEF TraceStep
  <2>2. CASE ReplayStep(k) \/ DivergeStep(k)
    BY <1>1, <2>2 DEF ReplayStep, DivergeStep, durable
  <2>. QED
    BY <1>6, <2>1, <2>2
<1>7. ASSUME NEW v \in Value \cup {Undefined}, CompleteStep(v)
      PROVE  \E d : Writable(d) /\ store' \in {store, d} /\ mem' \in {d, store'}
  <2>1. pc = "body" /\ Len(frames) >= 2
    <3>1. frames \in Seq(Frame) /\ Stack(frames) /\ pc = "body" /\ Len(frames) # 1
      BY <1>7 DEF CompleteStep, IInv, FramesInv, ControlType, InRoot
    <3>2. \A n \in Nat : n >= 1 /\ n # 1 => n >= 2
      OBVIOUS
    <3>. QED
      BY <3>1, <3>2, FrameOfStack
  <2>2. Writable(SaveStepResult(mem, Last(frames).key, v))
    BY <1>0, <2>1, StatusOps DEF Writable
  <2>. QED
    BY <1>2, <1>7, <2>2 DEF CompleteStep, Top
<1>8. CASE ChargeFailure
  <2>1. Writable(IncrementStepRetryCount(mem, Last(frames).key))
    BY <1>0, <1>8, StatusOps DEF ChargeFailure, Writable
  <2>. QED
    BY <1>2, <1>8, <2>1 DEF ChargeFailure, Top
<1>9. CASE Rethrow \/ \E kind \in {"error", "nonRetryable", "sleep"} : Throw(kind)
  BY <1>1, <1>9 DEF Rethrow, Throw, durable
<1>10. CASE ReturnDiverged \/ ReturnFromProbe \/ ResumePublishing
  BY <1>1, <1>3, <1>10 DEF ReturnDiverged, ReturnFromProbe, ResumePublishing, durable
<1>11. CASE Complete
  <2>1. Writable(MarkCompleted(mem, Top.obs))
    BY <1>0, <1>11, TopType, ResultWritable DEF Complete, CanReturn
  <2>. QED
    BY <1>2, <1>11, <2>1 DEF Complete
<1>12. CASE StoreResult
  <2>1. Writable(MarkPublishingResult(mem, Top.obs))
    BY <1>0, <1>12, TopType, ResultWritable DEF StoreResult, CanReturn
  <2>. QED
    BY <1>2, <1>12, <2>1 DEF StoreResult
<1>13. CASE ReturnUnserializable
  <2>1. store' = store /\ \E s : mem' = [mem EXCEPT !.s = s]
    BY <1>13 DEF ReturnUnserializable, durable
  <2>2. Writable(mem')
    BY <1>0, <2>1, StatusWritable
  <2>. QED
    BY <2>1, <2>2
<1>14. CASE Publish
  BY <1>1, <1>3, <1>14 DEF Publish
<1>15. CASE Finalize
  <2>1. Writable(MarkCompletedFromStoredResult(mem))
    BY <1>0, ResultWritable
  <2>. QED
    BY <1>2, <1>3, <1>15, <2>1 DEF Finalize
<1>16. CASE Fail
  <2>1. Writable(MarkFailed(mem, err))
    BY <1>0, StatusWritable
  <2>. QED
    BY <1>2, <1>3, <1>16, <2>1 DEF Fail
<1>17. CASE FailProbe \/ Park \/ RetryStep \/ RetryWorkflow \/ HandleFailure \/ Crash
  BY <1>1, <1>3, <1>17 DEF FailProbe, Park, RetryStep, RetryWorkflow, HandleFailure, Crash,
     durable
<1>18. CASE UNCHANGED vars
  BY <1>1, <1>18 DEF vars
<1>. QED
  BY <1>4, <1>5, <1>6, <1>7, <1>8, <1>9, <1>10, <1>11, <1>12, <1>13, <1>14, <1>15, <1>16,
     <1>17, <1>18
  DEF Next, Worker, Calls, Steps, Returning, Catching, Ended

-----------------------------------------------------------------------------
(* The cache stays compact *)

(* What keeps a state compact.                                             *)
LEMMA CompactOps ==
  ASSUME NEW d \in State, IsCompact(d)
  PROVE  /\ \A f : SameDecisions(d, f) => IsCompact(f)
         /\ \A K : IsCompact(Drop(d, K))
         /\ \A k \in Key : (\A j \in Key : Cached(d, j) => ~Below(j.path, k.path)) =>
              /\ IsCompact(IncrementStepRetryCount(d, k))
              /\ \A v \in Value \cup {Undefined} : IsCompact(SaveStepResult(d, k, v))
<1>1. \A f : SameDecisions(d, f) => IsCompact(f)
  BY DEF IsCompact, SameDecisions, CachedKeys, Cached
<1>2. ASSUME NEW K
      PROVE  IsCompact(Drop(d, K))
  <2>1. \A k \in Key : Cached(Drop(d, K), k) => Cached(d, k)
    BY DropCache
  <2>2. \A j \in Key : d.a[j] = 0 => Drop(d, K).a[j] = 0
    BY DEF State, Drop
  <2>. QED
    BY <2>1, <2>2 DEF IsCompact, CachedKeys, Descendants
<1>3. ASSUME NEW k \in Key, \A j \in Key : Cached(d, j) => ~Below(j.path, k.path)
      PROVE  IsCompact(IncrementStepRetryCount(d, k))
  <2>. DEFINE g == IncrementStepRetryCount(d, k)
  <2>1. \A j \in Key : Cached(g, j) <=> Cached(d, j)
    BY DEF State, IncrementStepRetryCount, Cached
  <2>2. \A j \in Key : j # k => g.a[j] = d.a[j]
    BY DEF State, IncrementStepRetryCount
  <2>. HIDE DEF g
  <2>. QED
    BY <1>3, <2>1, <2>2 DEF IsCompact, CachedKeys, Descendants, g
<1>4. ASSUME NEW k \in Key, \A j \in Key : Cached(d, j) => ~Below(j.path, k.path),
             NEW v \in Value \cup {Undefined}
      PROVE  IsCompact(SaveStepResult(d, k, v))
  <2>. DEFINE g == SaveStepResult(d, k, v)
  <2>1. ASSUME NEW j \in Key
        PROVE  /\ j \in Descendants(k) => ~Cached(g, j) /\ g.a[j] = 0
               /\ j # k /\ j \notin Descendants(k) =>
                    (Cached(g, j) <=> Cached(d, j)) /\ g.a[j] = d.a[j]
    <3>1. /\ j \in Descendants(k) => g.a[j] = 0
          /\ j # k /\ j \notin Descendants(k) => g.a[j] = d.a[j]
      BY DEF State, SaveStepResult, Cache, Drop
    <3>. QED
      BY <3>1, SaveLeaves
  <2>. HIDE DEF g
  <2>2. ASSUME NEW i \in Key, Cached(g, i), NEW j \in Key, Below(i.path, j.path)
        PROVE  g.a[j] = 0 /\ ~Cached(g, j)
    <3>1. i \notin Descendants(k)
      BY <2>1, <2>2
    <3>2. CASE i = k
      BY <2>1, <2>2, <3>2 DEF Descendants
    <3>3. CASE i # k
      <4>1. Cached(d, i)
        BY <2>1, <2>2, <3>1, <3>3
      <4>2. j # k
        BY <1>4, <2>2, <4>1
      <4>3. d.a[j] = 0 /\ ~Cached(d, j)
        BY <2>2, <4>1 DEF IsCompact, CachedKeys, Descendants
      <4>. QED
        BY <2>1, <4>2, <4>3
    <3>. QED
      BY <3>2, <3>3
  <2>. QED
    BY <2>2 DEF IsCompact, CachedKeys, Descendants, g
<1>. QED
  BY <1>1, <1>2, <1>3, <1>4

(* Nothing a step writes has a result or a retry count below a result.     *)
LEMMA WritableIsCompact ==
  ASSUME OneStepPerPlace, IInv, CompactInv, NEW d, Writable(d)
  PROVE  IsCompact(d)
<1>1. /\ mem \in State /\ store \in State /\ IsCompact(mem) /\ IsCompact(store)
      /\ frames \in Seq(Frame)
  BY DEF IInv, StateInv, ControlType, CompactInv
<1>2. CASE SameDecisions(mem, d) \/ SameDecisions(store, d)
  BY <1>1, <1>2, CompactOps
<1>3. ASSUME NEW f \in State, SameDecisions(mem, f), d = Compact(f)
      PROVE  IsCompact(d)
  <2>1. IsCompact(f)
    BY <1>1, <1>3, CompactOps
  <2>. QED
    BY <1>3, <2>1, CompactOps DEF Compact
<1>4. ASSUME Stack(frames), Len(frames) >= 2, Fresh(mem, frames, Len(frames) - 1)
      PROVE  /\ Last(frames).key \in Key
             /\ \A j \in Key : Cached(mem, j) => ~Below(j.path, Last(frames).key.path)
  <2>1. /\ Len(frames) \in 2 .. Len(frames) /\ Last(frames) = frames[Len(frames)]
        /\ Last(frames).key \in Key
    BY <1>1, <1>4, FrameOfStack
  <2>. QED
    BY <1>1, <1>4, <2>1, NothingDecidedAround
<1>5. ASSUME pc = "body", Len(frames) >= 2, NEW v \in Value \cup {Undefined},
             d = SaveStepResult(mem, Last(frames).key, v)
      PROVE  IsCompact(d)
  <2>1. Stack(frames) /\ Fresh(mem, frames, Len(frames) - 1)
    <3>1. Stack(frames) /\ Fresh(mem, frames, Len(frames)) /\ Len(frames) \in Nat
      BY <1>1, <1>5, FrameOfStack DEF IInv, FramesInv
    <3>2. \A i \in 2 .. Len(frames) - 1 : i \in 2 .. Len(frames)
      BY <3>1
    <3>. QED
      BY <3>1, <3>2 DEF Fresh
  <2>. QED
    BY <1>1, <1>4, <1>5, <2>1, CompactOps
<1>6. ASSUME pc = "catch", d = IncrementStepRetryCount(mem, Last(frames).key)
      PROVE  IsCompact(d)
  <2>1. Stack(frames) /\ Len(frames) >= 2 /\ Fresh(mem, frames, Len(frames) - 1)
    BY <1>6 DEF IInv, FramesInv
  <2>. QED
    BY <1>1, <1>4, <1>6, <2>1, CompactOps
<1>. QED
  BY <1>2, <1>3, <1>5, <1>6 DEF Writable

(* Redis holds no result and no retry count below a step with a result: a  *)
(* step that is saved takes what its calls left with it, and none of them  *)
(* writes after that.                                                      *)
THEOREM CacheStaysCompact ==
  ASSUME OneStepPerPlace
  PROVE  Spec => []CacheIsCompact
<1>1. Init => CompactInv
  <2>1. IsCompact(InitialState)
    BY DEF IsCompact, InitialState, CachedKeys, Descendants, Cached
  <2>. QED
    BY <2>1 DEF Init, CompactInv
<1>2. IInv /\ CompactInv /\ [Next]_vars => CompactInv'
  <2>. SUFFICES ASSUME IInv, CompactInv, [Next]_vars
                PROVE  CompactInv'
    OBVIOUS
  <2>1. PICK d : Writable(d) /\ store' \in {store, d} /\ mem' \in {d, store'}
    BY StepWrites
  <2>2. IsCompact(d)
    BY <2>1, WritableIsCompact
  <2>. QED
    BY <2>1, <2>2 DEF CompactInv
<1>3. CompactInv => CacheIsCompact
  BY DEF CompactInv, IsCompact, CacheIsCompact
<1>. QED
  BY <1>1, <1>2, <1>3, Invariant, PTL DEF Spec

-----------------------------------------------------------------------------
(* Status and result *)

(* Where run() is, against what Redis and the copy in memory say.          *)
RunStatus ==
  /\ pc = "idle" => mem = store
  /\ pc # "idle" => store.s # "cancelled"
  /\ pc \in {"body", "catch"} /\ ~probing => mem.s = "running" /\ store.s = "running"
  /\ mem.s = "completing" => store.s \in {"running", "completing"}
  /\ pc \in {"publish", "finalize"} => mem.s = "completing"
  /\ pc = "failed" => store.s = "failed"
  /\ probing => /\ pc \in {"body", "caught"} /\ store.s = "completed"
                /\ pc = "body" => Len(frames) = 1
  /\ pc = "idle" /\ outcome = "resolved" => store.s = "completed"

(* The end of a run, and what comes after its last write.                  *)
LEMMA RunEnds ==
  ASSUME NEW how, EndRun(how), how = "resolved" => store'.s = "completed"
  PROVE  RunStatus'
  BY DEF EndRun, RunStatus

LEMMA RunCompletes ==
  ASSUME AfterCompletion, mem' = store', store'.s = "completed"
  PROVE  RunStatus'
<1>1. CASE AutoProbe
  <2>1. pc' = "body" /\ frames' = RootFrames /\ probing' = TRUE
    BY <1>1 DEF AfterCompletion
  <2>2. Len(RootFrames) = 1
    BY DEF RootFrames
  <2>. QED
    BY <2>1, <2>2 DEF RunStatus
<1>2. CASE ~AutoProbe
  BY <1>2 DEF AfterCompletion, EndRun, RunStatus
<1>. QED
  BY <1>1, <1>2

(* An error that reaches a body during the probe ends the probe.           *)
LEMMA DeliverStatus ==
  ASSUME RunStatus, NEW fs \in Seq(Frame), Stack(fs), NEW kind, Deliver(fs, kind),
         pc \in {"body", "catch"}, probing' = probing, probing => Len(fs) = 1,
         store'.s = store.s, mem'.s = mem.s
  PROVE  RunStatus'
<1>1. Caught \in Observation
  BY DEF Observation
<1>2. pc' \in {"body", "catch", "caught"} /\ (pc' = "catch" => Len(fs) # 1)
  BY DEF Deliver
<1>3. pc' = "body" => Len(frames') = Len(fs)
  BY <1>1, ObservedStack DEF Deliver
<1>. QED
  BY <1>2, <1>3 DEF RunStatus

(* The steps of the bodies and of their wrappers.                          *)
LEMMA StepStatus ==
  ASSUME IInv, RunStatus, Calls \/ Steps
  PROVE  RunStatus'
<1>1. /\ pc \in {"body", "catch"} /\ frames \in Seq(Frame) /\ Stack(frames)
      /\ mem \in State /\ store \in State
  BY DEF Calls, Steps, ReplayStep, TraceStep, DivergeStep, CompleteStep, Throw, ChargeFailure,
     Rethrow, IInv, FramesInv, ControlType, StateInv
<1>2. ASSUME NEW d, d.s = mem.s, \E limited : FlushOk(d, limited) \/ FlushFails(d, limited)
      PROVE  mem'.s = mem.s /\ store'.s \in {store.s, mem.s}
  BY <1>2 DEF FlushOk, FlushFails
<1>3. ASSUME NEW k \in Callable(Top), NEW d, Enter(d, k), pc = "body", probing' = probing,
             d \in State, store'.s = store.s, mem'.s = mem.s
      PROVE  RunStatus'
  <2>1. k \in Key
    BY <1>3 DEF Callable
  <2>2. CASE Cached(d, k)
    <3>1. StepResult(d, k) \in Observation
      BY <1>3, <2>1, <2>2 DEF State, Cached, StepResult, Observation
    <3>2. pc' = "body" /\ Len(frames') = Len(frames)
      BY <1>1, <1>3, <2>2, <3>1, ObservedStack DEF Enter
    <3>. QED
      BY <1>3, <3>2 DEF RunStatus
  <2>3. CASE ~Cached(d, k) /\ probing
    <3>1. Deliver(frames, "nondeterminism") /\ Len(frames) = 1
      BY <1>3, <2>3 DEF Enter, RunStatus
    <3>. QED
      BY <1>1, <1>3, <3>1, DeliverStatus
  <2>4. CASE ~Cached(d, k) /\ ~probing
    BY <1>3, <2>4 DEF Enter, RunStatus
  <2>. QED
    BY <2>2, <2>3, <2>4
<1>4. ASSUME NEW k \in Key, ReplayStep(k) \/ TraceStep(k) \/ DivergeStep(k)
      PROVE  RunStatus'
  <2>1. pc = "body" /\ k \in Callable(Top) /\ probing' = probing
    BY <1>4 DEF ReplayStep, TraceStep, DivergeStep
  <2>2. CASE ReplayStep(k)
    BY <1>1, <1>3, <2>1, <2>2 DEF ReplayStep, durable
  <2>3. CASE TraceStep(k)
    <3>1. ~probing /\ mem.s = "running" /\ store.s = "running"
      BY <2>1, <2>3 DEF TraceStep, RunStatus
    <3>2. RecordStep(mem, k).s = mem.s /\ RecordStep(mem, k) \in State
      <4>1. RecordStep(mem, k).s = mem.s
        BY <1>1, StatusOps
      <4>2. RecordStep(mem, k) \in State
        BY <1>1, CacheOpsType
      <4>. QED
        BY <4>1, <4>2
    <3>3. mem'.s = mem.s /\ store'.s = store.s
      BY <1>2, <2>3, <3>1, <3>2 DEF TraceStep
    <3>. QED
      BY <1>1, <1>3, <2>1, <2>3, <3>1, <3>2, <3>3, DeliverStatus DEF TraceStep
  <2>4. CASE DivergeStep(k)
    <3>1. probing => Len(frames) = 1
      BY <2>1 DEF RunStatus
    <3>2. mem' = mem /\ store' = store /\ \E kind : Deliver(frames, kind)
      BY <2>4 DEF DivergeStep, durable
    <3>. QED
      BY <1>1, <2>1, <3>1, <3>2, DeliverStatus
  <2>. QED
    BY <1>4, <2>2, <2>3, <2>4
<1>5. ASSUME NEW v \in Value \cup {Undefined}, CompleteStep(v)
      PROVE  RunStatus'
  <2>1. ~probing /\ pc = "body" /\ mem.s = "running" /\ store.s = "running" /\ probing' = probing
    BY <1>5 DEF CompleteStep, RunStatus, InRoot
  <2>2. mem'.s = mem.s /\ store'.s = store.s
    <3>1. PICK d : d = SaveStepResult(mem, Top.key, v)
      OBVIOUS
    <3>2. FlushOk(d, TRUE) \/ FlushFails(d, TRUE)
      BY <1>5, <3>1 DEF CompleteStep
    <3>3. d.s = mem.s
      BY <1>1, <3>1, StatusOps
    <3>. QED
      BY <1>2, <2>1, <3>2, <3>3
  <2>3. pc' \in {"body", "catch"}
    BY <1>5, <2>1 DEF CompleteStep
  <2>. QED
    BY <2>1, <2>2, <2>3 DEF RunStatus
<1>6. ASSUME NEW kind, Throw(kind)
      PROVE  RunStatus'
  <2>1. /\ mem' = mem /\ store' = store /\ frames' = frames /\ probing' = probing
        /\ pc = "body" /\ pc' = IF Len(frames) = 1 THEN "caught" ELSE "catch"
    BY <1>6 DEF Throw, durable, context, InRoot
  <2>. QED
    BY <2>1 DEF RunStatus
<1>7. CASE ChargeFailure \/ Rethrow
  <2>1. /\ pc = "catch" /\ ~probing /\ mem.s = "running" /\ store.s = "running"
        /\ probing' = probing
    BY <1>7 DEF ChargeFailure, Rethrow, RunStatus
  <2>2. Len(frames) >= 2
    BY <2>1 DEF IInv, FramesInv
  <2>3. Front(frames) \in Seq(Frame) /\ Stack(Front(frames))
    BY <1>1, <2>2, FrontStack
  <2>4. CASE ChargeFailure
    <3>1. mem'.s = mem.s /\ store'.s = store.s
      <4>1. PICK d : d = IncrementStepRetryCount(mem, Top.key)
        OBVIOUS
      <4>2. FlushOk(d, TRUE) \/ FlushFails(d, TRUE)
        BY <2>4, <4>1 DEF ChargeFailure
      <4>3. d.s = mem.s
        BY <1>1, <4>1, StatusOps
      <4>. QED
        BY <1>2, <2>1, <4>2, <4>3
    <3>2. \E kind : Deliver(Front(frames), kind)
      BY <2>4 DEF ChargeFailure
    <3>. QED
      BY <2>1, <2>3, <3>1, <3>2, DeliverStatus
  <2>5. CASE Rethrow
    BY <2>1, <2>3, <2>5, DeliverStatus DEF Rethrow, durable
  <2>. QED
    BY <1>7, <2>4, <2>5
<1>. QED
  BY <1>4, <1>5, <1>6, <1>7 DEF Calls, Steps

(* The delivery, the attempts and the end of the body of run().            *)
LEMMA AttemptStatus ==
  ASSUME IInv, RunStatus,
         \/ Run \/ Cancel \/ BeginAttempt \/ ResumePublishing
         \/ ReturnDiverged \/ StoreResult \/ ReturnUnserializable \/ RetryStep \/ RetryWorkflow
  PROVE  RunStatus'
<1>1. mem \in State /\ store \in State
  BY DEF IInv, StateInv
<1>2. ASSUME NEW d, \E limited : FlushOk(d, limited) \/ FlushFails(d, limited)
      PROVE  mem' = d /\ store' \in {store, d}
  BY <1>2 DEF FlushOk, FlushFails
<1>3. CASE Run
  BY <1>3 DEF Run, RunStatus, durable, context
<1>4. CASE Cancel
  <2>1. store'.s = "cancelled" /\ mem' = store' /\ pc' = "idle" /\ outcome' = outcome
    BY <1>1, <1>4, StatusOps DEF Cancel
  <2>2. probing' = probing /\ ~probing /\ store.s = "pending" /\ pc = "idle"
    BY <1>4 DEF Cancel, context, RunStatus
  <2>. QED
    BY <2>1, <2>2 DEF RunStatus
<1>5. CASE BeginAttempt
  <2>1. PICK d : d = MarkRunning(mem)
    OBVIOUS
  <2>2. d.s = "running"
    BY <1>1, <2>1, StatusOps
  <2>3. /\ mem' = d /\ store' \in {store, d}
        /\ (pc' = "body" /\ store' = d) \/ pc' = "caught"
    BY <1>2, <1>5, <2>1 DEF BeginAttempt, FlushOk
  <2>4. ~probing /\ probing' = probing /\ store.s # "cancelled"
    BY <1>5 DEF BeginAttempt, RunStatus
  <2>. QED
    BY <2>2, <2>3, <2>4 DEF RunStatus
<1>6. CASE ResumePublishing \/ RetryStep \/ RetryWorkflow
  BY <1>6 DEF ResumePublishing, RetryStep, RetryWorkflow, RunStatus, durable, context
<1>7. CASE ReturnDiverged
  BY <1>7 DEF ReturnDiverged, CanReturn, RunStatus, durable, context
<1>8. CASE StoreResult
  <2>1. PICK d : d = MarkPublishingResult(mem, Top.obs)
    OBVIOUS
  <2>2. d.s = "completing"
    BY <1>1, <2>1, StatusOps
  <2>3. /\ mem' = d /\ store' \in {store, d}
        /\ (pc' = "publish" /\ store' = d) \/ pc' = "caught"
    BY <1>2, <1>8, <2>1 DEF StoreResult, FlushOk
  <2>4. ~probing /\ probing' = probing /\ pc = "body"
    BY <1>8 DEF StoreResult, CanReturn, context
  <2>. QED
    BY <2>2, <2>3, <2>4 DEF RunStatus
<1>9. CASE ReturnUnserializable
  <2>1. ~probing /\ probing' = probing /\ pc = "body" /\ pc' = "caught" /\ store' = store
    BY <1>9 DEF ReturnUnserializable, CanReturn, context, durable
  <2>. QED
    BY <2>1 DEF RunStatus
<1>. QED
  BY <1>3, <1>4, <1>5, <1>6, <1>7, <1>8, <1>9

(* The completion of the job, its failure, and the end of a run.           *)
LEMMA EndStatus ==
  ASSUME IInv, RunStatus,
         \/ Complete \/ Publish \/ Finalize \/ ReturnFromProbe
         \/ FailProbe \/ Park \/ Fail \/ HandleFailure \/ Crash
  PROVE  RunStatus'
<1>1. mem \in State /\ store \in State
  BY DEF IInv, StateInv
<1>2. ASSUME NEW how \in {"rejected", "delayed", "crashed"}, EndRun(how)
      PROVE  RunStatus'
  BY <1>2, RunEnds
<1>3. CASE Complete
  <2>1. PICK d : d = MarkCompleted(mem, Top.obs)
    OBVIOUS
  <2>2. d.s = "completed"
    BY <1>1, <2>1, StatusOps
  <2>3. CASE FlushOk(d, TRUE) /\ AfterCompletion
    BY <2>2, <2>3, RunCompletes DEF FlushOk
  <2>4. CASE FlushFails(d, TRUE) /\ pc' = "caught" /\ UNCHANGED <<context, failures, outcome>>
    <3>1. mem' = d /\ store' \in {store, d} /\ probing' = probing /\ ~probing
      BY <1>3, <2>4 DEF FlushFails, context, Complete
    <3>2. store.s = "running"
      BY <1>3, <3>1 DEF Complete, CanReturn, RunStatus
    <3>. QED
      BY <2>2, <2>4, <3>1, <3>2 DEF RunStatus
  <2>. QED
    BY <1>3, <2>1, <2>3, <2>4 DEF Complete
<1>4. CASE Publish
  <2>1. CASE pc' = "finalize" /\ UNCHANGED <<mem, context, failures, err, outcome, spent>>
    BY <1>4, <2>1 DEF Publish, RunStatus, context
  <2>. QED
    BY <1>2, <1>4, <2>1 DEF Publish
<1>5. CASE Finalize
  <2>1. PICK d : d = MarkCompletedFromStoredResult(mem)
    OBVIOUS
  <2>2. d.s = "completed"
    BY <1>1, <2>1, StatusOps
  <2>3. CASE FlushOk(d, FALSE) /\ AfterCompletion
    BY <2>2, <2>3, RunCompletes DEF FlushOk
  <2>. QED
    BY <1>2, <1>5, <2>1, <2>3 DEF Finalize
<1>6. CASE ReturnFromProbe
  <2>1. store' = store /\ store.s = "completed" /\ \E how : EndRun(how)
    BY <1>6 DEF ReturnFromProbe, durable, RunStatus
  <2>. QED
    BY <2>1, RunEnds
<1>7. CASE Fail
  <2>1. PICK d : d = MarkFailed(mem, err)
    OBVIOUS
  <2>2. d.s = "failed"
    BY <1>1, <2>1, StatusOps
  <2>3. CASE FlushOk(d, FALSE) /\ pc' = "failed" /\ UNCHANGED <<context, failures, err, outcome>>
    <3>1. mem' = d /\ store' = d /\ probing' = probing /\ ~probing
      BY <1>7, <2>3 DEF FlushOk, context, Fail
    <3>. QED
      BY <2>2, <2>3, <3>1 DEF RunStatus
  <2>. QED
    BY <1>2, <1>7, <2>1, <2>3 DEF Fail
<1>8. CASE FailProbe \/ Park \/ HandleFailure \/ Crash
  BY <1>2, <1>8 DEF FailProbe, Park, HandleFailure, Crash
<1>. QED
  BY <1>3, <1>4, <1>5, <1>6, <1>7, <1>8

(* The status that the job has in Redis and in memory fits the place of    *)
(* run(), in every reachable state.                                        *)
LEMMA NextRunStatus == IInv /\ RunStatus /\ [Next]_vars => RunStatus'
<1>. SUFFICES ASSUME IInv, RunStatus, [Next]_vars
              PROVE  RunStatus'
  OBVIOUS
<1>1. CASE UNCHANGED vars
  BY <1>1 DEF vars, RunStatus
<1>. QED
  BY <1>1, StepStatus, AttemptStatus, EndStatus DEF Next, Worker, Returning, Catching, Ended

LEMMA StatusInvariant == Spec => []RunStatus
<1>1. Init => RunStatus
  BY DEF Init, RunStatus, InitialState
<1>. QED
  BY <1>1, NextRunStatus, Invariant, PTL DEF Spec

(* The result is what run() computes when the values its calls returned    *)
(* are those in state d.                                                   *)
ResultKept(d, r) ==
  r # Undefined =>
    \A n \in 1 .. Len(r) :
      r[n] = Caught \/ \E k \in Key : k.path = <<n - 1>> /\ Keeps(d, k, r[n])

ResultInv ==
  ResultKept(store, store.r) /\ ResultKept(store, mem.r) /\ ResultKept(store, resultQ.result)

(* No step is around a call of run(): what Redis says of it stands.        *)
LEMMA RootCallsStay ==
  ASSUME NEW d, NEW f, Preserves(d, f), NEW k \in Key, NEW n \in Nat, k.path = <<n>>
  PROVE  \A v : Keeps(d, k, v) => Keeps(f, k, v)
<1>1. \A j \in Key : ~Below(j.path, k.path)
  <2>. SUFFICES ASSUME NEW j \in Key, Below(j.path, k.path)
                PROVE  FALSE
    OBVIOUS
  <2>1. j.path \in Seq(Nat) /\ k.path \in Seq(Nat) /\ j.path # <<>>
    BY StoreAssumption DEF StepKeys
  <2>2. Len(j.path) < Len(k.path) /\ Len(k.path) = 1
    BY <2>1, BelowPointwise
  <2>3. Len(j.path) # 0 /\ Len(j.path) \in Nat
    BY <2>1, EmptySeq
  <2>. QED
    BY <2>2, <2>3
<1>. QED
  BY <1>1 DEF Preserves, CachedKeys, Keeps, Superseded

(* So does a result.                                                       *)
LEMMA ResultsStay ==
  ASSUME NEW d, NEW f, Preserves(d, f), NEW r \in Seq(Observation) \cup {Undefined},
         ResultKept(d, r)
  PROVE  ResultKept(f, r)
<1>. SUFFICES ASSUME r # Undefined, NEW n \in 1 .. Len(r), r[n] # Caught
              PROVE  \E k \in Key : k.path = <<n - 1>> /\ Keeps(f, k, r[n])
  BY DEF ResultKept
<1>1. PICK k \in Key : k.path = <<n - 1>> /\ Keeps(d, k, r[n])
  BY DEF ResultKept
<1>2. PICK m \in Nat : m = n - 1
  OBVIOUS
<1>3. Keeps(f, k, r[n])
  BY <1>1, <1>2, RootCallsStay
<1>. QED
  BY <1>1, <1>3

(* What run() itself has got back when it returns.                         *)
LEMMA RootObserved ==
  ASSUME IInv, ReplayInv, CanReturn
  PROVE  ResultKept(store, Top.obs)
<1>1. /\ Len(frames) = 1 /\ Top = frames[1] /\ Top.obs \in Seq(Observation)
      /\ frames \in Seq(Frame) /\ Stack(frames) /\ Kept(store, frames, 1)
  BY TopType DEF CanReturn, InRoot, IInv, FramesInv, ControlType, ReplayInv, Replays
<1>. SUFFICES ASSUME NEW n \in 1 .. Len(Top.obs), Top.obs[n] # Caught
              PROVE  \E k \in Key : k.path = <<n - 1>> /\ Keeps(store, k, Top.obs[n])
  BY DEF ResultKept
<1>2. PICK m \in Nat : m = n - 1
  BY <1>1
<1>3. 1 \in 1 .. 1 /\ 1 \in 1 .. Len(frames)
  BY <1>1
<1>4. PICK k \in Key : Len(k.path) = 1 /\ InCall(frames, 1, m, k) /\ Keeps(store, k, Top.obs[n])
  BY <1>1, <1>2, <1>3 DEF Kept
<1>5. k.path = Append(frames[1].key.path, m)
  BY <1>1, <1>3, <1>4, CallPath
<1>6. frames[1].key.path = <<>>
  BY <1>1 DEF Stack, Root
<1>7. Append(<<>>, m) = <<m>>
  OBVIOUS
<1>. QED
  BY <1>2, <1>4, <1>5, <1>6, <1>7

(* The result queue is written once, with the stored result or a failure.  *)
LEMMA StepPublishes ==
  ASSUME [Next]_vars
  PROVE  \/ resultQ' = resultQ
         \/ /\ resultQ = NoResultJob /\ store' = store
            /\ \/ pc = "publish" /\ resultQ' = [status |-> "completed", result |-> mem.r]
               \/ /\ pc = "failed" /\ PublishOnFailure
                  /\ resultQ' = [status |-> "failed", result |-> Undefined]
<1>1. CASE Publish
  BY <1>1 DEF Publish, Enqueue
<1>2. CASE HandleFailure
  BY <1>2 DEF HandleFailure, Enqueue
<1>3. CASE \/ Run \/ Cancel \/ BeginAttempt \/ ResumePublishing \/ Calls \/ Steps
           \/ ReturnDiverged \/ Complete \/ StoreResult \/ ReturnUnserializable \/ ReturnFromProbe
           \/ Finalize \/ FailProbe \/ Park \/ RetryStep \/ RetryWorkflow \/ Fail \/ Crash
  BY <1>3 DEF Run, Cancel, BeginAttempt, ResumePublishing, Calls, Steps, ReplayStep, TraceStep,
     DivergeStep, CompleteStep, Throw, ChargeFailure, Rethrow, ReturnDiverged, Complete,
     StoreResult, ReturnUnserializable, ReturnFromProbe, Finalize, FailProbe, Park, RetryStep,
     RetryWorkflow, Fail, Crash, durable
<1>4. CASE UNCHANGED vars
  BY <1>4 DEF vars
<1>. QED
  BY <1>1, <1>2, <1>3, <1>4 DEF Next, Worker, Returning, Catching, Ended

(* Every result that is stored, in memory or published is one that run()   *)
(* returned, and the values it got from its calls are in Redis.            *)
LEMMA NextResults == IInv /\ IInv' /\ ReplayInv /\ ResultInv /\ [Next]_vars => ResultInv'
<1>. SUFFICES ASSUME IInv, IInv', ReplayInv, ResultInv, [Next]_vars
              PROVE  ResultInv'
  OBVIOUS
<1>1. Preserves(store, store')
  BY NextInv
<1>2. ResultKept(store, Undefined)
  BY DEF ResultKept
<1>3. CanReturn => ResultKept(store, Top.obs) /\ Top.obs \in Seq(Observation)
  BY RootObserved, TopType DEF CanReturn
<1>4. /\ mem.r \in Seq(Observation) \cup {Undefined}
      /\ store.r \in Seq(Observation) \cup {Undefined}
      /\ resultQ.result \in Seq(Observation) \cup {Undefined}
  BY DEF IInv, StateInv, State, ControlType
<1>5. ASSUME NEW r, \/ r \in {mem.r, store.r, resultQ.result, Undefined}
                    \/ CanReturn /\ r = Top.obs
      PROVE  ResultKept(store', r)
  <2>1. r \in Seq(Observation) \cup {Undefined} /\ ResultKept(store, r)
    BY <1>2, <1>3, <1>4, <1>5 DEF ResultInv
  <2>. QED
    BY <1>1, <2>1, ResultsStay
<1>6. PICK d : Writable(d) /\ store' \in {store, d} /\ mem' \in {d, store'}
  BY StepWrites
<1>7. d.r \in {mem.r, store.r, Undefined} \/ (CanReturn /\ d.r = Top.obs)
  BY <1>6 DEF Writable
<1>8. resultQ'.result \in {resultQ.result, mem.r, Undefined}
  BY StepPublishes
<1>9. store'.r \in {d.r, store.r} /\ mem'.r \in {d.r, store.r}
  BY <1>6
<1>. QED
  BY <1>5, <1>7, <1>8, <1>9 DEF ResultInv

-----------------------------------------------------------------------------
(* Results and the status *)

(* A status that stands for a result, or for a published one, comes with   *)
(* it.                                                                     *)
ResultStatus ==
  /\ store.s \in {"completing", "completed"} => store.r # Undefined
  /\ mem.s = "completing" => mem.r # Undefined
  /\ store.s = "completing" \/ mem.s = "completing" => Publishes
  /\ store.s = "completed" /\ Publishes => resultQ # NoResultJob
  /\ pc = "finalize" => resultQ # NoResultJob
  /\ resultQ.status = "none" => resultQ = NoResultJob
  /\ resultQ.status = "completed" => resultQ.result # Undefined
  /\ resultQ.status = "failed" => resultQ.result = Undefined /\ PublishOnFailure

(* When run() returns an unserializable value to an engine that publishes, *)
(* the status in memory says that a result is stored when there is none.   *)
ResultsSerialize == ~(Publishes /\ Unserializable)

(* A state that may be written as far as its result goes.                  *)
Resulting(d) ==
  /\ d.s \in {"completing", "completed"} => d.r # Undefined
  /\ d.s = "completing" => Publishes
  /\ d.s = "completed" /\ Publishes => resultQ # NoResultJob

(* Every step writes such a state.                                         *)
LEMMA StepResulting ==
  ASSUME ResultsSerialize, IInv, RunStatus, ResultStatus, [Next]_vars
  PROVE  /\ Resulting(store')
         /\ mem'.s = "completing" => mem'.r # Undefined /\ Publishes
<1>0. /\ mem \in State /\ store \in State /\ Resulting(store)
      /\ mem.s = "completing" => mem.r # Undefined /\ Publishes
  BY DEF IInv, StateInv, ResultStatus, Resulting
<1>1. ASSUME store' = store, mem' = mem \/ mem' = store'
      PROVE  Resulting(store') /\ (mem'.s = "completing" => mem'.r # Undefined /\ Publishes)
  BY <1>0, <1>1 DEF Resulting
<1>2. ASSUME NEW d, Resulting(d),
             \/ \E limited : FlushOk(d, limited) \/ FlushFails(d, limited)
             \/ store' \in {store, d} /\ mem' = store'
      PROVE  Resulting(store') /\ (mem'.s = "completing" => mem'.r # Undefined /\ Publishes)
  <2>1. store' \in {store, d} /\ mem' \in {d, store'}
    BY <1>2 DEF FlushOk, FlushFails
  <2>. QED
    BY <1>0, <1>2, <2>1 DEF Resulting
<1>3. \A how : EndRun(how) => mem' = store'
  BY DEF EndRun
<1>4. ASSUME NEW d, d.s \in {"running", "cancelled", "failed"}
      PROVE  Resulting(d)
  BY <1>4 DEF Resulting
<1>5. CASE Run \/ Cancel
  <2>1. CASE Run
    BY <1>1, <2>1 DEF Run, durable
  <2>2. CASE Cancel
    <3>1. Resulting(MarkCancelled(store))
      BY <1>0, <1>4, StatusOps
    <3>. QED
      BY <1>2, <2>2, <3>1 DEF Cancel
  <2>. QED
    BY <1>5, <2>1, <2>2
<1>6. CASE BeginAttempt
  <2>1. Resulting(MarkRunning(mem))
    BY <1>0, <1>4, StatusOps
  <2>. QED
    BY <1>2, <1>6, <2>1 DEF BeginAttempt
<1>7. ASSUME NEW k \in Key, ReplayStep(k) \/ TraceStep(k) \/ DivergeStep(k)
      PROVE  Resulting(store') /\ (mem'.s = "completing" => mem'.r # Undefined /\ Publishes)
  <2>1. CASE TraceStep(k)
    <3>1. mem.s = "running"
      BY <2>1 DEF TraceStep, RunStatus
    <3>2. Resulting(RecordStep(mem, k))
      BY <1>0, <1>4, <3>1, StatusOps
    <3>. QED
      BY <1>2, <2>1, <3>2 DEF TraceStep
  <2>2. CASE ReplayStep(k) \/ DivergeStep(k)
    BY <1>1, <2>2 DEF ReplayStep, DivergeStep, durable
  <2>. QED
    BY <1>7, <2>1, <2>2
<1>8. ASSUME NEW v \in Value \cup {Undefined}, CompleteStep(v)
      PROVE  Resulting(store') /\ (mem'.s = "completing" => mem'.r # Undefined /\ Publishes)
  <2>1. mem.s = "running"
    BY <1>8 DEF CompleteStep, RunStatus, InRoot
  <2>2. Resulting(SaveStepResult(mem, Top.key, v))
    BY <1>0, <1>4, <2>1, StatusOps
  <2>. QED
    BY <1>2, <1>8, <2>2 DEF CompleteStep
<1>9. CASE ChargeFailure
  <2>1. mem.s = "running"
    BY <1>9 DEF ChargeFailure, RunStatus
  <2>2. Resulting(IncrementStepRetryCount(mem, Top.key))
    BY <1>0, <1>4, <2>1, StatusOps
  <2>. QED
    BY <1>2, <1>9, <2>2 DEF ChargeFailure
<1>10. CASE Rethrow \/ \E kind \in {"error", "nonRetryable", "sleep"} : Throw(kind)
  BY <1>1, <1>10 DEF Rethrow, Throw, durable
<1>11. CASE ReturnDiverged \/ ReturnFromProbe \/ ResumePublishing
  BY <1>1, <1>3, <1>11 DEF ReturnDiverged, ReturnFromProbe, ResumePublishing, durable
<1>12. CanReturn => Top.obs # Undefined
  BY TopType, ResultsAreDefined DEF CanReturn
<1>13. CASE Complete
  <2>1. PICK r : r = Top.obs /\ r # Undefined /\ ~Publishes
    BY <1>12, <1>13 DEF Complete
  <2>2. Resulting(MarkCompleted(mem, r))
    BY <1>0, <2>1, StatusOps DEF Resulting
  <2>. QED
    BY <1>2, <1>13, <2>1, <2>2 DEF Complete
<1>14. CASE StoreResult
  <2>1. PICK r : r = Top.obs /\ r # Undefined /\ Publishes
    BY <1>12, <1>14 DEF StoreResult
  <2>2. Resulting(MarkPublishingResult(mem, r))
    BY <1>0, <2>1, StatusOps DEF Resulting
  <2>. QED
    BY <1>2, <1>14, <2>1, <2>2 DEF StoreResult
<1>15. CASE ReturnUnserializable
  <2>1. ~Publishes
    BY <1>15 DEF ReturnUnserializable, ResultsSerialize
  <2>2. store' = store /\ mem' = [mem EXCEPT !.s = "completed"]
    BY <1>15, <2>1 DEF ReturnUnserializable, durable
  <2>3. mem'.s = "completed"
    BY <1>0, <2>2 DEF State
  <2>. QED
    BY <1>0, <2>2, <2>3
<1>16. CASE Publish
  BY <1>1, <1>3, <1>16 DEF Publish
<1>17. CASE Finalize
  <2>1. mem.r # Undefined /\ resultQ # NoResultJob
    BY <1>17 DEF Finalize, RunStatus, ResultStatus
  <2>2. Resulting(MarkCompletedFromStoredResult(mem))
    BY <1>0, <2>1, StatusOps DEF Resulting
  <2>. QED
    BY <1>2, <1>3, <1>17, <2>2 DEF Finalize
<1>18. CASE Fail
  <2>1. Resulting(MarkFailed(mem, err))
    BY <1>0, <1>4, StatusOps
  <2>. QED
    BY <1>2, <1>3, <1>18, <2>1 DEF Fail
<1>19. CASE FailProbe \/ Park \/ RetryStep \/ RetryWorkflow \/ HandleFailure \/ Crash
  BY <1>1, <1>3, <1>19 DEF FailProbe, Park, RetryStep, RetryWorkflow, HandleFailure, Crash,
     durable
<1>20. CASE UNCHANGED vars
  BY <1>1, <1>20 DEF vars
<1>. QED
  BY <1>5, <1>6, <1>7, <1>8, <1>9, <1>10, <1>11, <1>13, <1>14, <1>15, <1>16, <1>17, <1>18,
     <1>19, <1>20
  DEF Next, Worker, Calls, Steps, Returning, Catching, Ended

(* A run that goes on to complete the job has published the result, or     *)
(* found another one there.                                                *)
LEMMA FinalizePublished ==
  ASSUME [Next]_vars, ResultStatus, pc' = "finalize"
  PROVE  resultQ' # NoResultJob
<1>1. \A x : [status |-> "completed", result |-> x] # NoResultJob
  BY DEF NoResultJob
<1>2. ASSUME Publish
      PROVE  resultQ' # NoResultJob
  BY <1>1, <1>2 DEF Publish, Enqueue, EndRun
<1>3. ASSUME ~Publish
      PROVE  pc = "finalize" /\ resultQ' = resultQ
  <2>1. AfterCompletion => pc' # "finalize"
    BY DEF AfterCompletion, EndRun
  <2>2. \A fs, kind : Deliver(fs, kind) => pc' # "finalize"
    BY DEF Deliver
  <2>3. \A how : ~EndRun(how)
    BY DEF EndRun
  <2>4. ASSUME NEW d, NEW k, Enter(d, k), pc = "body"
        PROVE  FALSE
    BY <2>2, <2>4 DEF Enter
  <2>5. ~Calls
    BY <2>2, <2>4 DEF Calls, ReplayStep, TraceStep, DivergeStep
  <2>6. ~Steps
    BY <2>2 DEF Steps, CompleteStep, Throw, ChargeFailure, Rethrow
  <2>7. ~(Returning \/ Catching \/ Crash)
    BY <1>3, <2>1, <2>3 DEF Returning, ReturnDiverged, Complete, StoreResult,
       ReturnUnserializable, ReturnFromProbe, Finalize, Catching, FailProbe, Park, RetryStep,
       RetryWorkflow, Fail, HandleFailure, Crash
  <2>8. ~(Run \/ Cancel \/ BeginAttempt \/ ResumePublishing)
    BY DEF Run, Cancel, BeginAttempt, ResumePublishing
  <2>9. UNCHANGED vars
    BY <2>5, <2>6, <2>7, <2>8 DEF Next, Worker, Ended
  <2>. QED
    BY <2>9 DEF vars
<1>. QED
  BY <1>2, <1>3 DEF ResultStatus

(* Every step keeps status and results together.                           *)
LEMMA NextResultStatus ==
  ASSUME ResultsSerialize
  PROVE  IInv /\ RunStatus /\ ResultStatus /\ [Next]_vars => ResultStatus'
<1>. SUFFICES ASSUME IInv, RunStatus, ResultStatus, [Next]_vars
              PROVE  ResultStatus'
  OBVIOUS
<1>1. /\ Resulting(store')
      /\ mem'.s = "completing" => mem'.r # Undefined /\ Publishes
  BY StepResulting
<1>2. resultQ # NoResultJob => resultQ' = resultQ
  BY StepPublishes
<1>3. pc' = "finalize" => resultQ' # NoResultJob
  BY FinalizePublished
<1>4. pc = "publish" => mem.r # Undefined
  BY DEF RunStatus, ResultStatus
<1>5. /\ resultQ'.status = "none" => resultQ' = NoResultJob
      /\ resultQ'.status = "completed" => resultQ'.result # Undefined
      /\ resultQ'.status = "failed" => resultQ'.result = Undefined /\ PublishOnFailure
  BY <1>4, StepPublishes DEF ResultStatus
<1>. QED
  BY <1>1, <1>2, <1>3, <1>5 DEF ResultStatus, Resulting

(* The invariants of status and results, of every reachable state.         *)
LEMMA ResultsInvariant ==
  ASSUME ResultsSerialize
  PROVE  Spec => [](IInv /\ ReplayInv /\ RunStatus /\ ResultInv /\ ResultStatus)
<1>1. Init => ReplayInv /\ ResultInv /\ ResultStatus
  <2>1. ResultKept(InitialState, Undefined)
    BY DEF ResultKept
  <2>. QED
    BY <2>1 DEF Init, ReplayInv, ResultInv, ResultStatus, InitialState, NoResultJob
<1>. QED
  BY <1>1, Invariant, NextInv, NextReplays, StatusInvariant, NextResults, NextResultStatus, PTL
  DEF Spec

-----------------------------------------------------------------------------
(* The engine is a durable execution *)

(* What a step of the engine, or a signal that comes when the job has      *)
(* ended, does to the status in Redis.                                     *)
StatusChange ==
  \/ store' = store
  \/ store'.s = "running" /\ store.s # "cancelled"
  \/ store'.s = "completing" /\ store.s \in {"running", "completing"}
  \/ store'.s = "completed" /\ store.s \in {"running", "completing", "completed"}
  \/ store'.s = "failed" /\ store.s # "cancelled" /\ store'.r = Undefined
  \/ store.s = "pending" /\ store' = MarkCancelled(store)

LEMMA StepChangesStatus ==
  ASSUME IInv, RunStatus, [Next]_vars
  PROVE  StatusChange
<1>0. mem \in State /\ store \in State
  BY DEF IInv, StateInv
<1>1. ASSUME NEW d, \/ \E limited : FlushOk(d, limited) \/ FlushFails(d, limited)
                    \/ store' \in {store, d}
      PROVE  store' \in {store, d}
  BY <1>1 DEF FlushOk, FlushFails
<1>2. CASE Run \/ Cancel
  BY <1>2 DEF Run, Cancel, durable, StatusChange
<1>3. CASE BeginAttempt
  <2>1. MarkRunning(mem).s = "running"
    BY <1>0, StatusOps
  <2>2. store' \in {store, MarkRunning(mem)} /\ store.s # "cancelled"
    BY <1>1, <1>3 DEF BeginAttempt, RunStatus
  <2>. QED
    BY <2>1, <2>2 DEF StatusChange
<1>4. ASSUME NEW k \in Key, ReplayStep(k) \/ TraceStep(k) \/ DivergeStep(k)
      PROVE  StatusChange
  <2>1. CASE TraceStep(k)
    <3>1. mem.s = "running" /\ store.s = "running"
      BY <2>1 DEF TraceStep, RunStatus
    <3>2. RecordStep(mem, k).s = "running"
      BY <1>0, <3>1, StatusOps
    <3>3. store' \in {store, RecordStep(mem, k)}
      BY <1>1, <2>1 DEF TraceStep
    <3>. QED
      BY <3>1, <3>2, <3>3 DEF StatusChange
  <2>2. CASE ReplayStep(k) \/ DivergeStep(k)
    BY <2>2 DEF ReplayStep, DivergeStep, durable, StatusChange
  <2>. QED
    BY <1>4, <2>1, <2>2
<1>5. ASSUME NEW v \in Value \cup {Undefined}, CompleteStep(v)
      PROVE  StatusChange
  <2>1. mem.s = "running" /\ store.s = "running"
    BY <1>5 DEF CompleteStep, RunStatus, InRoot
  <2>2. SaveStepResult(mem, Top.key, v).s = "running"
    BY <1>0, <2>1, StatusOps
  <2>3. store' \in {store, SaveStepResult(mem, Top.key, v)}
    BY <1>1, <1>5 DEF CompleteStep
  <2>. QED
    BY <2>1, <2>2, <2>3 DEF StatusChange
<1>6. CASE ChargeFailure
  <2>1. mem.s = "running" /\ store.s = "running"
    BY <1>6 DEF ChargeFailure, RunStatus
  <2>2. IncrementStepRetryCount(mem, Top.key).s = "running"
    BY <1>0, <2>1, StatusOps
  <2>3. store' \in {store, IncrementStepRetryCount(mem, Top.key)}
    BY <1>1, <1>6 DEF ChargeFailure
  <2>. QED
    BY <2>1, <2>2, <2>3 DEF StatusChange
<1>7. CASE Complete
  <2>1. PICK r : r = Top.obs
    OBVIOUS
  <2>2. MarkCompleted(mem, r).s = "completed"
    BY <1>0, StatusOps
  <2>3. store.s = "running" /\ store' \in {store, MarkCompleted(mem, r)}
    BY <1>1, <1>7, <2>1 DEF Complete, CanReturn, RunStatus
  <2>. QED
    BY <2>2, <2>3 DEF StatusChange
<1>8. CASE StoreResult
  <2>1. PICK r : r = Top.obs
    OBVIOUS
  <2>2. MarkPublishingResult(mem, r).s = "completing"
    BY <1>0, StatusOps
  <2>3. store.s = "running" /\ store' \in {store, MarkPublishingResult(mem, r)}
    BY <1>1, <1>8, <2>1 DEF StoreResult, CanReturn, RunStatus
  <2>. QED
    BY <2>2, <2>3 DEF StatusChange
<1>9. CASE Finalize
  <2>1. MarkCompletedFromStoredResult(mem).s = "completed"
    BY <1>0, StatusOps
  <2>2. store' \in {store, MarkCompletedFromStoredResult(mem)}
    BY <1>1, <1>9 DEF Finalize
  <2>3. store.s \in {"running", "completing"}
    BY <1>9 DEF Finalize, RunStatus
  <2>. QED
    BY <2>1, <2>2, <2>3 DEF StatusChange
<1>10. CASE Fail
  <2>1. MarkFailed(mem, err).s = "failed" /\ MarkFailed(mem, err).r = Undefined
    BY <1>0, StatusOps
  <2>2. store' \in {store, MarkFailed(mem, err)} /\ store.s # "cancelled"
    BY <1>1, <1>10 DEF Fail, RunStatus
  <2>. QED
    BY <2>1, <2>2 DEF StatusChange
<1>11. CASE \/ ResumePublishing \/ Rethrow \/ ReturnDiverged \/ ReturnUnserializable
            \/ \E kind \in {"error", "nonRetryable", "sleep"} : Throw(kind)
            \/ ReturnFromProbe \/ Publish \/ FailProbe \/ Park \/ RetryStep \/ RetryWorkflow
            \/ HandleFailure \/ Crash
  BY <1>11 DEF ResumePublishing, Rethrow, ReturnDiverged, ReturnUnserializable, Throw,
     ReturnFromProbe, Publish, FailProbe, Park, RetryStep, RetryWorkflow, HandleFailure, Crash,
     durable, StatusChange
<1>12. CASE UNCHANGED vars
  BY <1>12 DEF vars, StatusChange
<1>. QED
  BY <1>2, <1>3, <1>4, <1>5, <1>6, <1>7, <1>8, <1>9, <1>10, <1>11, <1>12
  DEF Next, Worker, Calls, Steps, Returning, Catching, Ended

(* The log of decided steps only grows.                                    *)
LEMMA LogGrows ==
  ASSUME store \in State, store' \in State, Preserves(store, store')
  PROVE  Durable!Grows
<1>1. ASSUME NEW d \in State, NEW k \in Key, Cached(d, k)
      PROVE  StepResult(d, k) \in Value \cup {Undefined} /\ StepResult(d, k) # Absent
  <2>1. StepResult(d, k) \in Value \cup {Undefined}
    BY <1>1 DEF State, Cached, StepResult
  <2>. QED
    BY <2>1, StoreAssumption
<1>2. Log' \in [Key -> Value \cup {Undefined, Absent}]
  BY <1>1 DEF Log
<1>3. ASSUME NEW k \in Key, Log[k] # Absent
      PROVE  Log'[k] = Log[k] \/ Durable!Replaced(Log', k)
  <2>1. Cached(store, k) /\ Log[k] = StepResult(store, k)
    BY <1>3 DEF Log
  <2>2. CASE Keeps(store', k, StepResult(store, k))
    BY <2>1, <2>2 DEF Keeps, Log
  <2>3. CASE Superseded(store', k)
    <3>1. PICK j \in Key : Cached(store', j) /\ Below(j.path, k.path)
      BY <2>3 DEF Superseded, CachedKeys
    <3>2. Log'[j] # Absent
      BY <1>1, <3>1 DEF Log
    <3>. QED
      BY <3>1, <3>2
      DEF Below, IsStrictPrefix, IsPrefix, Durable!Replaced, Durable!IsStrictPrefix,
          Durable!IsPrefix
  <2>. QED
    BY <2>1, <2>2, <2>3 DEF Preserves, CachedKeys
<1>. QED
  BY <1>2, <1>3 DEF Durable!Grows

(* A result whose values are in Redis replays from the log.                *)
LogOf(d) == [k \in Key |-> IF Cached(d, k) THEN StepResult(d, k) ELSE Absent]

LEMMA ResultReplays ==
  ASSUME NEW d, NEW r \in Seq(Observation) \cup {Undefined}, ResultKept(d, r), r # Undefined
  PROVE  Durable!ReplaysTo(LogOf(d), r)
<1>. SUFFICES ASSUME NEW n \in DOMAIN r, r[n] # Caught
              PROVE  \E k \in Key : k.path = <<n - 1>> /\ LogOf(d)[k] = r[n]
  BY DEF Durable!ReplaysTo
<1>1. n \in 1 .. Len(r)
  OBVIOUS
<1>2. PICK k \in Key : k.path = <<n - 1>> /\ Keeps(d, k, r[n])
  BY <1>1 DEF ResultKept
<1>3. Cached(d, k) /\ StepResult(d, k) = r[n]
  BY <1>2 DEF Keeps
<1>4. LogOf(d)[k] = StepResult(d, k)
  BY <1>3 DEF LogOf
<1>. QED
  BY <1>2, <1>3, <1>4

(* A step that leaves the queue alone is a step of the durable execution.  *)
LEMMA WriteRefines ==
  ASSUME IInv, IInv', ResultStatus, ResultInv', ResultStatus', StatusChange,
         Preserves(store, store'), resultQ' = resultQ
  PROVE  [Durable!Next]_(Durable!vars)
<1>1. store \in State /\ store' \in State
  BY DEF IInv, StateInv
<1>2. Durable!Grows
  BY <1>1, LogGrows
<1>3. store'.r = Undefined \/ Durable!ReplaysTo(Log', store'.r)
  <2>1. Log' = LogOf(store')
    BY DEF Log, LogOf
  <2>2. store'.r \in Seq(Observation) \cup {Undefined} /\ ResultKept(store', store'.r)
    BY <1>1 DEF State, ResultInv
  <2>3. store'.r # Undefined => Durable!ReplaysTo(LogOf(store'), store'.r)
    BY <2>2, ResultReplays
  <2>. QED
    BY <2>1, <2>3
<1>4. store'.s \in {"completing", "completed"} => store'.r # Undefined
  BY DEF ResultStatus
<1>5. CASE store' = store
  BY <1>5 DEF Durable!vars, Log
<1>6. CASE store'.s = "running" /\ store.s # "cancelled"
  BY <1>2, <1>3, <1>6 DEF Durable!Next, Durable!Advance
<1>7. CASE store'.s = "completing" /\ store.s \in {"running", "completing"}
  <2>1. Publishes
    BY <1>7 DEF ResultStatus
  <2>. QED
    BY <1>2, <1>3, <1>4, <1>7, <2>1 DEF Durable!Next, Durable!StoreResult
<1>8. CASE store'.s = "completed" /\ store.s \in {"running", "completing", "completed"}
  <2>1. Publishes => resultQ # NoResultJob
    BY <1>8 DEF ResultStatus
  <2>. QED
    BY <1>2, <1>3, <1>4, <1>8, <2>1 DEF Durable!Next, Durable!Complete, Durable!None, NoResultJob
<1>9. CASE store'.s = "failed" /\ store.s # "cancelled" /\ store'.r = Undefined
  BY <1>2, <1>9 DEF Durable!Next, Durable!Fail
<1>10. CASE store.s = "pending" /\ store' = MarkCancelled(store)
  <2>1. store'.s = "cancelled" /\ store'.r = Undefined
    BY <1>1, <1>10, StatusOps
  <2>2. store'.c = store.c /\ store'.u = store.u
    BY <1>1, <1>10, UncachingOps
  <2>3. Log' = Log
    BY <2>2 DEF Log, Cached, StepResult
  <2>. QED
    BY <1>10, <2>1, <2>3 DEF Durable!Next, Durable!Cancel
<1>. QED
  BY <1>5, <1>6, <1>7, <1>8, <1>9, <1>10 DEF StatusChange

(* A new job is one of the abstract specification.                         *)
LEMMA InitRefines == Init => Durable!Init
<1>. SUFFICES ASSUME Init
              PROVE  Durable!Init
  OBVIOUS
<1>1. \A k \in Key : ~Cached(store, k)
  BY DEF Init, InitialState, Cached
<1>2. Log = [k \in Key |-> Absent]
  BY <1>1 DEF Log
<1>3. store.s = "pending" /\ store.r = Undefined
  BY DEF Init, InitialState
<1>4. resultQ = Durable!None
  BY DEF Init, NoResultJob, Durable!None
<1>. QED
  BY <1>2, <1>3, <1>4 DEF Durable!Init

(* What every step keeps, and the refinement rests on.                     *)
DurableInv == IInv /\ ReplayInv /\ RunStatus /\ ResultInv /\ ResultStatus

(* Every step of the engine is a step of the durable execution.            *)
LEMMA StepRefines == DurableInv /\ DurableInv' /\ [Next]_vars => [Durable!Next]_(Durable!vars)
<1>. SUFFICES ASSUME DurableInv, DurableInv', [Next]_vars
              PROVE  [Durable!Next]_(Durable!vars)
  OBVIOUS
<1>. USE DEF DurableInv
<1>1. StatusChange /\ Preserves(store, store')
  BY StepChangesStatus, NextInv
<1>2. CASE resultQ' = resultQ
  BY <1>1, <1>2, WriteRefines
<1>3. CASE resultQ' # resultQ
  <2>1. /\ resultQ = NoResultJob /\ store' = store
        /\ \/ pc = "publish" /\ resultQ' = [status |-> "completed", result |-> mem.r]
           \/ /\ pc = "failed" /\ PublishOnFailure
              /\ resultQ' = [status |-> "failed", result |-> Undefined]
    BY <1>3, StepPublishes
  <2>2. Durable!None = NoResultJob /\ Log' = Log
    BY <2>1 DEF Durable!None, NoResultJob, Log
  <2>3. CASE pc = "publish" /\ resultQ' = [status |-> "completed", result |-> mem.r]
    <3>1. /\ mem.r # Undefined /\ store.s \in {"running", "completing"} /\ Publishes
      BY <2>3 DEF RunStatus, ResultStatus
    <3>2. mem.r \in Seq(Observation) \cup {Undefined} /\ ResultKept(store, mem.r)
      BY DEF IInv, StateInv, State, ResultInv
    <3>3. Durable!ReplaysTo(Log, mem.r)
      BY <3>1, <3>2, ResultReplays DEF Log, LogOf
    <3>. QED
      BY <2>1, <2>2, <2>3, <3>1, <3>3 DEF Durable!Next, Durable!Publish
  <2>4. CASE pc = "failed" /\ PublishOnFailure
              /\ resultQ' = [status |-> "failed", result |-> Undefined]
    <3>1. store.s = "failed" /\ Publishes
      BY <2>4, EngineAssumption DEF RunStatus
    <3>. QED
      BY <2>1, <2>2, <2>4, <3>1 DEF Durable!Next, Durable!Publish
  <2>. QED
    BY <2>1, <2>3, <2>4
<1>. QED
  BY <1>2, <1>3

(* The engine, whatever crashes, retries, reruns and lost writes it takes, *)
(* is a durable execution: a log of decided steps that only grows, a       *)
(* result that replays from it, and at most one published result.          *)
THEOREM EngineIsDurable ==
  ASSUME ResultsSerialize
  PROVE  Spec => DurableJob
<1>1. Spec => []DurableInv
  BY ResultsInvariant DEF DurableInv
<1>. QED
  BY <1>1, InitRefines, StepRefines, PTL DEF Spec, DurableJob, Durable!Spec

-----------------------------------------------------------------------------
(* One result *)

(* A deterministic run(): one call at each place, a fixed number of calls, *)
(* and no try/catch around them.                                           *)
OneResult ==
  /\ Root \notin Catches
  /\ \E m \in Nat : Returns[Root] = {m}
  /\ \A j, k \in Key : Len(j.path) = 1 /\ j.path = k.path => j = k

(* run() has seen no error.                                                *)
Uncaught(fs) == \A n \in 1 .. Len(fs[1].obs) : fs[1].obs[n] # Caught

(* A result is made of all calls of run(), and of nothing else.            *)
ExactResult(r) ==
  r # Undefined => Len(r) \in Returns[Root] /\ \A n \in 1 .. Len(r) : r[n] # Caught

ExactInv ==
  /\ ExactResult(store.r) /\ ExactResult(mem.r) /\ ExactResult(resultQ.result)
  /\ pc \in {"body", "catch"} => Uncaught(frames)

LEMMA UncaughtObserved ==
  ASSUME NEW fs \in Seq(Frame), Stack(fs), Uncaught(fs), NEW v \in Observation,
         Len(fs) = 1 => v # Caught
  PROVE  Uncaught(Observed(fs, v))
<1>. DEFINE g == Observed(fs, v)
<1>1. /\ g[Len(fs)].obs = Append(fs[Len(fs)].obs, v)
      /\ \A i \in 1 .. Len(fs) - 1 : g[i] = fs[i]
  BY ObservedFrames
<1>2. Len(fs) \in Nat /\ Len(fs) >= 1 /\ fs[1].obs \in Seq(Observation)
  <2>1. Len(fs) \in Nat /\ Len(fs) >= 1 /\ \A i \in 1 .. Len(fs) : fs[i] \in Frame
    BY FrameOfStack
  <2>2. fs[1] \in Frame
    BY <2>1
  <2>. QED
    BY <2>1, <2>2 DEF Frame
<1>. HIDE DEF g
<1>3. CASE Len(fs) = 1
  <2>1. g[1].obs = Append(fs[1].obs, v)
    BY <1>1, <1>3
  <2>2. ASSUME NEW n \in 1 .. Len(g[1].obs)
        PROVE  g[1].obs[n] # Caught
    <3>1. CASE n \in 1 .. Len(fs[1].obs)
      <4>1. g[1].obs[n] = fs[1].obs[n]
        BY <1>2, <2>1, <3>1
      <4>. QED
        BY <3>1, <4>1 DEF Uncaught
    <3>2. CASE n \notin 1 .. Len(fs[1].obs)
      <4>1. g[1].obs[n] = v
        BY <1>2, <2>1, <3>2
      <4>. QED
        BY <1>3, <4>1
    <3>. QED
      BY <3>1, <3>2
  <2>. QED
    BY <2>2 DEF Uncaught, g
<1>4. CASE Len(fs) # 1
  <2>1. 1 \in 1 .. Len(fs) - 1
    <3>1. \A n \in Nat : n >= 1 /\ n # 1 => 1 \in 1 .. n - 1
      OBVIOUS
    <3>. QED
      BY <1>2, <1>4, <3>1
  <2>2. g[1] = fs[1]
    BY <1>1, <2>1
  <2>. QED
    BY <2>2 DEF Uncaught, g
<1>. QED
  BY <1>3, <1>4

LEMMA UncaughtFront ==
  ASSUME NEW fs \in Seq(Frame), Stack(fs), Uncaught(fs), Len(fs) >= 2
  PROVE  Uncaught(Front(fs))
<1>1. Len(fs) \in Nat /\ \A i \in 1 .. Len(fs) - 1 : Front(fs)[i] = fs[i]
  BY FrontStack, FrameOfStack
<1>2. 1 \in 1 .. Len(fs) - 1
  BY <1>1
<1>3. Front(fs)[1] = fs[1]
  BY <1>1, <1>2
<1>. QED
  BY <1>3 DEF Uncaught

(* An error reaches run() in no other way than through its own try/catch.  *)
LEMMA DeliverUncaught ==
  ASSUME Root \notin Catches, NEW fs \in Seq(Frame), Stack(fs), Uncaught(fs),
         NEW kind, Deliver(fs, kind)
  PROVE  Uncaught(frames')
<1>1. CASE Last(fs).key \in Catches
  <2>1. frames' = Observed(fs, Caught) /\ Caught \in Observation
    BY <1>1 DEF Deliver, Observation
  <2>2. Len(fs) # 1
    <3>1. Len(fs) = 1 => Last(fs) = fs[1]
      BY DEF Last
    <3>. QED
      BY <1>1, <3>1 DEF Stack
  <2>. QED
    BY <2>1, <2>2, UncaughtObserved
<1>2. CASE Last(fs).key \notin Catches
  BY <1>2 DEF Deliver
<1>. QED
  BY <1>1, <1>2

LEMMA NextUncaught ==
  ASSUME Root \notin Catches, IInv, IInv', pc \in {"body", "catch"} => Uncaught(frames),
         [Next]_vars
  PROVE  pc' \in {"body", "catch"} => Uncaught(frames')
<1>0. /\ pc \in {"body", "catch"} => frames \in Seq(Frame) /\ Stack(frames)
      /\ pc = "catch" => Len(frames) >= 2
      /\ mem' \in State
  BY DEF IInv, FramesInv, ControlType, StateInv
<1>1. ASSUME pc = "body", NEW k \in Callable(Top), Enter(mem', k)
      PROVE  Uncaught(frames')
  <2>1. CASE Cached(mem', k)
    <3>1. frames' = Observed(frames, StepResult(mem', k))
      BY <1>1, <2>1 DEF Enter
    <3>2. StepResult(mem', k) \in Observation /\ StepResult(mem', k) # Caught
      <4>1. k \in Key
        BY DEF Callable
      <4>2. StepResult(mem', k) \in Value \cup {Undefined}
        BY <1>0, <2>1, <4>1 DEF State, Cached, StepResult
      <4>. QED
        BY <4>2, StoreAssumption DEF Observation
    <3>. QED
      BY <1>0, <1>1, <3>1, <3>2, UncaughtObserved
  <2>2. CASE ~Cached(mem', k) /\ probing
    BY <1>0, <1>1, <2>2, DeliverUncaught DEF Enter
  <2>3. CASE ~Cached(mem', k) /\ ~probing
    <3>1. frames' = Append(frames, [key |-> k, obs |-> <<>>])
      BY <1>1, <2>3 DEF Enter
    <3>2. Len(frames) \in Nat /\ Len(frames) >= 1
      BY <1>0, <1>1, FrameOfStack
    <3>3. frames'[1] = frames[1]
      BY <1>0, <1>1, <3>1, <3>2
    <3>. QED
      BY <1>1, <3>3 DEF Uncaught
  <2>. QED
    BY <2>1, <2>2, <2>3
<1>2. CASE Calls
  <2>1. PICK k \in Key : ReplayStep(k) \/ TraceStep(k) \/ DivergeStep(k)
    BY <1>2 DEF Calls
  <2>2. pc = "body" /\ k \in Callable(Top) /\ (Enter(mem', k) \/ \E kind : Deliver(frames, kind))
    BY <2>1 DEF ReplayStep, TraceStep, DivergeStep, FlushOk
  <2>. QED
    BY <1>0, <1>1, <2>2, DeliverUncaught
<1>3. ASSUME NEW v \in Value \cup {Undefined}, CompleteStep(v)
      PROVE  Uncaught(frames')
  <2>1. pc = "body" /\ Len(frames) # 1 /\ frames' \in {frames, Observed(Front(frames), v)}
    BY <1>3 DEF CompleteStep, InRoot
  <2>2. Len(frames) >= 2
    <3>1. \A n \in Nat : n >= 1 /\ n # 1 => n >= 2
      OBVIOUS
    <3>. QED
      BY <1>0, <2>1, <3>1, FrameOfStack
  <2>3. Front(frames) \in Seq(Frame) /\ Stack(Front(frames)) /\ Uncaught(Front(frames))
    BY <1>0, <2>1, <2>2, FrontStack, UncaughtFront
  <2>4. v \in Observation /\ v # Caught
    BY StoreAssumption DEF Observation
  <2>5. Uncaught(Observed(Front(frames), v))
    BY <2>3, <2>4, UncaughtObserved
  <2>. QED
    BY <2>1, <2>5
<1>4. CASE ChargeFailure \/ Rethrow
  <2>1. pc = "catch" /\ \E kind : Deliver(Front(frames), kind)
    BY <1>4 DEF ChargeFailure, Rethrow
  <2>2. Front(frames) \in Seq(Frame) /\ Stack(Front(frames)) /\ Uncaught(Front(frames))
    BY <1>0, <2>1, FrontStack, UncaughtFront
  <2>. QED
    BY <2>1, <2>2, DeliverUncaught
<1>5. CASE \E kind \in {"error", "nonRetryable", "sleep"} : Throw(kind)
  BY <1>5 DEF Throw, context
<1>6. CASE UNCHANGED vars
  BY <1>6 DEF vars, Uncaught
<1>7. CASE pc' \notin {"body", "catch"}
  BY <1>7
<1>8. CASE frames' = RootFrames
  BY <1>8 DEF RootFrames, Uncaught
<1>9. \A how : EndRun(how) => pc' = "idle"
  BY DEF EndRun
<1>10. AfterCompletion => pc' = "idle" \/ frames' = RootFrames
  BY <1>9 DEF AfterCompletion
<1>11. CASE Run \/ Cancel \/ ResumePublishing \/ Catching \/ Crash
  BY <1>7, <1>9, <1>11 DEF Run, Cancel, ResumePublishing, Catching, FailProbe, Park, RetryStep,
     RetryWorkflow, Fail, HandleFailure, Crash
<1>12. CASE BeginAttempt
  BY <1>7, <1>8, <1>12 DEF BeginAttempt
<1>13. CASE ReturnDiverged \/ StoreResult \/ ReturnUnserializable \/ ReturnFromProbe \/ Publish
  BY <1>7, <1>9, <1>13 DEF ReturnDiverged, StoreResult, ReturnUnserializable, ReturnFromProbe,
     Publish
<1>14. CASE Complete \/ Finalize
  BY <1>7, <1>8, <1>9, <1>10, <1>14 DEF Complete, Finalize
<1>. QED
  BY <1>2, <1>3, <1>4, <1>5, <1>6, <1>11, <1>12, <1>13, <1>14
  DEF Next, Worker, Steps, Returning, Ended

LEMMA NextExact ==
  ASSUME OneResult, IInv, IInv', ExactInv, [Next]_vars
  PROVE  ExactInv'
<1>1. ExactResult(Undefined)
  BY DEF ExactResult
<1>2. CanReturn => ExactResult(Top.obs)
  <2>. SUFFICES ASSUME CanReturn
                PROVE  ExactResult(Top.obs)
    OBVIOUS
  <2>1. Len(frames) = 1 /\ Len(Top.obs) \in Returns[Root] /\ Uncaught(frames)
    BY DEF CanReturn, InRoot, ExactInv
  <2>2. Top = frames[1]
    BY <2>1 DEF Top, Last
  <2>. QED
    BY <2>1, <2>2 DEF ExactResult, Uncaught
<1>3. ASSUME NEW r, \/ r \in {mem.r, store.r, resultQ.result, Undefined}
                    \/ CanReturn /\ r = Top.obs
      PROVE  ExactResult(r)
  BY <1>1, <1>2, <1>3 DEF ExactInv
<1>4. PICK d : Writable(d) /\ store' \in {store, d} /\ mem' \in {d, store'}
  BY StepWrites
<1>5. d.r \in {mem.r, store.r, Undefined} \/ (CanReturn /\ d.r = Top.obs)
  BY <1>4 DEF Writable
<1>6. resultQ'.result \in {resultQ.result, mem.r, Undefined}
  BY StepPublishes
<1>7. store'.r \in {d.r, store.r} /\ mem'.r \in {d.r, store.r}
  BY <1>4
<1>8. ExactResult(store'.r) /\ ExactResult(mem'.r) /\ ExactResult(resultQ'.result)
  BY <1>3, <1>5, <1>6, <1>7
<1>9. pc' \in {"body", "catch"} => Uncaught(frames')
  BY NextUncaught DEF OneResult, ExactInv
<1>. QED
  BY <1>8, <1>9 DEF ExactInv

(* Two results of a deterministic run() that replay from the same state    *)
(* are equal.                                                              *)
LEMMA SameResult ==
  ASSUME OneResult, NEW d, NEW r \in Seq(Observation), NEW q \in Seq(Observation),
         ResultKept(d, r), ResultKept(d, q), ExactResult(r), ExactResult(q)
  PROVE  r = q
<1>1. r # Undefined /\ q # Undefined
  BY ResultsAreDefined
<1>2. PICK m \in Nat : Returns[Root] = {m}
  BY DEF OneResult
<1>3. Len(r) = m /\ Len(q) = m
  BY <1>1, <1>2 DEF ExactResult
<1>4. ASSUME NEW n \in 1 .. m
      PROVE  r[n] = q[n]
  <2>1. r[n] # Caught /\ q[n] # Caught
    BY <1>1, <1>3 DEF ExactResult
  <2>2. PICK j \in Key : j.path = <<n - 1>> /\ Keeps(d, j, r[n])
    BY <1>1, <1>3, <2>1 DEF ResultKept
  <2>3. PICK k \in Key : k.path = <<n - 1>> /\ Keeps(d, k, q[n])
    BY <1>1, <1>3, <2>1 DEF ResultKept
  <2>4. Len(j.path) = 1
    BY <2>2
  <2>5. j = k
    BY <2>2, <2>3, <2>4 DEF OneResult
  <2>. QED
    BY <2>2, <2>3, <2>5 DEF Keeps
<1>. QED
  BY <1>3, <1>4, SeqEqual

LEMMA ExactInvariant ==
  ASSUME OneResult
  PROVE  Spec => []ExactInv
<1>1. Init => ExactInv
  BY DEF Init, ExactInv, ExactResult, InitialState, NoResultJob
<1>2. IInv /\ IInv' /\ ExactInv /\ [Next]_vars => ExactInv'
  BY NextExact
<1>. QED
  BY <1>1, <1>2, Invariant, PTL DEF Spec

(* A completed workflow has published its result, and the result that was  *)
(* published first stays its result, although finalizePublishingResult may *)
(* be cut off between its writes and a rerun computes the result again;    *)
(* only a failure that an earlier run published stands in its way.         *)
THEOREM CompletedJobsArePublished ==
  ASSUME OneResult, ResultsSerialize
  PROVE  Spec => []CompletedIsPublished
<1>. DEFINE I == IInv /\ ReplayInv /\ RunStatus /\ ResultInv /\ ResultStatus
<1>1. I /\ ExactInv => CompletedIsPublished
  <2>. SUFFICES ASSUME I, ExactInv
                PROVE  CompletedIsPublished
    OBVIOUS
  <2>1. pc = "idle" /\ outcome = "resolved" => store.s = "completed"
    BY DEF RunStatus
  <2>2. ASSUME Publishes, store.s = "completed"
        PROVE  \/ resultQ = [status |-> "completed", result |-> store.r]
               \/ PublishOnFailure /\ resultQ = [status |-> "failed", result |-> Undefined]
    <3>1. resultQ \in [status : {"none", "completed", "failed"},
                       result : Seq(Observation) \cup {Undefined}]
      BY DEF IInv, ControlType
    <3>2. resultQ = [status |-> resultQ.status, result |-> resultQ.result]
      BY <3>1
    <3>3. resultQ.status # "none" /\ store.r # Undefined
      BY <2>2 DEF ResultStatus
    <3>4. CASE resultQ.status = "completed"
      <4>1. resultQ.result # Undefined
        BY <3>4 DEF ResultStatus
      <4>2. resultQ.result \in Seq(Observation) /\ store.r \in Seq(Observation)
        BY <3>1, <3>3, <4>1 DEF IInv, StateInv, State
      <4>3. resultQ.result = store.r
        BY <4>2, SameResult DEF ResultInv, ExactInv
      <4>. QED
        BY <3>2, <3>4, <4>3
    <3>5. CASE resultQ.status = "failed"
      <4>1. resultQ.result = Undefined /\ PublishOnFailure
        BY <3>5 DEF ResultStatus
      <4>. QED
        BY <3>2, <3>5, <4>1
    <3>. QED
      BY <3>1, <3>3, <3>4, <3>5
  <2>. QED
    BY <2>1, <2>2 DEF CompletedIsPublished
<1>. QED
  BY <1>1, ResultsInvariant, ExactInvariant, PTL

-----------------------------------------------------------------------------
(* Determinism *)

(* A deterministic workflow: one call at each place, none where the body   *)
(* may return, and no try/catch that would let it go on elsewhere.         *)
Deterministic ==
  /\ OneStepPerPlace
  /\ Catches = {}
  /\ \A b \in Body, k \in Key : \A n \in Returns[b] : k.path # Append(b.path, n)

(* The body at the first n indices of the path p may return after x calls. *)
Ends(p, n, x) ==
  \E b \in Body : /\ Len(b.path) = n /\ \A m \in 1 .. n : b.path[m] = p[m]
                  /\ x \in Returns[b]

(* p is the last place that a body at q comes to, with all it calls.       *)
LastUnder(p, q) ==
  /\ Len(q) <= Len(p) /\ \A m \in 1 .. Len(q) : p[m] = q[m]
  /\ Ends(p, Len(p), 0)
  /\ \A m \in Len(q) .. Len(p) - 1 : Ends(p, m, p[m + 1] + 1)

Sibling(q) == [q EXCEPT ![Len(q)] = q[Len(q)] - 1]

(* The call q comes next after the place p.                                *)
Follows(p, q) ==
  IF q[Len(q)] = 0 THEN q = Append(p, 0) ELSE LastUnder(p, Sibling(q))

Place(t, n) == IF n = 0 THEN <<>> ELSE t[n].path

(* A trace goes from each place to one that follows, and to none twice.    *)
Walk(t) ==
  /\ \A n \in 0 .. Len(t) - 1 : Follows(Place(t, n), t[n + 1].path)
  /\ \A m, n \in 1 .. Len(t) : t[m] = t[n] => m = n

(* All places under k are in the trace, in a row.                          *)
Covers(t, k) ==
  \E a \in 1 .. Len(t) : \E b \in a .. Len(t) :
    /\ t[a] = k /\ LastUnder(t[b].path, k.path)
    /\ \A m \in a + 1 .. b : Below(k.path, t[m].path)

(* The trace is that of the whole workflow, and run() has all its results. *)
Finished(d) ==
  /\ LastUnder(Place(d.t, Len(d.t)), <<>>)
  /\ \A n \in 1 .. Len(d.t) : Len(d.t[n].path) = 1 => Cached(d, d.t[n])

Traces(d) ==
  /\ Walk(d.t)
  /\ \A k \in Key : Cached(d, k) => Covers(d.t, k)
  /\ d.s \in {"completing", "completed"} => Finished(d)

(* The calls to come are not among the first c entries of the trace.       *)
Passed(t, c, fs) ==
  \A m \in 1 .. c : \A i \in 1 .. Len(fs) : \A n \in Nat :
    InCall(fs, i, n, t[m]) => n < Len(fs[i].obs) \/ (n = Len(fs[i].obs) /\ i < Len(fs))

(* The open calls are, and all that comes after them is below them.        *)
Entered(t, c, fs) ==
  \A i \in 2 .. Len(fs) : \E a \in 1 .. c :
    t[a] = fs[i].key /\ \A m \in a + 1 .. c : Below(fs[i].key.path, t[m].path)

(* Entry c is the call on top, or the last place under what it called last. *)
LastCall(t, c, fs) ==
  LET f == fs[Len(fs)] IN
  IF Len(f.obs) = 0 THEN Place(t, c) = f.key.path
                    ELSE LastUnder(Place(t, c), Append(f.key.path, Len(f.obs) - 1))

(* The frames stand where the trace has got to after c entries.            *)
Stands(t, c, fs) == c <= Len(t) /\ Passed(t, c, fs) /\ Entered(t, c, fs) /\ LastCall(t, c, fs)

LEMMA PathOfBody == \A b \in Body : b.path \in Seq(Nat)
<1>1. Root.path \in Seq(Nat)
  BY DEF Root
<1>. QED
  BY <1>1, PathOfKey DEF Body

(* Where a body may return it has no call to make.                         *)
LEMMA NoCallAfterEnd ==
  ASSUME Deterministic, NEW k \in Key, NEW p, NEW n \in Nat, Len(k.path) = n + 1,
         \A m \in 1 .. n : k.path[m] = p[m]
  PROVE  ~Ends(p, n, k.path[n + 1])
<1>. SUFFICES ASSUME Ends(p, n, k.path[n + 1])
              PROVE  FALSE
  OBVIOUS
<1>1. PICK b \in Body : /\ Len(b.path) = n /\ \A m \in 1 .. n : b.path[m] = p[m]
                        /\ k.path[n + 1] \in Returns[b]
  BY DEF Ends
<1>2. b.path \in Seq(Nat) /\ k.path \in Seq(Nat) /\ k.path[n + 1] \in Nat
  <2>1. b.path \in Seq(Nat) /\ k.path \in Seq(Nat)
    BY PathOfBody, PathOfKey
  <2>2. n + 1 \in 1 .. Len(k.path)
    OBVIOUS
  <2>. QED
    BY <2>1, <2>2
<1>. DEFINE q == Append(b.path, k.path[n + 1])
<1>3. q \in Seq(Nat) /\ Len(q) = n + 1 /\ q[n + 1] = k.path[n + 1]
      /\ \A m \in 1 .. n : q[m] = b.path[m]
  BY <1>1, <1>2, AppendProperties
<1>4. k.path # q
  BY <1>1 DEF Deterministic
<1>. HIDE DEF q
<1>5. \A m \in 1 .. n + 1 : q[m] = k.path[m]
  BY <1>1, <1>3
<1>. QED
  BY <1>2, <1>3, <1>4, <1>5, SeqEqual

(* A path is not empty, and its last index is the number of a call.        *)
LEMMA LastIndex ==
  \A k \in Key : /\ k.path \in Seq(Nat)
                 /\ \E n \in Nat : Len(k.path) = n + 1 /\ k.path[n + 1] \in Nat
<1>. SUFFICES ASSUME NEW k \in Key
              PROVE  /\ k.path \in Seq(Nat)
                     /\ \E n \in Nat : Len(k.path) = n + 1 /\ k.path[n + 1] \in Nat
  OBVIOUS
<1>1. k.path \in Seq(Nat) /\ k.path # <<>>
  BY PathOfKey, StoreAssumption DEF StepKeys
<1>2. Len(k.path) \in Nat /\ Len(k.path) >= 1
  BY <1>1, EmptySeq
<1>3. PICK n \in Nat : n = Len(k.path) - 1
  BY <1>2
<1>4. Len(k.path) = n + 1 /\ n + 1 \in 1 .. Len(k.path)
  BY <1>2, <1>3
<1>. QED
  BY <1>1, <1>4

(* A call that is not the first of its body follows the last place under   *)
(* the call before it.                                                     *)
LEMMA AfterSibling ==
  ASSUME NEW p \in Seq(Nat), NEW k \in Key, NEW n \in Nat, Len(k.path) = n + 1,
         Follows(p, k.path), k.path[n + 1] # 0
  PROVE  /\ n + 1 <= Len(p) /\ k.path[n + 1] = p[n + 1] + 1
         /\ \A m \in 1 .. n : k.path[m] = p[m]
         /\ Ends(p, Len(p), 0)
         /\ LastUnder(p, Sibling(k.path))
         /\ Sibling(k.path) \in Seq(Nat) /\ Len(Sibling(k.path)) = n + 1
         /\ \A m \in 1 .. n + 1 : Sibling(k.path)[m] = p[m]
<1>. DEFINE q == Sibling(k.path)
<1>1. k.path \in Seq(Nat) /\ n + 1 \in 1 .. Len(k.path)
  BY PathOfKey
<1>2. k.path[n + 1] - 1 \in Nat
  BY <1>1
<1>3. q = [k.path EXCEPT ![n + 1] = k.path[n + 1] - 1]
  BY DEF Sibling
<1>4. /\ q \in Seq(Nat) /\ Len(q) = n + 1
      /\ \A m \in 1 .. n + 1 : q[m] = IF m = n + 1 THEN k.path[n + 1] - 1 ELSE k.path[m]
  BY <1>1, <1>2, <1>3, ExceptSeq
<1>. HIDE DEF q
<1>5. LastUnder(p, q)
  BY DEF Follows, q
<1>6. n + 1 <= Len(p) /\ Ends(p, Len(p), 0) /\ \A m \in 1 .. n + 1 : p[m] = q[m]
  BY <1>4, <1>5 DEF LastUnder
<1>7. q[n + 1] = k.path[n + 1] - 1 /\ \A m \in 1 .. n : q[m] = k.path[m]
  BY <1>4
<1>8. k.path[n + 1] = p[n + 1] + 1
  BY <1>1, <1>6, <1>7
<1>9. \A m \in 1 .. n : k.path[m] = p[m]
  <2>1. \A m \in 1 .. n : m \in 1 .. n + 1
    OBVIOUS
  <2>. QED
    BY <1>6, <1>7, <2>1
<1>10. \A m \in 1 .. n + 1 : q[m] = p[m]
  BY <1>6
<1>. QED
  BY <1>4, <1>5, <1>6, <1>8, <1>9, <1>10 DEF q

LEMMA AsFirstCall ==
  ASSUME Deterministic, NEW p \in Seq(Nat), NEW k \in Key, k.path = Append(p, 0)
  PROVE  ~Ends(p, Len(p), 0)
<1>1. /\ Len(p) \in Nat /\ Len(k.path) = Len(p) + 1 /\ k.path[Len(p) + 1] = 0
      /\ \A m \in 1 .. Len(p) : k.path[m] = p[m]
  BY AppendProperties
<1>. QED
  BY <1>1, NoCallAfterEnd

(* What follows the last place under q is outside q.                       *)
LEMMA Leaves ==
  ASSUME Deterministic, NEW p \in Seq(Nat), NEW q \in Seq(Nat), LastUnder(p, q),
         NEW k \in Key, Follows(p, k.path)
  PROVE  ~Under(q, k)
<1>1. PICK n \in Nat : Len(k.path) = n + 1 /\ k.path[n + 1] \in Nat
  BY LastIndex
<1>2. Len(p) \in Nat /\ Len(q) \in Nat
  OBVIOUS
<1>3. CASE k.path[n + 1] = 0
  BY <1>1, <1>3, AsFirstCall DEF Follows, LastUnder
<1>4. ASSUME k.path[n + 1] # 0, Under(q, k)
      PROVE  FALSE
  <2>1. n + 1 <= Len(p) /\ k.path[n + 1] = p[n + 1] + 1 /\ \A m \in 1 .. n : k.path[m] = p[m]
    BY <1>1, <1>4, AfterSibling
  <2>2. Len(q) <= n + 1 /\ \A m \in 1 .. Len(q) : k.path[m] = q[m] /\ p[m] = q[m]
    BY <1>1, <1>4 DEF Under, LastUnder
  <2>3. p[n + 1] \in Nat
    BY <1>2, <2>1
  <2>4. Len(q) # n + 1
    BY <2>1, <2>2, <2>3
  <2>5. n \in Len(q) .. Len(p) - 1
    BY <1>2, <2>1, <2>2, <2>4
  <2>6. Ends(p, n, k.path[n + 1])
    BY <2>1, <2>5 DEF LastUnder
  <2>. QED
    BY <1>1, <2>1, <2>6, NoCallAfterEnd
<1>. QED
  BY <1>3, <1>4

LEMMA NotLonger ==
  ASSUME Deterministic, NEW p \in Seq(Nat), NEW j \in Key, NEW k \in Key,
         Follows(p, j.path), Follows(p, k.path),
         NEW m \in Nat, NEW n \in Nat, Len(j.path) = m + 1, Len(k.path) = n + 1,
         j.path[m + 1] # 0, k.path[n + 1] # 0
  PROVE  n <= m
<1>. SUFFICES ASSUME m < n
              PROVE  FALSE
  OBVIOUS
<1>1. /\ LastUnder(p, Sibling(j.path)) /\ Sibling(j.path) \in Seq(Nat)
      /\ Len(Sibling(j.path)) = m + 1
      /\ \A i \in 1 .. m + 1 : Sibling(j.path)[i] = p[i]
  BY AfterSibling
<1>2. \A i \in 1 .. n : k.path[i] = p[i]
  BY AfterSibling
<1>3. Under(Sibling(j.path), k)
  BY <1>1, <1>2 DEF Under
<1>. QED
  BY <1>1, <1>3, Leaves

(* A place is followed by one call.                                        *)
LEMMA FollowsOnce ==
  ASSUME Deterministic, NEW p \in Seq(Nat), NEW j \in Key, NEW k \in Key,
         Follows(p, j.path), Follows(p, k.path)
  PROVE  j = k
<1>1. PICK m \in Nat : Len(j.path) = m + 1 /\ j.path[m + 1] \in Nat
  BY LastIndex
<1>2. PICK n \in Nat : Len(k.path) = n + 1 /\ k.path[n + 1] \in Nat
  BY LastIndex
<1>3. CASE j.path[m + 1] = 0 \/ k.path[n + 1] = 0
  <2>1. j.path[m + 1] # 0 => Ends(p, Len(p), 0)
    BY <1>1, AfterSibling
  <2>2. k.path[n + 1] # 0 => Ends(p, Len(p), 0)
    BY <1>2, AfterSibling
  <2>3. j.path[m + 1] = 0 => j.path = Append(p, 0)
    BY <1>1 DEF Follows
  <2>4. k.path[n + 1] = 0 => k.path = Append(p, 0)
    BY <1>2 DEF Follows
  <2>5. j.path = Append(p, 0) /\ k.path = Append(p, 0)
    BY <1>3, <2>1, <2>2, <2>3, <2>4, AsFirstCall
  <2>. QED
    BY <2>5 DEF Deterministic, OneStepPerPlace
<1>4. CASE j.path[m + 1] # 0 /\ k.path[n + 1] # 0
  <2>1. n <= m
    BY <1>1, <1>2, <1>4, NotLonger
  <2>2. m <= n
    BY <1>1, <1>2, <1>4, NotLonger
  <2>3. m = n
    BY <2>1, <2>2
  <2>4. j.path[m + 1] = p[m + 1] + 1 /\ \A i \in 1 .. m : j.path[i] = p[i]
    BY <1>1, <1>4, AfterSibling
  <2>5. k.path[n + 1] = p[n + 1] + 1 /\ \A i \in 1 .. n : k.path[i] = p[i]
    BY <1>2, <1>4, AfterSibling
  <2>6. \A i \in 1 .. m + 1 : j.path[i] = k.path[i]
    BY <2>3, <2>4, <2>5
  <2>7. j.path \in Seq(Nat) /\ k.path \in Seq(Nat)
    BY PathOfKey
  <2>8. j.path = k.path
    BY <1>1, <1>2, <2>3, <2>6, <2>7, SeqEqual
  <2>. QED
    BY <2>8 DEF Deterministic, OneStepPerPlace
<1>. QED
  BY <1>3, <1>4

LEMMA PlaceType ==
  ASSUME NEW t \in Seq(Key), NEW c \in 0 .. Len(t)
  PROVE  Place(t, c) \in Seq(Nat)
<1>1. CASE c = 0
  BY <1>1 DEF Place
<1>2. CASE c # 0
  <2>1. c \in 1 .. Len(t)
    BY <1>2
  <2>2. t[c] \in Key
    BY <2>1
  <2>. QED
    BY <1>2, <2>2, PathOfKey DEF Place
<1>. QED
  BY <1>1, <1>2

(* What the body on top calls is the n-th call of its frame.               *)
LEMMA CallOfTop ==
  ASSUME NEW fs \in Seq(Frame), Stack(fs), NEW k \in Callable(Last(fs))
  PROVE  LET l == Len(fs)
             n == Len(fs[l].obs) IN
         /\ l \in Nat /\ l >= 1 /\ n \in Nat /\ k \in Key
         /\ fs[l].key.path \in Seq(Nat) /\ Len(fs[l].key.path) = l - 1
         /\ k.path = Append(fs[l].key.path, n)
         /\ Len(k.path) = l /\ InCall(fs, l, n, k) /\ k.path[l] = n
         /\ \A m \in 1 .. l - 1 : k.path[m] = fs[l].key.path[m]
<1>. DEFINE l == Len(fs)
            n == Len(fs[l].obs)
<1>1. l \in Nat /\ l >= 1 /\ Last(fs) = fs[l]
  BY FrameOfStack
<1>2. l \in 1 .. Len(fs)
  BY <1>1
<1>3. fs[l].key.path \in Seq(Nat) /\ Len(fs[l].key.path) = l - 1 /\ n \in Nat
  BY <1>2, StackPaths
<1>4. k \in Key /\ k.path = Append(fs[l].key.path, n)
  BY <1>1 DEF Callable
<1>5. Len(k.path) = l /\ InCall(fs, l, n, k)
  BY <1>2, <1>3, <1>4, CallPath
<1>6. k.path[l] = n /\ \A m \in 1 .. l - 1 : k.path[m] = fs[l].key.path[m]
  BY <1>5 DEF InCall
<1>. QED
  BY <1>1, <1>3, <1>4, <1>5, <1>6

(* The next call of the body on top follows the place where it stands.     *)
LEMMA NextFollows ==
  ASSUME NEW t \in Seq(Key), NEW c \in Nat, NEW fs \in Seq(Frame), Stack(fs), Stands(t, c, fs),
         NEW k \in Callable(Last(fs))
  PROVE  /\ Place(t, c) \in Seq(Nat) /\ Follows(Place(t, c), k.path)
         /\ \A m \in 1 .. c : t[m] # k
<1>. DEFINE l == Len(fs)
            b == fs[l].key.path
<1>1. PICK n \in Nat : n = Len(fs[l].obs)
  BY CallOfTop
<1>2. /\ l \in Nat /\ l >= 1 /\ k \in Key /\ b \in Seq(Nat) /\ Len(b) = l - 1
      /\ k.path = Append(b, n) /\ Len(k.path) = l /\ InCall(fs, l, n, k) /\ k.path[l] = n
      /\ \A m \in 1 .. l - 1 : k.path[m] = b[m]
  BY <1>1, CallOfTop
<1>3. Place(t, c) \in Seq(Nat)
  <2>1. c \in 0 .. Len(t)
    BY DEF Stands
  <2>. QED
    BY <2>1, PlaceType
<1>4. \A m \in 1 .. c : t[m] # k
  <2>. SUFFICES ASSUME NEW m \in 1 .. c, t[m] = k
                PROVE  FALSE
    OBVIOUS
  <2>1. l \in 1 .. Len(fs) /\ ~(n < n)
    BY <1>2
  <2>2. InCall(fs, l, n, t[m])
    BY <1>2
  <2>3. n < Len(fs[l].obs) \/ (n = Len(fs[l].obs) /\ l < Len(fs))
    BY <2>1, <2>2 DEF Stands, Passed
  <2>. QED
    BY <1>1, <1>2, <2>3
<1>. HIDE DEF b, l
<1>5. CASE n = 0
  <2>1. Place(t, c) = b
    BY <1>1, <1>5 DEF Stands, LastCall, b, l
  <2>. QED
    BY <1>2, <1>3, <1>4, <1>5, <2>1 DEF Follows
<1>6. CASE n # 0
  <2>1. LastUnder(Place(t, c), Append(b, n - 1))
    BY <1>1, <1>6 DEF Stands, LastCall, b, l
  <2>2. Sibling(k.path) = Append(b, n - 1)
    <3>1. Sibling(k.path) = [k.path EXCEPT ![l] = n - 1]
      BY <1>2 DEF Sibling
    <3>2. k.path \in Seq(Nat) /\ n - 1 \in Nat /\ l \in 1 .. Len(k.path)
      BY <1>2, <1>6, PathOfKey
    <3>3. /\ Sibling(k.path) \in Seq(Nat) /\ Len(Sibling(k.path)) = Len(k.path)
          /\ \A m \in 1 .. Len(k.path) :
               Sibling(k.path)[m] = IF m = l THEN n - 1 ELSE k.path[m]
      BY <3>1, <3>2, ExceptSeq
    <3>4. /\ Append(b, n - 1) \in Seq(Nat) /\ Len(Append(b, n - 1)) = l
          /\ Append(b, n - 1)[l] = n - 1
          /\ \A m \in 1 .. l - 1 : Append(b, n - 1)[m] = b[m]
      <4>1. Len(b) + 1 = l
        BY <1>2
      <4>. QED
        BY <1>2, <3>2, <4>1, AppendProperties
    <3>5. ASSUME NEW m \in 1 .. l
          PROVE  Sibling(k.path)[m] = Append(b, n - 1)[m]
      <4>1. CASE m = l
        BY <1>2, <3>3, <3>4, <4>1
      <4>2. CASE m # l
        <5>1. m \in 1 .. l - 1 /\ m \in 1 .. Len(k.path)
          BY <1>2, <4>2
        <5>2. Sibling(k.path)[m] = k.path[m]
          BY <3>3, <4>2, <5>1
        <5>. QED
          BY <1>2, <3>4, <5>1, <5>2
      <4>. QED
        BY <4>1, <4>2
    <3>6. Len(Sibling(k.path)) = l
      BY <1>2, <3>3
    <3>. QED
      <4>. DEFINE q == Append(b, n - 1)
                  r == Sibling(k.path)
      <4>1. /\ q \in Seq(Nat) /\ r \in Seq(Nat) /\ Len(q) = Len(r)
            /\ \A m \in 1 .. Len(q) : q[m] = r[m]
        BY <3>3, <3>4, <3>5, <3>6
      <4>. HIDE DEF q, r
      <4>2. q = r
        BY <4>1, SeqEqual
      <4>. QED
        BY <4>2 DEF q, r
  <2>. QED
    BY <1>2, <1>3, <1>4, <1>6, <2>1, <2>2 DEF Follows
<1>. QED
  BY <1>5, <1>6

(* If the trace goes on, then with this call.                              *)
LEMMA NextIsTraced ==
  ASSUME Deterministic, NEW t \in Seq(Key), NEW c \in Nat, NEW fs \in Seq(Frame), Stack(fs),
         Walk(t), Stands(t, c, fs), c < Len(t), NEW k \in Callable(Last(fs))
  PROVE  t[c + 1] = k
<1>1. c \in 0 .. Len(t) - 1 /\ c + 1 \in 1 .. Len(t) /\ t[c + 1] \in Key /\ k \in Key
  BY DEF Callable
<1>2. Follows(Place(t, c), t[c + 1].path)
  BY <1>1 DEF Walk
<1>. QED
  BY <1>1, <1>2, NextFollows, FollowsOnce

(* The call enters the trace.                                              *)
LEMMA TraceGrows ==
  ASSUME NEW t \in Seq(Key), NEW fs \in Seq(Frame), Stack(fs),
         Walk(t), Stands(t, Len(t), fs), NEW k \in Callable(Last(fs))
  PROVE  LET x == Append(t, k) IN
         /\ x \in Seq(Key) /\ Len(x) = Len(t) + 1 /\ x[Len(t) + 1] = k
         /\ Walk(x) /\ Stands(x, Len(t), fs)
         /\ \A j \in Key : Covers(t, j) => Covers(x, j)
<1>. DEFINE x == Append(t, k)
            c == Len(t)
<1>1. k \in Key /\ c \in Nat
  BY DEF Callable
<1>2. x \in Seq(Key) /\ Len(x) = c + 1 /\ x[c + 1] = k /\ \A m \in 1 .. c : x[m] = t[m]
  BY <1>1, AppendProperties
<1>3. Follows(Place(t, c), k.path) /\ \A m \in 1 .. c : t[m] # k
  BY <1>1, NextFollows
<1>. HIDE DEF x, c
<1>4. \A n \in 0 .. c : Place(x, n) = Place(t, n)
  BY <1>1, <1>2 DEF Place
<1>5. Walk(x)
  <2>1. ASSUME NEW n \in 0 .. c
        PROVE  Follows(Place(x, n), x[n + 1].path)
    <3>1. CASE n = c
      BY <1>2, <1>3, <1>4, <3>1
    <3>2. CASE n # c
      <4>1. n \in 0 .. c - 1 /\ n + 1 \in 1 .. c
        BY <1>1, <3>2
      <4>. QED
        BY <1>2, <1>4, <4>1 DEF Walk, c
    <3>. QED
      BY <3>1, <3>2
  <2>2. \A m, n \in 1 .. c : t[m] = t[n] => m = n
    BY DEF Walk, c
  <2>3. \A m, n \in 1 .. c + 1 : x[m] = x[n] => m = n
    <3>1. \A m \in 1 .. c + 1 : m = c + 1 \/ m \in 1 .. c
      BY <1>1
    <3>. QED
      BY <1>2, <1>3, <2>2, <3>1
  <2>4. Len(x) - 1 = c
    BY <1>1, <1>2
  <2>. QED
    BY <1>2, <2>1, <2>3, <2>4 DEF Walk
<1>6. Stands(x, c, fs)
  <2>1. Stands(t, c, fs) /\ c <= Len(x)
    BY <1>1, <1>2 DEF c
  <2>2. Passed(x, c, fs)
    BY <1>2, <2>1 DEF Stands, Passed
  <2>3. Entered(x, c, fs)
    <3>. SUFFICES ASSUME NEW i \in 2 .. Len(fs)
                  PROVE  \E a \in 1 .. c : /\ x[a] = fs[i].key
                           /\ \A m \in a + 1 .. c : Below(fs[i].key.path, x[m].path)
      BY DEF Entered
    <3>1. PICK a \in 1 .. c : /\ t[a] = fs[i].key
                              /\ \A m \in a + 1 .. c : Below(fs[i].key.path, t[m].path)
      BY <2>1 DEF Stands, Entered
    <3>2. \A m \in a + 1 .. c : m \in 1 .. c
      BY <1>1
    <3>. QED
      BY <1>2, <3>1, <3>2
  <2>4. LastCall(x, c, fs)
    BY <1>1, <1>4, <2>1 DEF Stands, LastCall
  <2>. QED
    BY <2>1, <2>2, <2>3, <2>4 DEF Stands
<1>7. ASSUME NEW j \in Key, Covers(t, j)
      PROVE  Covers(x, j)
  <2>0. PICK a \in 1 .. c : \E b \in a .. c :
               /\ t[a] = j /\ LastUnder(t[b].path, j.path)
               /\ \A m \in a + 1 .. b : Below(j.path, t[m].path)
    BY <1>7 DEF Covers, c
  <2>1. PICK b \in a .. c :
               /\ t[a] = j /\ LastUnder(t[b].path, j.path)
               /\ \A m \in a + 1 .. b : Below(j.path, t[m].path)
    BY <2>0
  <2>2. /\ a \in 1 .. Len(x) /\ b \in a .. Len(x) /\ b \in 1 .. c
        /\ \A m \in a + 1 .. b : m \in 1 .. c
    BY <1>1, <1>2
  <2>3. /\ x[a] = j /\ LastUnder(x[b].path, j.path)
        /\ \A m \in a + 1 .. b : Below(j.path, x[m].path)
    BY <1>2, <2>1, <2>2
  <2>. QED
    BY <2>2, <2>3 DEF Covers
<1>. QED
  BY <1>2, <1>5, <1>6, <1>7 DEF x, c

LEMMA BelowIsUnder ==
  ASSUME NEW p \in Seq(Nat), NEW k \in Key, Below(p, k.path)
  PROVE  Under(p, k)
<1>1. Len(p) < Len(k.path) /\ \A m \in 1 .. Len(p) : p[m] = k.path[m]
  BY PathOfKey, BelowPointwise
<1>2. Len(p) \in Nat /\ Len(k.path) \in Nat
  BY PathOfKey
<1>. QED
  BY <1>1, <1>2 DEF Under

(* The path of a call names the calls that the frames wait for.            *)
LEMMA CallIndices ==
  ASSUME NEW fs \in Seq(Frame), Stack(fs), Chain(fs), NEW k \in Callable(Last(fs))
  PROVE  \A i \in 1 .. Len(fs) : k.path[i] = Len(fs[i].obs)
<1>. DEFINE g == Append(fs, [key |-> k, obs |-> <<>>])
<1>1. Len(fs) \in Nat
  OBVIOUS
<1>2. /\ Len(g) = Len(fs) + 1 /\ g[Len(fs) + 1].key = k
      /\ \A i \in 1 .. Len(fs) : g[i] = fs[i]
  BY PushStack
<1>3. Chain(g)
  BY ChainOps
<1>. HIDE DEF g
<1>4. ASSUME NEW i \in 1 .. Len(fs)
      PROVE  k.path[i] = Len(fs[i].obs)
  <2>1. i \in 1 .. Len(g) /\ Len(fs) + 1 \in i + 1 .. Len(g)
    BY <1>1, <1>2
  <2>2. g[Len(fs) + 1].key.path[i] = Len(g[i].obs)
    BY <1>3, <2>1 DEF Chain
  <2>. QED
    BY <1>2, <2>2
<1>. QED
  BY <1>4

LEMMA StandsEntered ==
  ASSUME NEW t \in Seq(Key), NEW c \in Nat, NEW fs \in Seq(Frame), Stack(fs), Chain(fs),
         Stands(t, c, fs), NEW k \in Callable(Last(fs)), c < Len(t), t[c + 1] = k
  PROVE  Stands(t, c + 1, Append(fs, [key |-> k, obs |-> <<>>]))
<1>. DEFINE g == Append(fs, [key |-> k, obs |-> <<>>])
            l == Len(fs)
<1>1. PICK o \in Nat : o = Len(fs[l].obs)
  BY CallOfTop
<1>2. /\ l \in Nat /\ l >= 1 /\ k \in Key /\ Len(k.path) = l /\ InCall(fs, l, o, k)
      /\ k.path[l] = o /\ \A m \in 1 .. l - 1 : k.path[m] = fs[l].key.path[m]
  BY <1>1, CallOfTop
<1>3. /\ g \in Seq(Frame) /\ Stack(g) /\ Len(g) = l + 1 /\ g[l + 1].key = k
      /\ \A i \in 1 .. l : g[i] = fs[i]
  BY PushStack
<1>4. \A i \in 1 .. l : k.path[i] = Len(fs[i].obs)
  BY CallIndices
<1>5. g[l + 1] = [key |-> k, obs |-> <<>>]
  <2>1. [key |-> k, obs |-> <<>>] \in Frame
    BY <1>2 DEF Frame, Body
  <2>. QED
    BY <2>1, AppendProperties
<1>6. Len(g[l + 1].obs) = 0
  BY <1>5
<1>. HIDE DEF g, l
<1>7. Passed(t, c + 1, g)
  <2>. SUFFICES ASSUME NEW m \in 1 .. c + 1, NEW i \in 1 .. Len(g), NEW n \in Nat,
                       InCall(g, i, n, t[m])
                PROVE  n < Len(g[i].obs) \/ (n = Len(g[i].obs) /\ i < Len(g))
    BY DEF Passed
  <2>1. m \in 1 .. c \/ (m = c + 1 /\ t[m] = k)
    OBVIOUS
  <2>2. CASE i = l + 1
    <3>1. /\ l + 1 <= Len(t[m].path)
          /\ \A x \in 1 .. l : t[m].path[x] = k.path[x]
      BY <1>2, <1>3, <2>2 DEF InCall
    <3>2. t[m] # k
      BY <1>2, <3>1
    <3>3. m \in 1 .. c /\ m \in 1 .. Len(t)
      BY <2>1, <3>2 DEF Stands
    <3>4. Len(t[m].path) \in Nat
      BY <3>3, PathOfKey
    <3>5. InCall(fs, l, o, t[m])
      <4>1. l <= Len(t[m].path)
        BY <1>2, <3>1, <3>4
      <4>2. \A x \in 1 .. l - 1 : x \in 1 .. l
        BY <1>2
      <4>3. l \in 1 .. l
        BY <1>2
      <4>4. \A x \in 1 .. l - 1 : t[m].path[x] = fs[l].key.path[x]
        BY <1>2, <3>1, <4>2
      <4>5. t[m].path[l] = o
        BY <1>2, <3>1, <4>3
      <4>. QED
        BY <4>1, <4>4, <4>5 DEF InCall
    <3>6. o < Len(fs[l].obs) \/ (o = Len(fs[l].obs) /\ l < Len(fs))
      BY <1>2, <3>3, <3>5 DEF Stands, Passed, l
    <3>. QED
      BY <1>1, <1>2, <3>6 DEF l
  <2>3. CASE i # l + 1
    <3>1. i \in 1 .. l /\ i < Len(g) /\ g[i] = fs[i]
      BY <1>2, <1>3, <2>3
    <3>2. InCall(fs, i, n, t[m])
      <4>1. \A x \in 1 .. i - 1 : t[m].path[x] = fs[i].key.path[x]
        BY <3>1 DEF InCall
      <4>. QED
        BY <3>1, <4>1 DEF InCall
    <3>3. CASE m \in 1 .. c
      <4>1. n < Len(fs[i].obs) \/ n = Len(fs[i].obs)
        BY <3>1, <3>2, <3>3 DEF Stands, Passed, l
      <4>. QED
        BY <3>1, <4>1
    <3>4. CASE t[m] = k
      <4>1. n = Len(fs[i].obs)
        BY <1>4, <3>1, <3>2, <3>4 DEF InCall
      <4>. QED
        BY <3>1, <4>1
    <3>. QED
      BY <2>1, <3>3, <3>4
  <2>. QED
    BY <2>2, <2>3
<1>8. Entered(t, c + 1, g)
  <2>. SUFFICES ASSUME NEW i \in 2 .. Len(g)
                PROVE  \E a \in 1 .. c + 1 : /\ t[a] = g[i].key
                         /\ \A m \in a + 1 .. c + 1 : Below(g[i].key.path, t[m].path)
    BY DEF Entered
  <2>1. CASE i = l + 1
    <3>1. c + 1 \in 1 .. c + 1 /\ t[c + 1] = g[i].key
      BY <1>3, <2>1
    <3>2. \A m \in c + 1 + 1 .. c + 1 : FALSE
      OBVIOUS
    <3>. QED
      BY <3>1, <3>2
  <2>2. CASE i # l + 1
    <3>1. i \in 2 .. l /\ i \in 1 .. l /\ g[i] = fs[i] /\ l + 1 \in 1 .. Len(g)
      BY <1>2, <1>3, <2>2
    <3>2. PICK a \in 1 .. c : /\ t[a] = fs[i].key
                              /\ \A m \in a + 1 .. c : Below(fs[i].key.path, t[m].path)
      BY <3>1 DEF Stands, Entered, l
    <3>3. Below(g[i].key.path, g[l + 1].key.path)
      <4>1. \A h \in 1 .. Len(g) : \A j \in 1 .. h - 1 : Below(g[j].key.path, g[h].key.path)
        BY <1>3 DEF Stack
      <4>2. i \in 1 .. (l + 1) - 1
        BY <1>2, <3>1
      <4>. QED
        BY <3>1, <4>1, <4>2
    <3>4. \A m \in a + 1 .. c + 1 : m \in a + 1 .. c \/ m = c + 1
      OBVIOUS
    <3>5. a \in 1 .. c + 1
      OBVIOUS
    <3>. QED
      BY <1>3, <3>1, <3>2, <3>3, <3>4, <3>5
  <2>. QED
    BY <2>1, <2>2
<1>9. LastCall(t, c + 1, g)
  BY <1>3, <1>6 DEF LastCall, Place
<1>10. c + 1 <= Len(t)
  OBVIOUS
<1>. QED
  BY <1>7, <1>8, <1>9, <1>10 DEF Stands, g

LEMMA SkipCovered ==
  ASSUME Deterministic, NEW t \in Seq(Key), Walk(t), NEW k \in Key,
         NEW a \in 1 .. Len(t), NEW b \in a .. Len(t),
         LastUnder(t[b].path, k.path),
         \A m \in a + 1 .. b : Below(k.path, t[m].path)
  PROVE  SkipDescendants(t, a, k.path) = b
<1>. DEFINE l == Len(t)
            M == Max({a, l})
            S == {n \in a .. M : n >= l \/ ~Below(k.path, t[n + 1].path)}
<1>1. l \in Nat /\ a \in Nat /\ b \in Nat /\ a <= b /\ b <= l /\ b \in 1 .. l
  OBVIOUS
<1>2. M = l
  <2>1. \E x \in {a, l} : \A y \in {a, l} : x >= y
    BY <1>1
  <2>2. M \in {a, l} /\ \A y \in {a, l} : M >= y
    BY <2>1 DEF Max
  <2>. QED
    BY <1>1, <2>2
<1>. HIDE DEF M
<1>3. b \in S
  <2>1. ASSUME b < l
        PROVE  ~Below(k.path, t[b + 1].path)
    <3>1. b \in 0 .. l - 1 /\ b + 1 \in 1 .. l /\ t[b + 1] \in Key /\ t[b] \in Key
      BY <1>1, <2>1
    <3>2. Follows(t[b].path, t[b + 1].path)
      BY <1>1, <3>1 DEF Walk, Place
    <3>3. t[b].path \in Seq(Nat) /\ k.path \in Seq(Nat)
      BY <3>1, PathOfKey
    <3>4. ~Under(k.path, t[b + 1])
      BY <3>1, <3>2, <3>3, Leaves
    <3>. QED
      BY <3>1, <3>3, <3>4, BelowIsUnder
  <2>. QED
    BY <1>1, <1>2, <2>1
<1>4. ASSUME NEW x \in S
      PROVE  b <= x
  <2>. SUFFICES ASSUME x < b
                PROVE  FALSE
    BY <1>1, <1>2
  <2>1. x + 1 \in a + 1 .. b /\ x < l
    BY <1>1, <1>2
  <2>2. Below(k.path, t[x + 1].path)
    BY <2>1
  <2>. QED
    BY <1>1, <2>1, <2>2
<1>5. S \subseteq Nat
  BY <1>1, <1>2
<1>6. Min(S) = b
  <2>. HIDE DEF S
  <2>1. \A x \in S : (\A y \in S : x <= y) => x = b
    BY <1>1, <1>3, <1>4, <1>5
  <2>. QED
    BY <1>3, <1>4, <2>1 DEF Min
<1>. QED
  BY <1>6 DEF SkipDescendants, S, M, l

(* A cached result is returned at once: the cursor skips what is below.    *)
LEMMA StandsSkipped ==
  ASSUME Deterministic, NEW t \in Seq(Key), NEW c \in Nat, NEW fs \in Seq(Frame), Stack(fs),
         Chain(fs), Walk(t), Stands(t, c, fs), NEW k \in Callable(Last(fs)), c < Len(t),
         t[c + 1] = k, Covers(t, k), NEW v \in Observation
  PROVE  Stands(t, SkipDescendants(t, c + 1, k.path), Observed(fs, v))
<1>. DEFINE g == Observed(fs, v)
            l == Len(fs)
<1>1. PICK o \in Nat : o = Len(fs[l].obs)
  BY CallOfTop
<1>2. /\ l \in Nat /\ l >= 1 /\ k \in Key /\ Len(k.path) = l
      /\ k.path = Append(fs[l].key.path, o)
  BY <1>1, CallOfTop
<1>3. /\ Len(g) = l /\ Stack(g) /\ g \in Seq(Frame)
      /\ \A i \in 1 .. l : g[i].key = fs[i].key
      /\ \A i \in 1 .. l - 1 : g[i] = fs[i]
      /\ g[l].obs = Append(fs[l].obs, v)
  BY ObservedFrames
<1>4. Len(g[l].obs) = o + 1
  <2>1. l \in 1 .. Len(fs)
    BY <1>2
  <2>2. fs[l].obs \in Seq(Observation)
    BY <2>1, StackPaths
  <2>. QED
    BY <1>1, <1>3, <2>2, AppendProperties
<1>5. \A i \in 1 .. l : k.path[i] = Len(fs[i].obs)
  BY CallIndices
<1>6. PICK a \in 1 .. Len(t) : \E b \in a .. Len(t) :
        /\ t[a] = k /\ LastUnder(t[b].path, k.path)
        /\ \A m \in a + 1 .. b : Below(k.path, t[m].path)
  BY DEF Covers
<1>7. a = c + 1
  <2>1. c + 1 \in 1 .. Len(t)
    OBVIOUS
  <2>. QED
    BY <1>6, <2>1 DEF Walk
<1>8. PICK b \in a .. Len(t) :
        /\ t[a] = k /\ LastUnder(t[b].path, k.path)
        /\ \A m \in a + 1 .. b : Below(k.path, t[m].path)
  BY <1>6
<1>9. SkipDescendants(t, c + 1, k.path) = b
  BY <1>2, <1>7, <1>8, SkipCovered
<1>10. \A m \in 1 .. b : m \in 1 .. c \/ m = c + 1 \/ m \in a + 1 .. b
  BY <1>7
<1>11. \A m \in a .. b : t[m] \in Key /\ Under(k.path, t[m])
  <2>. SUFFICES ASSUME NEW m \in a .. b
                PROVE  t[m] \in Key /\ Under(k.path, t[m])
    OBVIOUS
  <2>0. Len(t) \in Nat /\ a \in Nat /\ b \in Nat /\ m \in Nat /\ m \in 1 .. Len(t)
    OBVIOUS
  <2>1. m = a \/ m \in a + 1 .. b
    BY <2>0
  <2>2. t[m] \in Key /\ k.path \in Seq(Nat)
    <3>1. t[m] \in Key
      BY <2>0
    <3>2. k \in Key
      BY <1>2
    <3>. QED
      BY <3>1, <3>2, PathOfKey
  <2>3. CASE m = a
    <3>1. t[m] = k
      BY <1>8, <2>3
    <3>2. Len(k.path) \in Nat
      BY <2>2
    <3>. QED
      BY <2>2, <3>1, <3>2 DEF Under
  <2>4. CASE m \in a + 1 .. b
    BY <1>8, <2>2, <2>4, BelowIsUnder
  <2>. QED
    BY <2>1, <2>2, <2>3, <2>4
<1>. HIDE DEF g, l
<1>12. Passed(t, b, g)
  <2>. SUFFICES ASSUME NEW m \in 1 .. b, NEW i \in 1 .. Len(g), NEW n \in Nat,
                       InCall(g, i, n, t[m])
                PROVE  n < Len(g[i].obs) \/ (n = Len(g[i].obs) /\ i < Len(g))
    BY DEF Passed
  <2>1. i \in 1 .. l /\ \A x \in 1 .. i - 1 : x \in 1 .. l
    BY <1>2, <1>3
  <2>2. InCall(fs, i, n, t[m])
    BY <1>3, <2>1 DEF InCall
  <2>3. n < Len(fs[i].obs) \/ n = Len(fs[i].obs)
    <3>1. CASE m \in 1 .. c
      BY <2>1, <2>2, <3>1 DEF Stands, Passed, l
    <3>2. CASE m \in a .. b
      <4>1. t[m].path[i] = k.path[i]
        BY <1>2, <1>11, <2>1, <3>2 DEF Under
      <4>. QED
        BY <1>5, <2>1, <2>2, <4>1 DEF InCall
    <3>. QED
      BY <1>7, <3>1, <3>2
  <2>4. CASE i = l
    <3>1. n < o \/ n = o
      BY <1>1, <2>3, <2>4
    <3>2. n < o + 1
      BY <3>1
    <3>. QED
      BY <1>4, <2>4, <3>2
  <2>5. CASE i # l
    BY <1>2, <1>3, <2>1, <2>3, <2>5
  <2>. QED
    BY <2>4, <2>5
<1>13. Entered(t, b, g)
  <2>. SUFFICES ASSUME NEW i \in 2 .. Len(g)
                PROVE  \E x \in 1 .. b : /\ t[x] = g[i].key
                         /\ \A m \in x + 1 .. b : Below(g[i].key.path, t[m].path)
    BY DEF Entered
  <2>1. i \in 1 .. l /\ i \in 2 .. l /\ i - 1 \in Nat /\ g[i].key = fs[i].key
    BY <1>2, <1>3
  <2>2. PICK x \in 1 .. c : /\ t[x] = fs[i].key
                            /\ \A m \in x + 1 .. c : Below(fs[i].key.path, t[m].path)
    BY <2>1 DEF Stands, Entered, l
  <2>3. fs[i].key.path \in Seq(Nat) /\ Len(fs[i].key.path) = i - 1
    BY <2>1, StackPaths DEF l
  <2>4. \A m \in 1 .. i - 1 : fs[l].key.path[m] = fs[i].key.path[m]
    <3>1. l \in i .. Len(fs)
      BY <1>2, <2>1 DEF l
    <3>. QED
      BY <2>1, <3>1, StackPaths DEF l
  <2>5. ASSUME NEW m \in a .. b
        PROVE  Below(fs[i].key.path, t[m].path)
    <3>1. t[m] \in Key /\ Len(k.path) <= Len(t[m].path)
          /\ \A x_1 \in 1 .. Len(k.path) : t[m].path[x_1] = k.path[x_1]
      BY <1>11 DEF Under
    <3>2. \A x_1 \in 1 .. l - 1 : k.path[x_1] = fs[l].key.path[x_1]
      BY CallOfTop DEF l
    <3>3. \A x_1 \in 1 .. i - 1 : x_1 \in 1 .. l - 1 /\ x_1 \in 1 .. l
      BY <1>2, <2>1
    <3>4. \A x_1 \in 1 .. i - 1 : fs[i].key.path[x_1] = t[m].path[x_1]
      BY <1>2, <2>4, <3>1, <3>2, <3>3
    <3>5. Len(t[m].path) \in Nat /\ t[m].path \in Seq(Nat)
      BY <3>1, PathOfKey
    <3>6. i - 1 < Len(t[m].path)
      BY <1>2, <2>1, <3>1, <3>5
    <3>. QED
      BY <2>3, <3>4, <3>5, <3>6, BelowPointwise
  <2>6. x \in 1 .. b /\ \A m \in x + 1 .. b : m \in x + 1 .. c \/ m \in a .. b
    BY <1>7, <2>2
  <2>. QED
    BY <2>1, <2>2, <2>5, <2>6
<1>14. LastCall(t, b, g)
  <2>1. Place(t, b) = t[b].path
    BY DEF Place
  <2>2. fs[l].key.path = g[l].key.path /\ Len(g) = l /\ o + 1 # 0 /\ o + 1 - 1 = o
    BY <1>2, <1>3
  <2>3. LastUnder(Place(t, b), Append(g[l].key.path, o))
    BY <1>2, <1>8, <2>1, <2>2
  <2>4. Len(g[Len(g)].obs) = o + 1 /\ g[Len(g)].key.path = g[l].key.path
    BY <1>4, <2>2
  <2>5. Len(g[Len(g)].obs) # 0 /\ Len(g[Len(g)].obs) - 1 = o
    BY <2>2, <2>4
  <2>. QED
    BY <2>3, <2>4, <2>5 DEF LastCall
<1>15. b <= Len(t)
  OBVIOUS
<1>. QED
  BY <1>9, <1>12, <1>13, <1>14, <1>15 DEF Stands, g

(* A body that has come past its last call and may return has ended.       *)
LEMMA EndsAll ==
  ASSUME NEW p \in Seq(Nat), NEW b \in Body, NEW o \in Nat, o \in Returns[b],
         IF o = 0 THEN p = b.path ELSE LastUnder(p, Append(b.path, o - 1))
  PROVE  LastUnder(p, b.path)
<1>. DEFINE q == b.path
            l == Len(q)
<1>1. q \in Seq(Nat) /\ l \in Nat /\ Len(p) \in Nat
  BY PathOfBody
<1>2. CASE o = 0
  <2>1. Ends(p, Len(p), 0)
    BY <1>1, <1>2 DEF Ends
  <2>2. p = q /\ ~\E m \in l .. l - 1 : TRUE
    BY <1>1, <1>2
  <2>. QED
    BY <1>1, <2>1, <2>2 DEF LastUnder
<1>3. CASE o # 0
  <2>. DEFINE r == Append(q, o - 1)
  <2>1. PICK n \in Nat : n = o - 1
    BY <1>3
  <2>2. /\ r \in Seq(Nat) /\ Len(r) = l + 1 /\ r[l + 1] = n
        /\ \A m \in 1 .. l : r[m] = q[m]
    BY <1>1, <2>1, AppendProperties
  <2>3. LastUnder(p, r)
    BY <1>3
  <2>. HIDE DEF r, q, l
  <2>4. /\ l + 1 <= Len(p) /\ Ends(p, Len(p), 0)
        /\ \A m \in 1 .. l + 1 : r[m] = p[m]
        /\ \A m \in l + 1 .. Len(p) - 1 : Ends(p, m, p[m + 1] + 1)
    BY <2>2, <2>3 DEF LastUnder
  <2>5. p[l + 1] + 1 = o /\ \A m \in 1 .. l : p[m] = q[m]
    <3>1. l + 1 \in 1 .. l + 1 /\ \A m \in 1 .. l : m \in 1 .. l + 1
      BY <1>1
    <3>2. p[l + 1] = n
      BY <2>2, <2>4, <3>1
    <3>3. n + 1 = o
      BY <2>1
    <3>4. \A m \in 1 .. l : p[m] = q[m]
      BY <2>2, <2>4, <3>1
    <3>. QED
      BY <3>2, <3>3, <3>4
  <2>6. Ends(p, l, p[l + 1] + 1)
    <3>1. Len(b.path) = l /\ \A m \in 1 .. l : b.path[m] = p[m]
      BY <2>5 DEF q, l
    <3>. QED
      BY <2>5, <3>1 DEF Ends
  <2>7. \A m \in l .. Len(p) - 1 : m = l \/ m \in l + 1 .. Len(p) - 1
    BY <1>1
  <2>8. \A m \in l .. Len(p) - 1 : Ends(p, m, p[m + 1] + 1)
    BY <2>4, <2>6, <2>7
  <2>9. l <= Len(p)
    BY <1>1, <2>4
  <2>. QED
    BY <2>4, <2>5, <2>8, <2>9 DEF LastUnder, q, l
<1>. QED
  BY <1>2, <1>3

(* When the body on top returns, the trace has all that is below it.       *)
LEMMA TopEnds ==
  ASSUME NEW t \in Seq(Key), NEW c \in Nat, NEW fs \in Seq(Frame), Stack(fs),
         Stands(t, c, fs), Len(Last(fs).obs) \in Returns[Last(fs).key]
  PROVE  Place(t, c) \in Seq(Nat) /\ LastUnder(Place(t, c), Last(fs).key.path)
<1>. DEFINE l == Len(fs)
<1>1. PICK o \in Nat : o = Len(fs[l].obs)
  BY StackPaths
<1>2. /\ Last(fs) = fs[l] /\ fs[l].key \in Body
  BY FrameOfStack DEF Frame
<1>3. c \in 0 .. Len(t) /\ LastCall(t, c, fs)
  BY DEF Stands
<1>4. Place(t, c) \in Seq(Nat)
  BY <1>3, PlaceType
<1>5. IF o = 0 THEN Place(t, c) = fs[l].key.path
              ELSE LastUnder(Place(t, c), Append(fs[l].key.path, o - 1))
  BY <1>1, <1>3 DEF LastCall
<1>6. o \in Returns[fs[l].key]
  BY <1>1, <1>2
<1>7. LastUnder(Place(t, c), fs[l].key.path)
  BY <1>2, <1>4, <1>5, <1>6, EndsAll
<1>. QED
  BY <1>2, <1>4, <1>7

(* When a step returns, its caller stands where the step's body stood.     *)
LEMMA StandsReturned ==
  ASSUME NEW t \in Seq(Key), NEW c \in Nat, NEW fs \in Seq(Frame), Stack(fs), Chain(fs),
         Stands(t, c, fs), Len(fs) >= 2, Len(Last(fs).obs) \in Returns[Last(fs).key],
         NEW v \in Observation
  PROVE  Covers(t, Last(fs).key) /\ Stands(t, c, Observed(Front(fs), v))
<1>. DEFINE l == Len(fs)
            k == Last(fs).key
            h == Front(fs)
            g == Observed(h, v)
<1>1. PICK n \in Nat : n = l - 1
  BY FrameOfStack
<1>2. /\ l = n + 1 /\ n \in 1 .. l /\ l \in 2 .. l /\ n < l
      /\ Last(fs) = fs[l] /\ k \in Key
  BY <1>1, FrameOfStack
<1>3. LastUnder(Place(t, c), k.path)
  BY TopEnds
<1>4. PICK a \in 1 .. c : t[a] = k /\ \A m \in a + 1 .. c : Below(k.path, t[m].path)
  BY <1>2 DEF Stands, Entered
<1>5. c \in a .. Len(t) /\ a \in 1 .. Len(t) /\ Place(t, c) = t[c].path
  BY <1>4 DEF Stands, Place
<1>6. Covers(t, k)
  BY <1>3, <1>4, <1>5 DEF Covers
<1>7. h \in Seq(Frame) /\ Stack(h) /\ Len(h) = n /\ \A i \in 1 .. n : h[i] = fs[i]
  BY <1>1, FrontStack
<1>8. PICK o \in Nat : o = Len(fs[n].obs)
  BY <1>2, StackPaths
<1>9. k.path = Append(fs[n].key.path, o)
  BY <1>1, <1>8, TopIsCall
<1>10. fs[n].obs \in Seq(Observation)
  BY <1>2, StackPaths
<1>. HIDE DEF h, l, k
<1>11. /\ Len(g) = n /\ Stack(g) /\ g \in Seq(Frame)
       /\ \A i \in 1 .. n : g[i].key = h[i].key
       /\ \A i \in 1 .. n - 1 : g[i] = h[i]
       /\ g[n].obs = Append(h[n].obs, v)
  BY <1>7, ObservedFrames
<1>. HIDE DEF g
<1>12. Len(g[n].obs) = o + 1
  <2>1. h[n] = fs[n]
    BY <1>2, <1>7
  <2>. QED
    BY <1>8, <1>10, <1>11, <2>1, AppendProperties
<1>13. Passed(t, c, g)
  <2>. SUFFICES ASSUME NEW m \in 1 .. c, NEW i \in 1 .. Len(g), NEW x \in Nat,
                       InCall(g, i, x, t[m])
                PROVE  x < Len(g[i].obs) \/ (x = Len(g[i].obs) /\ i < Len(g))
    BY DEF Passed
  <2>1. i \in 1 .. n /\ i \in 1 .. l /\ \A y \in 1 .. i - 1 : y \in 1 .. n
    BY <1>2, <1>11
  <2>2. InCall(fs, i, x, t[m])
    BY <1>7, <1>11, <2>1 DEF InCall
  <2>3. x < Len(fs[i].obs) \/ x = Len(fs[i].obs)
    BY <2>1, <2>2 DEF Stands, Passed, l
  <2>4. CASE i = n
    <3>1. x < o \/ x = o
      BY <1>8, <2>3, <2>4
    <3>2. x < o + 1
      BY <3>1
    <3>. QED
      BY <1>12, <2>4, <3>2
  <2>5. CASE i # n
    <3>1. i \in 1 .. n - 1 /\ i < Len(g)
      BY <1>11, <2>1, <2>5
    <3>2. g[i] = fs[i]
      BY <1>7, <1>11, <2>1, <3>1
    <3>. QED
      BY <2>3, <3>1, <3>2
  <2>. QED
    BY <2>4, <2>5
<1>14. Entered(t, c, g)
  <2>. SUFFICES ASSUME NEW i \in 2 .. Len(g)
                PROVE  \E x \in 1 .. c : /\ t[x] = g[i].key
                         /\ \A m \in x + 1 .. c : Below(g[i].key.path, t[m].path)
    BY DEF Entered
  <2>1. i \in 1 .. n /\ i \in 2 .. l
    BY <1>2, <1>11
  <2>2. g[i].key = fs[i].key
    BY <1>7, <1>11, <2>1
  <2>. QED
    BY <2>1, <2>2 DEF Stands, Entered, l
<1>15. LastCall(t, c, g)
  <2>1. g[n].key.path = fs[n].key.path
    BY <1>2, <1>7, <1>11
  <2>2. LastUnder(Place(t, c), Append(g[n].key.path, o))
    BY <1>3, <1>9, <2>1
  <2>3. o + 1 # 0 /\ (o + 1) - 1 = o
    OBVIOUS
  <2>4. Len(g[Len(g)].obs) # 0 /\ Len(g[Len(g)].obs) - 1 = o /\ g[Len(g)] = g[n]
    BY <1>11, <1>12, <2>3
  <2>. QED
    BY <2>2, <2>4 DEF LastCall
<1>. QED
  BY <1>6, <1>13, <1>14, <1>15 DEF Stands, g, h, k

(* An attempt begins where the trace begins.                               *)
LEMMA StandsBegins == \A t \in Seq(Key) : Stands(t, 0, RootFrames)
<1>. SUFFICES ASSUME NEW t \in Seq(Key)
              PROVE  Stands(t, 0, RootFrames)
  OBVIOUS
<1>1. Len(RootFrames) = 1 /\ RootFrames[1] = [key |-> Root, obs |-> <<>>]
  BY DEF RootFrames
<1>2. Passed(t, 0, RootFrames)
  BY DEF Passed
<1>3. Entered(t, 0, RootFrames)
  BY <1>1 DEF Entered
<1>4. LastCall(t, 0, RootFrames)
  BY <1>1 DEF LastCall, Place, Root
<1>. QED
  BY <1>2, <1>3, <1>4 DEF Stands

(* When run() returns the trace ends, and it is that of the workflow.      *)
LEMMA RootReturns ==
  ASSUME Deterministic, NEW t \in Seq(Key), NEW c \in Nat, NEW fs \in Seq(Frame), Stack(fs),
         Walk(t), Stands(t, c, fs), Len(fs) = 1, Len(Last(fs).obs) \in Returns[Root]
  PROVE  c = Len(t) /\ LastUnder(Place(t, Len(t)), <<>>)
<1>1. Last(fs) = fs[1] /\ fs[1].key = Root /\ Root.path = <<>>
  BY FrameOfStack DEF Stack, Root
<1>2. Place(t, c) \in Seq(Nat) /\ LastUnder(Place(t, c), <<>>)
  BY <1>1, TopEnds
<1>3. c <= Len(t)
  BY DEF Stands
<1>4. ASSUME c < Len(t)
      PROVE  FALSE
  <2>1. c \in 0 .. Len(t) - 1 /\ c + 1 \in 1 .. Len(t)
    BY <1>4
  <2>2. Follows(Place(t, c), t[c + 1].path) /\ t[c + 1] \in Key
    BY <2>1 DEF Walk
  <2>3. <<>> \in Seq(Nat) /\ Len(<<>>) = 0 /\ Len(t[c + 1].path) \in Nat
    BY <2>2, PathOfKey
  <2>4. Under(<<>>, t[c + 1])
    BY <2>3 DEF Under
  <2>. QED
    BY <1>2, <2>2, <2>3, <2>4, Leaves
<1>5. c = Len(t)
  BY <1>3, <1>4
<1>. QED
  BY <1>2, <1>5

LEMMA RootFinishes ==
  ASSUME Deterministic, NEW d \in State, NEW c \in Nat, NEW fs \in Seq(Frame), Stack(fs),
         Walk(d.t), Stands(d.t, c, fs), Len(fs) = 1, Len(Last(fs).obs) \in Returns[Root],
         Kept(d, fs, 1), Uncaught(fs)
  PROVE  c = Len(d.t) /\ Finished(d)
<1>1. d.t \in Seq(Key)
  BY DEF State
<1>2. c = Len(d.t) /\ LastUnder(Place(d.t, Len(d.t)), <<>>)
  BY <1>1, RootReturns
<1>3. ASSUME NEW n \in 1 .. Len(d.t), Len(d.t[n].path) = 1
      PROVE  Cached(d, d.t[n])
  <2>. DEFINE k == d.t[n]
  <2>1. k \in Key
    BY <1>1
  <2>2. k.path \in Seq(Nat) /\ 1 \in 1 .. Len(k.path)
    BY <1>3, <2>1, PathOfKey
  <2>3. PICK x \in Nat : x = k.path[1]
    BY <2>2
  <2>4. InCall(fs, 1, x, k)
    BY <1>3, <2>3 DEF InCall
  <2>5. x < Len(fs[1].obs)
    <3>1. n \in 1 .. c /\ 1 \in 1 .. Len(fs)
      BY <1>2
    <3>. QED
      BY <2>4, <3>1 DEF Stands, Passed
  <2>6. x + 1 \in 1 .. Len(fs[1].obs) /\ (x + 1) - 1 = x
    <3>1. Len(fs[1].obs) \in Nat
      BY StackPaths
    <3>. QED
      BY <2>5, <3>1
  <2>7. fs[1].obs[x + 1] # Caught
    BY <2>6 DEF Uncaught
  <2>8. PICK j \in Key : Len(j.path) = 1 /\ InCall(fs, 1, x, j) /\ Keeps(d, j, fs[1].obs[x + 1])
    BY <2>6, <2>7 DEF Kept
  <2>9. j.path \in Seq(Nat) /\ j.path[1] = x
    BY <2>8, PathOfKey DEF InCall
  <2>10. j.path = k.path
    <3>1. \A m \in 1 .. 1 : j.path[m] = k.path[m]
      BY <2>3, <2>9
    <3>. QED
      BY <1>3, <2>2, <2>8, <2>9, <3>1, SeqEqual
  <2>11. j = k
    BY <2>1, <2>10 DEF Deterministic, OneStepPerPlace
  <2>. QED
    BY <2>8, <2>11 DEF Keeps
<1>. QED
  BY <1>2, <1>3 DEF Finished

(* Operations that leave the trace alone.                                  *)
LEMMA SameTrace ==
  ASSUME NEW d \in State
  PROVE  /\ MarkRunning(d).t = d.t /\ MarkCancelled(d).t = d.t
         /\ MarkCompletedFromStoredResult(d).t = d.t
         /\ \A kind : MarkFailed(d, kind).t = d.t
         /\ \A r : MarkPublishingResult(d, r).t = d.t /\ MarkCompleted(d, r).t = d.t
         /\ \A k : IncrementStepRetryCount(d, k).t = d.t
         /\ \A k, v : SaveStepResult(d, k, v).t = d.t
<1>. USE DEF State
<1>1. /\ MarkRunning(d).t = d.t /\ MarkCancelled(d).t = d.t
      /\ \A kind : MarkFailed(d, kind).t = d.t
      /\ \A r : MarkPublishingResult(d, r).t = d.t
      /\ \A k : IncrementStepRetryCount(d, k).t = d.t
  BY DEF MarkRunning, MarkCancelled, MarkFailed, MarkPublishingResult,
     IncrementStepRetryCount
<1>2. MarkCompletedFromStoredResult(d).t = d.t /\ \A r : MarkCompleted(d, r).t = d.t
  BY DEF MarkCompletedFromStoredResult, MarkCompleted, Compact, Drop
<1>3. \A k, v : SaveStepResult(d, k, v).t = d.t
  BY DEF SaveStepResult, Cache, Drop
<1>. QED
  BY <1>1, <1>2, <1>3

LEMMA TracesSame ==
  ASSUME NEW d, NEW f, Traces(d), f.t = d.t,
         \A k \in Key : Cached(f, k) => Cached(d, k) \/ Covers(d.t, k),
         f.s \in {"completing", "completed"} => Finished(f)
  PROVE  Traces(f)
<1>1. Walk(f.t)
  BY DEF Traces
<1>2. \A k \in Key : Cached(f, k) => Covers(f.t, k)
  BY DEF Traces
<1>. QED
  BY <1>1, <1>2 DEF Traces

LEMMA TraceOps ==
  ASSUME NEW d \in State, Traces(d)
  PROVE  /\ Traces(MarkRunning(d)) /\ Traces(MarkCancelled(d))
         /\ \A kind : Traces(MarkFailed(d, kind))
         /\ d.s = "running" => \A k \in Key :
              /\ Traces(IncrementStepRetryCount(d, k))
              /\ Covers(d.t, k) =>
                   \A v \in Value \cup {Undefined} : Traces(SaveStepResult(d, k, v))
<1>1. Traces(MarkRunning(d))
  <2>. DEFINE f == MarkRunning(d)
  <2>1. f.t = d.t /\ f.s = "running" /\ \A k : Cached(f, k) <=> Cached(d, k)
    BY SameTrace, StatusOps, UncachingOps, SameCache
  <2>. QED
    BY <2>1, TracesSame
<1>2. Traces(MarkCancelled(d))
  <2>. DEFINE f == MarkCancelled(d)
  <2>1. f.t = d.t /\ f.s = "cancelled" /\ \A k : Cached(f, k) <=> Cached(d, k)
    BY SameTrace, StatusOps, UncachingOps, SameCache
  <2>. QED
    BY <2>1, TracesSame
<1>3. ASSUME NEW kind
      PROVE  Traces(MarkFailed(d, kind))
  <2>. DEFINE f == MarkFailed(d, kind)
  <2>1. f.t = d.t /\ f.s = "failed" /\ \A k : Cached(f, k) <=> Cached(d, k)
    BY SameTrace, StatusOps, UncachingOps, SameCache
  <2>. QED
    BY <2>1, TracesSame
<1>4. ASSUME d.s = "running", NEW k \in Key
      PROVE  Traces(IncrementStepRetryCount(d, k))
  <2>. DEFINE f == IncrementStepRetryCount(d, k)
  <2>1. f.t = d.t /\ f.s = "running" /\ \A j : Cached(f, j) <=> Cached(d, j)
    BY <1>4, SameTrace, StatusOps, UncachingOps, SameCache
  <2>. QED
    BY <2>1, TracesSame
<1>5. ASSUME d.s = "running", NEW k \in Key, Covers(d.t, k), NEW v \in Value \cup {Undefined}
      PROVE  Traces(SaveStepResult(d, k, v))
  <2>. DEFINE f == SaveStepResult(d, k, v)
  <2>1. f.t = d.t
    BY SameTrace
  <2>2. f.s = "running"
    BY <1>5, StatusOps
  <2>3. Retains(d, f, {k})
    BY <1>5, SaveRetains
  <2>4. \A j \in Key : Cached(f, j) => Cached(d, j) \/ Covers(d.t, j)
    BY <1>5, <2>3 DEF Retains, Keeps
  <2>. HIDE DEF f
  <2>. QED
    BY <2>1, <2>2, <2>4, TracesSame DEF f
<1>. QED
  BY <1>1, <1>2, <1>3, <1>4, <1>5

(* A finished state stays so while run() ends.                             *)
LEMMA FinishOps ==
  ASSUME NEW d \in State, Traces(d), Finished(d)
  PROVE  /\ \A r \in Seq(Observation) :
              /\ Traces(MarkPublishingResult(d, r))
              /\ Traces(MarkCompleted(d, r)) /\ Finished(MarkCompleted(d, r))
         /\ Traces(MarkCompletedFromStoredResult(d))
         /\ Finished(MarkCompletedFromStoredResult(d))
         /\ \A s : Traces([d EXCEPT !.s = s])
<1>1. ASSUME NEW f, f.t = d.t, Preserves(d, f), Retains(d, f, {})
      PROVE  Traces(f) /\ Finished(f)
  <2>1. d.t \in Seq(Key)
    BY DEF State
  <2>2. ASSUME NEW n \in 1 .. Len(f.t), Len(f.t[n].path) = 1
        PROVE  Cached(f, f.t[n])
    <3>. DEFINE k == d.t[n]
    <3>1. k = f.t[n] /\ k \in Key /\ Cached(d, k)
      BY <1>1, <2>1, <2>2 DEF Finished
    <3>2. k.path \in Seq(Nat) /\ 1 \in 1 .. Len(k.path)
      BY <2>2, <3>1, PathOfKey
    <3>3. PICK x \in Nat : x = k.path[1]
      BY <3>2
    <3>4. k.path = <<x>>
      <4>1. <<x>> \in Seq(Nat) /\ Len(<<x>>) = 1 /\ \A m \in 1 .. 1 : <<x>>[m] = k.path[m]
        BY <3>3
      <4>. QED
        BY <2>2, <3>1, <3>2, <4>1, SeqEqual
    <3>5. Keeps(d, k, StepResult(d, k))
      BY <3>1 DEF Keeps
    <3>6. Keeps(f, k, StepResult(d, k))
      BY <1>1, <3>1, <3>4, <3>5, RootCallsStay
    <3>. QED
      BY <3>1, <3>6 DEF Keeps
  <2>3. Finished(f)
    BY <1>1, <2>2 DEF Finished
  <2>4. \A k \in Key : Cached(f, k) => Cached(d, k)
    BY <1>1 DEF Retains, Keeps
  <2>5. Traces(f)
    BY <1>1, <2>3, <2>4, TracesSame
  <2>. QED
    BY <2>3, <2>5
<1>2. ASSUME NEW r \in Seq(Observation)
      PROVE  Traces(MarkPublishingResult(d, r))
  <2>. DEFINE f == MarkPublishingResult(d, r)
  <2>1. f.t = d.t /\ f.c = d.c /\ f.u = d.u
    BY SameTrace, UncachingOps
  <2>. HIDE DEF f
  <2>. QED
    BY <1>1, <2>1, SameCache, SameCacheRetains DEF f
<1>3. ASSUME NEW r \in Seq(Observation)
      PROVE  Traces(MarkCompleted(d, r)) /\ Finished(MarkCompleted(d, r))
  BY <1>1, SameTrace, CompletionPreserves, CompletionRetains
<1>4. Traces(MarkCompletedFromStoredResult(d)) /\ Finished(MarkCompletedFromStoredResult(d))
  BY <1>1, SameTrace, CompletionPreserves, CompletionRetains
<1>5. ASSUME NEW s
      PROVE  Traces([d EXCEPT !.s = s])
  <2>. DEFINE f == [d EXCEPT !.s = s]
  <2>1. f.t = d.t /\ f.c = d.c /\ f.u = d.u
    BY DEF State
  <2>. HIDE DEF f
  <2>. QED
    BY <1>1, <2>1, SameCache, SameCacheRetains DEF f
<1>. QED
  BY <1>2, <1>3, <1>4, <1>5

LEMMA RecordTraces ==
  ASSUME NEW d \in State, Traces(d), d.s = "running", NEW fs \in Seq(Frame), Stack(fs),
         Stands(d.t, Len(d.t), fs), NEW k \in Callable(Last(fs))
  PROVE  LET f == RecordStep(d, k) IN
         /\ f \in State /\ f.s = "running" /\ f.t \in Seq(Key) /\ Len(f.t) = Len(d.t) + 1
         /\ f.t[Len(d.t) + 1] = k
         /\ Traces(f) /\ Stands(f.t, Len(d.t), fs) /\ ~Cached(f, k)
<1>. DEFINE f == RecordStep(d, k)
            x == Append(d.t, k)
<1>1. d.t \in Seq(Key) /\ k \in Key /\ Len(d.t) \in Nat
  BY DEF State, Callable
<1>2. f.t = x
  BY DEF RecordStep, State
<1>3. Walk(d.t)
  BY DEF Traces
<1>4. /\ x \in Seq(Key) /\ Len(x) = Len(d.t) + 1 /\ x[Len(d.t) + 1] = k
      /\ Walk(x) /\ Stands(x, Len(d.t), fs)
      /\ \A j \in Key : Covers(d.t, j) => Covers(x, j)
  BY <1>1, <1>3, TraceGrows
<1>5. /\ f \in State /\ f.s = "running"
      /\ \A j : Cached(f, j) <=> Cached(d, j)
  <2>1. f \in State
    BY <1>1, CacheOpsType
  <2>2. f.s = "running"
    BY StatusOps
  <2>3. f.c = d.c /\ f.u = d.u
    BY UncachingOps
  <2>. QED
    BY <2>1, <2>2, <2>3, SameCache
<1>6. ~Cached(d, k)
  <2>1. \A m \in 1 .. Len(d.t) : d.t[m] # k
    BY <1>1, NextFollows
  <2>2. ~Covers(d.t, k)
    BY <2>1 DEF Covers
  <2>. QED
    BY <1>1, <2>2 DEF Traces
<1>. HIDE DEF f, x
<1>7. \A j \in Key : Cached(f, j) => Covers(f.t, j)
  BY <1>2, <1>4, <1>5 DEF Traces
<1>8. Traces(f)
  BY <1>2, <1>4, <1>5, <1>7 DEF Traces
<1>. QED
  BY <1>2, <1>4, <1>5, <1>6, <1>8 DEF f

(* Without a trace the probe takes every call for one beyond its end.      *)
ProbesAreTraced == AutoProbe => TraceEnabled

(* The strengthening of NoFalseDivergence that is inductive with IInv,     *)
(* ReplayInv, RunStatus and what run() has seen: both copies of the trace  *)
(* are walks, the frames stand where the cursor is, and the probe starts   *)
(* from a finished trace.                                                  *)
TraceInv ==
  /\ TraceEnabled => Traces(store) /\ Traces(mem)
  /\ TraceEnabled /\ pc = "body" => Stands(mem.t, cursor, frames)
  /\ probing => TraceEnabled /\ Finished(mem)
  /\ NoFalseDivergence

ReplayContext ==
  /\ IInv /\ ReplayInv /\ RunStatus
  /\ pc \in {"body", "catch"} => Uncaught(frames)

(* Without catches, an error leaves no body that runs.                     *)
LEMMA DeliverLeaves ==
  ASSUME Deterministic, NEW fs, NEW kind, Deliver(fs, kind)
  PROVE  frames' = fs /\ err' = kind /\ pc' \in {"caught", "catch"}
  BY DEF Deterministic, Deliver

LEMMA EndTraces ==
  ASSUME TraceEnabled => Traces(store'), NEW how, EndRun(how)
  PROVE  TraceInv'
  BY DEF EndRun, TraceInv, NoFalseDivergence

(* What is known of a body that runs.                                      *)
LEMMA BodyContext ==
  ASSUME ReplayContext, TraceInv, pc = "body"
  PROVE  /\ mem \in State /\ mem.t \in Seq(Key) /\ cursor \in Nat
         /\ frames \in Seq(Frame) /\ Stack(frames) /\ Chain(frames)
         /\ ~probing => mem.s = "running"
         /\ probing => Len(frames) = 1
         /\ TraceEnabled => Walk(mem.t) /\ Stands(mem.t, cursor, frames)
  BY DEF ReplayContext, IInv, StateInv, State, ControlType, FramesInv, ReplayInv, RunStatus,
     TraceInv, Traces

(* When the call is entered, the trace d.t has it at the cursor.           *)
LEMMA EnterTraces ==
  ASSUME Deterministic, ReplayContext, TraceInv, pc = "body", NEW k \in Key, k \in Callable(Top),
         mem' \in State, Enter(mem', k), probing' = probing,
         probing => mem' = mem,
         TraceEnabled => /\ Traces(store') /\ Traces(mem')
                         /\ Stands(mem'.t, cursor, frames)
                         /\ cursor < Len(mem'.t) /\ mem'.t[cursor + 1] = k
  PROVE  TraceInv'
<1>1. /\ cursor \in Nat /\ frames \in Seq(Frame) /\ Stack(frames) /\ Chain(frames)
      /\ k \in Callable(Last(frames))
      /\ probing => Len(frames) = 1
  BY BodyContext DEF Top
<1>2. PICK c \in Nat : c = cursor
  BY <1>1
<1>3. PICK t \in Seq(Key) : t = mem'.t
  BY DEF State
<1>4. PICK fs \in Seq(Frame) : fs = frames
  BY <1>1
<1>5. /\ Stack(fs) /\ Chain(fs) /\ k \in Callable(Last(fs))
      /\ probing => Len(fs) = 1
  BY <1>1, <1>4
<1>6. TraceEnabled => Walk(t) /\ Stands(t, c, fs) /\ c < Len(t) /\ t[c + 1] = k
  BY <1>2, <1>3, <1>4 DEF Traces
<1>7. CASE Cached(mem', k)
  <2>1. PICK v \in Observation : v = StepResult(mem', k)
    BY <1>7 DEF Cached, StepResult, State, Observation
  <2>. DEFINE h == Observed(fs, v)
              n == SkipDescendants(t, c + 1, k.path)
  <2>2. ASSUME TraceEnabled
        PROVE  Stands(t, n, h)
    <3>1. Covers(t, k)
      BY <1>3, <1>7, <2>2 DEF Traces
    <3>2. Walk(t) /\ Stands(t, c, fs) /\ c < Len(t) /\ t[c + 1] = k
      BY <1>6, <2>2
    <3>. QED
      BY <1>5, <3>1, <3>2, StandsSkipped
  <2>3. cursor' = n /\ frames' = h /\ pc' = pc /\ err' = err
    BY <1>2, <1>3, <1>4, <1>7, <2>1 DEF Enter
  <2>. HIDE DEF h, n
  <2>. QED
    BY <1>3, <2>2, <2>3 DEF TraceInv, NoFalseDivergence
<1>8. CASE ~Cached(mem', k)
  <2>. DEFINE g == Append(fs, [key |-> k, obs |-> <<>>])
  <2>1. ~probing
    <3>. SUFFICES ASSUME probing
                  PROVE  FALSE
      OBVIOUS
    <3>1. TraceEnabled /\ Finished(mem) /\ mem' = mem
      BY DEF TraceInv
    <3>2. c + 1 \in 1 .. Len(t) /\ t[c + 1] = k /\ t = mem.t
      BY <1>3, <1>6, <3>1
    <3>3. Len(k.path) = 1
      <4>1. Len(k.path) = Len(fs)
        BY <1>5, CallOfTop
      <4>. QED
        BY <1>5, <4>1
    <3>4. Cached(mem, k)
      BY <3>1, <3>2, <3>3 DEF Finished
    <3>. QED
      BY <1>8, <3>1, <3>4
  <2>2. cursor' = c + 1 /\ frames' = g /\ pc' = pc /\ err' = err
    BY <1>2, <1>4, <1>8, <2>1 DEF Enter
  <2>3. ASSUME TraceEnabled
        PROVE  Stands(t, c + 1, g)
    <3>1. Stands(t, c, fs) /\ c < Len(t) /\ t[c + 1] = k
      BY <1>6, <2>3
    <3>. QED
      BY <1>5, <3>1, StandsEntered
  <2>. HIDE DEF g
  <2>. QED
    BY <1>3, <2>1, <2>2, <2>3 DEF TraceInv, NoFalseDivergence
<1>. QED
  BY <1>7, <1>8

LEMMA CallTraces ==
  ASSUME Deterministic, ReplayContext, TraceInv, NEW k \in Key,
         ReplayStep(k) \/ TraceStep(k) \/ DivergeStep(k)
  PROVE  TraceInv'
<1>1. pc = "body" /\ k \in Callable(Top) /\ k \in Callable(Last(frames))
  BY DEF ReplayStep, TraceStep, DivergeStep, Top
<1>2. /\ mem \in State /\ mem.t \in Seq(Key) /\ Len(mem.t) \in Nat /\ cursor \in Nat
      /\ frames \in Seq(Frame) /\ Stack(frames) /\ Chain(frames)
      /\ ~probing => mem.s = "running"
      /\ TraceEnabled => Walk(mem.t) /\ Stands(mem.t, cursor, frames)
  BY <1>1, BodyContext
<1>3. Traced => TraceEnabled
  BY DEF Traced, TraceInv
<1>4. TraceEnabled => cursor <= Len(mem.t)
  BY <1>2 DEF Stands
<1>5. ASSUME Traced, ~Unvisited(mem, cursor)
      PROVE  mem.t[cursor + 1] = k
  <2>1. cursor < Len(mem.t)
    BY <1>2, <1>5 DEF Unvisited
  <2>. QED
    BY <1>1, <1>2, <1>3, <1>5, <2>1, NextIsTraced
<1>6. CASE ReplayStep(k)
  <2>1. /\ store' = store /\ mem' = mem /\ probing' = probing /\ Enter(mem', k)
        /\ Traced => ~Unvisited(mem, cursor)
    BY <1>6 DEF ReplayStep, durable
  <2>2. TraceEnabled => /\ Traces(store') /\ Traces(mem')
                        /\ Stands(mem'.t, cursor, frames)
                        /\ cursor < Len(mem'.t) /\ mem'.t[cursor + 1] = k
    <3>1. TraceEnabled => cursor < Len(mem.t)
      BY <1>2, <2>1 DEF Traced, Unvisited
    <3>. QED
      BY <1>2, <1>5, <2>1, <3>1 DEF Traced, TraceInv
  <2>. QED
    BY <1>1, <1>2, <2>1, <2>2, EnterTraces
<1>7. CASE TraceStep(k)
  <2>. DEFINE d == RecordStep(mem, k)
  <2>1. TraceEnabled /\ ~probing /\ ~probing' /\ cursor = Len(mem.t)
    BY <1>2, <1>3, <1>4, <1>7 DEF TraceStep, Unvisited
  <2>2. Traces(store) /\ Traces(mem)
    BY <2>1 DEF TraceInv
  <2>3. /\ d \in State /\ d.s = "running" /\ d.t \in Seq(Key) /\ Len(d.t) = Len(mem.t) + 1
        /\ d.t[Len(mem.t) + 1] = k
        /\ Traces(d) /\ Stands(d.t, Len(mem.t), frames) /\ ~Cached(d, k)
    BY <1>1, <1>2, <2>1, <2>2, RecordTraces
  <2>4. \/ FlushOk(d, TRUE) /\ Enter(d, k)
        \/ FlushFails(d, TRUE) /\ Deliver(frames, "error") /\ UNCHANGED cursor
    BY <1>7 DEF TraceStep
  <2>. HIDE DEF d
  <2>5. mem' = d /\ store' \in {store, d}
    BY <2>4 DEF FlushOk, FlushFails
  <2>6. Traces(store') /\ Traces(mem')
    BY <2>2, <2>3, <2>5
  <2>7. CASE FlushOk(d, TRUE) /\ Enter(d, k)
    <3>1. mem' \in State /\ Enter(mem', k) /\ probing' = probing
      BY <1>7, <2>3, <2>5, <2>7 DEF TraceStep
    <3>2. /\ Stands(mem'.t, cursor, frames) /\ cursor < Len(mem'.t)
          /\ mem'.t[cursor + 1] = k
      BY <1>2, <2>1, <2>3, <2>5
    <3>. QED
      BY <1>1, <2>1, <2>6, <3>1, <3>2, EnterTraces
  <2>8. CASE FlushFails(d, TRUE) /\ Deliver(frames, "error")
    <3>1. err' = "error" /\ pc' \in {"caught", "catch"}
      BY <2>8, DeliverLeaves
    <3>. QED
      BY <2>1, <2>6, <3>1 DEF TraceInv, NoFalseDivergence
  <2>. QED
    BY <2>4, <2>7, <2>8
<1>8. CASE DivergeStep(k)
  <2>1. Traced /\ TraceEnabled
    BY <1>3, <1>8 DEF DivergeStep
  <2>2. ~Diverges(mem, cursor, k)
    BY <1>5, <2>1 DEF Diverges
  <2>3. probing /\ Unvisited(mem, cursor)
    BY <1>8, <2>2 DEF DivergeStep
  <2>4. cursor = Len(mem.t) /\ LastUnder(Place(mem.t, cursor), <<>>)
    BY <1>2, <1>4, <2>1, <2>3 DEF Unvisited, TraceInv, Finished
  <2>5. Place(mem.t, cursor) \in Seq(Nat) /\ Follows(Place(mem.t, cursor), k.path)
    BY <1>1, <1>2, <2>1, NextFollows
  <2>6. <<>> \in Seq(Nat) /\ Under(<<>>, k)
    <3>1. Len(<<>>) = 0 /\ Len(k.path) \in Nat
      BY PathOfKey
    <3>. QED
      BY <3>1 DEF Under
  <2>. QED
    BY <2>4, <2>5, <2>6, Leaves
<1>. QED
  BY <1>6, <1>7, <1>8

LEMMA StepTraces ==
  ASSUME Deterministic, ReplayContext, TraceInv, Steps
  PROVE  TraceInv'
<1>1. ASSUME NEW v \in Value \cup {Undefined}, CompleteStep(v)
      PROVE  TraceInv'
  <2>. DEFINE k == Top.key
              d == SaveStepResult(mem, k, v)
              g == Observed(Front(frames), v)
  <2>1. /\ pc = "body" /\ Len(frames) # 1 /\ Len(Last(frames).obs) \in Returns[Last(frames).key]
        /\ probing' = probing /\ cursor' = cursor
    BY <1>1 DEF CompleteStep, InRoot, Top
  <2>2. /\ mem \in State /\ mem.t \in Seq(Key) /\ cursor \in Nat
        /\ frames \in Seq(Frame) /\ Stack(frames) /\ Chain(frames)
        /\ ~probing /\ mem.s = "running"
        /\ TraceEnabled => Stands(mem.t, cursor, frames)
    BY <2>1, BodyContext
  <2>3. Len(frames) >= 2 /\ k \in Key
    <3>1. PICK n \in Nat : n = Len(frames) /\ n >= 1
      BY <2>2, FrameOfStack
    <3>2. n >= 2 /\ Len(frames) >= 2
      <4>1. n # 1
        BY <2>1, <3>1
      <4>. QED
        BY <3>1, <4>1
    <3>. QED
      BY <2>2, <3>2, FrameOfStack DEF Top
  <2>4. v \in Observation
    BY DEF Observation
  <2>5. TraceEnabled => Covers(mem.t, k) /\ Stands(mem.t, cursor, g)
    BY <2>1, <2>2, <2>3, <2>4, StandsReturned DEF Top
  <2>6. \/ FlushOk(d, TRUE) /\ frames' = g /\ UNCHANGED <<pc, err>>
        \/ FlushFails(d, TRUE) /\ pc' = "catch" /\ err' = "error"
    BY <1>1 DEF CompleteStep
  <2>7. d.t = mem.t
    BY <2>2, SameTrace
  <2>8. TraceEnabled => Traces(d)
    BY <2>2, <2>3, <2>5, TraceOps DEF TraceInv
  <2>. HIDE DEF d, g
  <2>9. mem' = d /\ store' \in {store, d}
    BY <2>6 DEF FlushOk, FlushFails
  <2>10. TraceEnabled => Traces(store') /\ Traces(mem')
    BY <2>8, <2>9 DEF TraceInv
  <2>. QED
    BY <2>1, <2>2, <2>5, <2>6, <2>7, <2>9, <2>10 DEF TraceInv, NoFalseDivergence
<1>2. ASSUME NEW kind \in {"error", "nonRetryable", "sleep"}, Throw(kind)
      PROVE  TraceInv'
  <2>1. /\ store' = store /\ mem' = mem /\ probing' = probing
        /\ pc' \in {"caught", "catch"} /\ err' = kind
    BY <1>2 DEF Throw, durable, context
  <2>. QED
    BY <2>1 DEF TraceInv, NoFalseDivergence
<1>3. CASE ChargeFailure
  <2>. DEFINE d == IncrementStepRetryCount(mem, Top.key)
  <2>1. /\ pc = "catch" /\ frames \in Seq(Frame) /\ Stack(frames) /\ Len(frames) >= 2
        /\ mem \in State /\ ~probing /\ mem.s = "running"
    BY <1>3 DEF ChargeFailure, ReplayContext, IInv, StateInv, ControlType, FramesInv, RunStatus
  <2>2. Top.key \in Key
    BY <2>1, FrameOfStack DEF Top
  <2>3. TraceEnabled => Traces(d)
    BY <2>1, <2>2, TraceOps DEF TraceInv
  <2>4. mem' = d /\ store' \in {store, d} /\ probing' = probing
    BY <1>3 DEF ChargeFailure, FlushOk, FlushFails
  <2>5. pc' \in {"caught", "catch"} /\ err' \in {"retry", "error"}
    BY <1>3, DeliverLeaves DEF ChargeFailure
  <2>. HIDE DEF d
  <2>6. TraceEnabled => Traces(store') /\ Traces(mem')
    BY <2>3, <2>4 DEF TraceInv
  <2>. QED
    BY <2>1, <2>4, <2>5, <2>6 DEF TraceInv, NoFalseDivergence
<1>4. CASE Rethrow
  <2>1. store' = store /\ mem' = mem /\ probing' = probing /\ Deliver(Front(frames), err)
    BY <1>4 DEF Rethrow, durable
  <2>2. pc' \in {"caught", "catch"} /\ err' = err
    BY <2>1, DeliverLeaves
  <2>. QED
    BY <2>1, <2>2 DEF TraceInv, NoFalseDivergence
<1>. QED
  BY <1>1, <1>2, <1>3, <1>4 DEF Steps

LEMMA ReturnContext ==
  ASSUME Deterministic, ReplayContext, TraceInv, CanReturn
  PROVE  /\ mem \in State /\ Top.obs \in Seq(Observation)
         /\ TraceEnabled => TraceConsumed(mem, cursor) /\ Traces(mem) /\ Finished(mem)
<1>1. /\ pc = "body" /\ Len(frames) = 1 /\ Len(Last(frames).obs) \in Returns[Root]
  BY DEF CanReturn, InRoot, Top
<1>2. /\ mem \in State /\ cursor \in Nat /\ frames \in Seq(Frame) /\ Stack(frames)
      /\ TraceEnabled => Walk(mem.t) /\ Stands(mem.t, cursor, frames)
  BY <1>1, BodyContext
<1>3. Kept(mem, frames, 1) /\ Uncaught(frames)
  BY <1>1 DEF ReplayContext, ReplayInv, Replays
<1>4. TraceEnabled => cursor = Len(mem.t) /\ Finished(mem)
  BY <1>1, <1>2, <1>3, RootFinishes
<1>5. Top.obs \in Seq(Observation)
  BY <1>1, TopType DEF ReplayContext
<1>. QED
  BY <1>2, <1>4, <1>5 DEF TraceInv, TraceConsumed

(* The write that completes the workflow, and what run() does after it.    *)
LEMMA CompletionTraces ==
  ASSUME ProbesAreTraced, TraceInv, TraceEnabled => Traces(store') /\ Finished(store'),
         store' \in State, mem' = store', AfterCompletion
  PROVE  TraceInv'
<1>1. CASE AutoProbe
  <2>1. /\ TraceEnabled /\ frames' = RootFrames /\ cursor' = 0 /\ err' = err
        /\ Traces(store') /\ Finished(store')
    BY <1>1 DEF ProbesAreTraced, AfterCompletion
  <2>2. PICK t \in Seq(Key) : t = mem'.t
    BY DEF State
  <2>3. Stands(t, 0, RootFrames)
    BY StandsBegins
  <2>. QED
    BY <2>1, <2>2, <2>3 DEF TraceInv, NoFalseDivergence
<1>2. CASE ~AutoProbe
  BY <1>2, EndTraces DEF AfterCompletion
<1>. QED
  BY <1>1, <1>2

LEMMA ReturnTraces ==
  ASSUME Deterministic, ProbesAreTraced, ReplayContext, TraceInv, Returning
  PROVE  TraceInv'
<1>1. CASE ReturnDiverged
  <2>1. CanReturn /\ Traced /\ ~TraceConsumed(mem, cursor)
    BY <1>1 DEF ReturnDiverged
  <2>. QED
    BY <2>1, ReturnContext DEF Traced, TraceInv
<1>2. CASE Complete
  <2>. DEFINE d == MarkCompleted(mem, Top.obs)
  <2>1. CanReturn /\ ~probing
    BY <1>2 DEF Complete
  <2>2. d \in State /\ (TraceEnabled => Traces(d) /\ Finished(d))
    BY <2>1, ReturnContext, FinishOps, CompletionType
  <2>3. \/ FlushOk(d, TRUE) /\ AfterCompletion
        \/ FlushFails(d, TRUE) /\ pc' = "caught" /\ err' = "error" /\ probing' = probing
    BY <1>2 DEF Complete, context
  <2>. HIDE DEF d
  <2>4. CASE FlushOk(d, TRUE) /\ AfterCompletion
    BY <2>2, <2>4, CompletionTraces DEF FlushOk
  <2>5. CASE FlushFails(d, TRUE) /\ pc' = "caught" /\ err' = "error" /\ probing' = probing
    <3>1. TraceEnabled => Traces(store') /\ Traces(mem')
      BY <2>2, <2>5 DEF FlushFails, TraceInv
    <3>. QED
      BY <2>1, <2>5, <3>1 DEF TraceInv, NoFalseDivergence
  <2>. QED
    BY <2>3, <2>4, <2>5
<1>3. CASE StoreResult
  <2>. DEFINE d == MarkPublishingResult(mem, Top.obs)
  <2>1. CanReturn /\ ~probing /\ probing' = probing
    BY <1>3 DEF StoreResult, context
  <2>2. TraceEnabled => Traces(d)
    BY <2>1, ReturnContext, FinishOps
  <2>3. /\ FlushOk(d, TRUE) \/ FlushFails(d, TRUE)
        /\ pc' \in {"publish", "caught"} /\ err' \in {err, "error"}
    BY <1>3 DEF StoreResult
  <2>. HIDE DEF d
  <2>4. TraceEnabled => Traces(store') /\ Traces(mem')
    BY <2>2, <2>3 DEF FlushOk, FlushFails, TraceInv
  <2>. QED
    BY <2>1, <2>3, <2>4 DEF TraceInv, NoFalseDivergence
<1>4. CASE ReturnUnserializable
  <2>1. /\ CanReturn /\ ~probing /\ probing' = probing /\ store' = store
        /\ mem' = [mem EXCEPT !.s = IF Publishes THEN "completing" ELSE "completed"]
        /\ pc' = "caught" /\ err' = "error"
    BY <1>4 DEF ReturnUnserializable, context, durable
  <2>2. TraceEnabled => Traces(mem')
    BY <2>1, ReturnContext, FinishOps
  <2>. QED
    BY <2>1, <2>2 DEF TraceInv, NoFalseDivergence
<1>5. CASE ReturnFromProbe
  BY <1>5, EndTraces DEF ReturnFromProbe, durable, TraceInv
<1>6. CASE Publish
  <2>1. CASE EndRun("rejected")
    BY <1>6, <2>1, EndTraces DEF Publish, TraceInv
  <2>2. CASE pc' = "finalize" /\ UNCHANGED <<mem, context, failures, err, outcome, spent>>
    <3>1. store' = store /\ mem' = mem /\ probing' = probing /\ err' = err
      BY <1>6, <2>2 DEF Publish, context
    <3>. QED
      BY <2>2, <3>1 DEF TraceInv, NoFalseDivergence
  <2>. QED
    BY <1>6, <2>1, <2>2 DEF Publish
<1>7. CASE Finalize
  <2>. DEFINE d == MarkCompletedFromStoredResult(mem)
  <2>1. pc = "finalize" /\ mem \in State /\ mem.s = "completing"
    BY <1>7 DEF Finalize, ReplayContext, IInv, StateInv, RunStatus
  <2>2. TraceEnabled => Traces(mem) /\ Finished(mem)
    BY <2>1 DEF TraceInv, Traces
  <2>3. d \in State /\ (TraceEnabled => Traces(d) /\ Finished(d))
    BY <2>1, <2>2, FinishOps, CompletionType
  <2>4. \/ FlushOk(d, FALSE) /\ AfterCompletion
        \/ store' \in {store, d} /\ EndRun("rejected")
    BY <1>7 DEF Finalize
  <2>. HIDE DEF d
  <2>5. CASE FlushOk(d, FALSE) /\ AfterCompletion
    BY <2>3, <2>5, CompletionTraces DEF FlushOk
  <2>6. CASE store' \in {store, d} /\ EndRun("rejected")
    BY <2>3, <2>6, EndTraces DEF TraceInv
  <2>. QED
    BY <2>4, <2>5, <2>6
<1>. QED
  BY <1>1, <1>2, <1>3, <1>4, <1>5, <1>6, <1>7 DEF Returning

LEMMA AttemptTraces ==
  ASSUME ReplayContext, TraceInv, Run \/ Cancel \/ BeginAttempt \/ ResumePublishing
  PROVE  TraceInv'
<1>1. store \in State /\ mem \in State
  BY DEF ReplayContext, IInv, StateInv
<1>2. pc \in {"idle", "attempt"} /\ ~probing
  BY DEF ReplayContext, RunStatus, Run, Cancel, BeginAttempt, ResumePublishing
<1>3. CASE Run
  <2>1. /\ store' = store /\ mem' \in {mem, store} /\ pc' \in {pc, "attempt"}
        /\ probing' = probing /\ err' = err
    BY <1>3 DEF Run, durable, context
  <2>. QED
    BY <1>2, <2>1 DEF TraceInv, NoFalseDivergence
<1>4. CASE Cancel
  <2>1. /\ store' = MarkCancelled(store) /\ mem' = store' /\ pc' = pc
        /\ probing' = probing /\ err' = err
    BY <1>4 DEF Cancel, context
  <2>2. TraceEnabled => Traces(store') /\ Traces(mem')
    BY <1>1, <2>1, TraceOps DEF TraceInv
  <2>. QED
    BY <1>2, <2>1, <2>2 DEF TraceInv, NoFalseDivergence
<1>5. CASE BeginAttempt
  <2>. DEFINE d == MarkRunning(mem)
  <2>1. TraceEnabled => Traces(d)
    BY <1>1, TraceOps DEF TraceInv
  <2>2. /\ cursor' = 0 /\ probing' = probing
        /\ \/ FlushOk(d, TRUE) /\ frames' = RootFrames /\ err' = err
           \/ FlushFails(d, TRUE) /\ pc' = "caught" /\ err' = "error"
    BY <1>5 DEF BeginAttempt
  <2>3. d \in State
    BY <1>1, StatusOpsType
  <2>. HIDE DEF d
  <2>4. mem' = d /\ store' \in {store, d}
    BY <2>2 DEF FlushOk, FlushFails
  <2>5. TraceEnabled => Traces(store') /\ Traces(mem')
    BY <2>1, <2>4 DEF TraceInv
  <2>6. PICK t \in Seq(Key) : t = mem'.t
    BY <2>3, <2>4 DEF State
  <2>7. Stands(t, 0, RootFrames)
    BY StandsBegins
  <2>. QED
    BY <1>2, <2>2, <2>5, <2>6, <2>7 DEF TraceInv, NoFalseDivergence
<1>6. CASE ResumePublishing
  <2>1. /\ store' = store /\ mem' = mem /\ pc' = "publish"
        /\ probing' = probing /\ err' = err
    BY <1>6 DEF ResumePublishing, durable, context
  <2>. QED
    BY <1>2, <2>1 DEF TraceInv, NoFalseDivergence
<1>. QED
  BY <1>3, <1>4, <1>5, <1>6

LEMMA CatchTraces ==
  ASSUME ReplayContext, TraceInv, Catching \/ Crash
  PROVE  TraceInv'
<1>1. CASE FailProbe \/ Park \/ Crash \/ HandleFailure
  <2>1. store' = store /\ \E how : EndRun(how)
    BY <1>1 DEF FailProbe, Park, Crash, HandleFailure, durable
  <2>. QED
    BY <2>1, EndTraces DEF TraceInv
<1>2. CASE RetryStep \/ RetryWorkflow
  <2>1. /\ store' = store /\ mem' = mem /\ pc' = "attempt"
        /\ probing' = probing /\ err' = "none"
    BY <1>2 DEF RetryStep, RetryWorkflow, durable
  <2>. QED
    BY <2>1 DEF TraceInv, NoFalseDivergence
<1>3. CASE Fail
  <2>. DEFINE d == MarkFailed(mem, err)
  <2>1. mem \in State /\ ~probing
    BY <1>3 DEF ReplayContext, IInv, StateInv, Fail
  <2>2. TraceEnabled => Traces(d)
    BY <2>1, TraceOps DEF TraceInv
  <2>3. \/ FlushOk(d, FALSE) /\ pc' = "failed" /\ UNCHANGED <<context, failures, err, outcome>>
        \/ store' \in {store, d} /\ EndRun("rejected")
    BY <1>3 DEF Fail
  <2>. HIDE DEF d
  <2>4. CASE FlushOk(d, FALSE) /\ pc' = "failed" /\ UNCHANGED <<context, failures, err, outcome>>
    <3>1. store' = d /\ mem' = d /\ probing' = probing /\ err' = err
      BY <2>4 DEF FlushOk, context
    <3>. QED
      BY <2>1, <2>2, <2>4, <3>1 DEF TraceInv, NoFalseDivergence
  <2>5. CASE store' \in {store, d} /\ EndRun("rejected")
    BY <2>2, <2>5, EndTraces DEF TraceInv
  <2>. QED
    BY <2>3, <2>4, <2>5
<1>. QED
  BY <1>1, <1>2, <1>3 DEF Catching

LEMMA NextTraces ==
  ASSUME Deterministic, ProbesAreTraced
  PROVE  ReplayContext /\ TraceInv /\ [Next]_vars => TraceInv'
<1>. SUFFICES ASSUME ReplayContext, TraceInv, [Next]_vars
              PROVE  TraceInv'
  OBVIOUS
<1>1. CASE Calls
  BY <1>1, CallTraces DEF Calls
<1>2. CASE Steps
  BY <1>2, StepTraces
<1>3. CASE Returning
  BY <1>3, ReturnTraces
<1>4. CASE Catching \/ Crash
  BY <1>4, CatchTraces
<1>5. CASE Run \/ Cancel \/ BeginAttempt \/ ResumePublishing
  BY <1>5, AttemptTraces
<1>6. CASE UNCHANGED vars
  BY <1>6 DEF vars, TraceInv, NoFalseDivergence
<1>. QED
  BY <1>1, <1>2, <1>3, <1>4, <1>5, <1>6 DEF Next, Worker, Ended

LEMMA InitTraces == Init => TraceInv
<1>. SUFFICES ASSUME Init
              PROVE  TraceInv
  OBVIOUS
<1>. DEFINE d == InitialState
<1>1. d.t = <<>> /\ d.s = "pending" /\ \A k \in Key : ~Cached(d, k)
  BY DEF InitialState, Cached
<1>2. Traces(d)
  BY <1>1 DEF Traces, Walk
<1>. HIDE DEF d
<1>3. store = d /\ mem = d /\ pc = "idle" /\ ~probing /\ err = "none"
  BY DEF Init, d
<1>. QED
  BY <1>2, <1>3 DEF TraceInv, NoFalseDivergence

(* A deterministic workflow is never told that it diverged from its trace, *)
(* however crashes, failed writes, lost acknowledgements, retries and      *)
(* redeliveries cut its attempts short, and its probe finds nothing.       *)
THEOREM DeterministicCodeNeverDiverges ==
  ASSUME Deterministic, ProbesAreTraced
  PROVE  Spec => []NoFalseDivergence
<1>. DEFINE U == pc \in {"body", "catch"} => Uncaught(frames)
<1>1. Root \notin Catches
  BY DEF Deterministic
<1>2. Init => ReplayInv /\ U
  BY DEF Init, ReplayInv
<1>3. U /\ IInv /\ IInv' /\ [Next]_vars => U'
  BY <1>1, NextUncaught
<1>4. U /\ IInv /\ ReplayInv /\ RunStatus => ReplayContext
  BY DEF ReplayContext
<1>5. TraceInv => NoFalseDivergence
  BY DEF TraceInv
<1>. HIDE DEF U
<1>. QED
  BY <1>2, <1>3, <1>4, <1>5, Invariant, StatusInvariant, NextReplays, InitTraces, NextTraces, PTL
     DEF Spec
=============================================================================
