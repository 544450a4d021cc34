---------------------- MODULE WorkflowStateStoreProofs ----------------------
(* What the operations of the state store preserve, for every set of step  *)
(* keys and values.                                                        *)
EXTENDS WorkflowStateStore, SequenceTheorems, WellFoundedInduction, TLAPS

(* The initial state of a job has the shape of a compact state.            *)
LEMMA InitialStateType == InitialState \in State
  BY DEF State, Status, InitialState

(* The changes of status keep the shape of the state.                      *)
LEMMA StatusOpsType ==
  ASSUME NEW d \in State
  PROVE  /\ MarkRunning(d) \in State
         /\ MarkCancelled(d) \in State
         /\ \A kind \in ErrorKind \cup {"none"} : MarkFailed(d, kind) \in State
         /\ \A r \in Seq(Observation) : MarkPublishingResult(d, r) \in State
  BY DEF State, Status, MarkRunning, MarkCancelled, MarkFailed, MarkPublishingResult

(* removeDescendantStepCache keeps the shape of the state.                 *)
LEMMA DropType ==
  ASSUME NEW d \in State, NEW K
  PROVE  Drop(d, K) \in State
  BY DEF State, Drop

(* The operations on the step cache keep the shape of the state.           *)
LEMMA CacheOpsType ==
  ASSUME NEW d \in State
  PROVE  /\ \A k \in Key, v \in Value \cup {Undefined} : SaveStepResult(d, k, v) \in State
         /\ \A k \in Key : IncrementStepRetryCount(d, k) \in State
         /\ \A k \in Key : RecordStep(d, k) \in State
         /\ Compact(d) \in State
<1>1. ASSUME NEW k \in Key, NEW v \in Value \cup {Undefined}
      PROVE  SaveStepResult(d, k, v) \in State
  <2>1. Cache(d, k, v) \in State
    BY <1>1 DEF State, Cache
  <2>. QED
    BY <2>1, DropType DEF SaveStepResult
<1>2. ASSUME NEW k \in Key
      PROVE  IncrementStepRetryCount(d, k) \in State
  <2>1. d.a \in [Key -> Nat] /\ d.a[k] + 1 \in Nat
    BY <1>2 DEF State
  <2>2. [d.a EXCEPT ![k] = d.a[k] + 1] \in [Key -> Nat]
    BY <1>2, <2>1
  <2>3. IncrementStepRetryCount(d, k) = [d EXCEPT !.a = [d.a EXCEPT ![k] = d.a[k] + 1]]
    BY DEF State, IncrementStepRetryCount
  <2>. QED
    BY <2>2, <2>3 DEF State
<1>3. ASSUME NEW k \in Key
      PROVE  RecordStep(d, k) \in State
  <2>1. Append(d.t, k) \in Seq(Key)
    BY <1>3 DEF State
  <2>. QED
    BY <2>1 DEF State, RecordStep
<1>. QED
  BY <1>1, <1>2, <1>3, DropType DEF Compact

(* Completing the workflow keeps the shape of the state.                   *)
LEMMA CompletionType ==
  ASSUME NEW d \in State
  PROVE  /\ MarkCompletedFromStoredResult(d) \in State
         /\ \A r \in Seq(Observation) : MarkCompleted(d, r) \in State
<1>1. [d EXCEPT !.s = "completed", !.e = "none"] \in State
  BY DEF State, Status
<1>2. \A r \in Seq(Observation) : [d EXCEPT !.s = "completed", !.r = r, !.e = "none"] \in State
  BY DEF State, Status
<1>. QED
  BY <1>1, <1>2, CacheOpsType DEF MarkCompletedFromStoredResult, MarkCompleted

-----------------------------------------------------------------------------
(* Paths *)

(* The path of a step key is a sequence of child indices.                  *)
LEMMA PathOfKey == \A k \in Key : k.path \in Seq(Nat)
  BY StoreAssumption DEF StepKeys

(* A path below q is longer than q and agrees with q on its length.        *)
LEMMA BelowPointwise ==
  ASSUME NEW p \in Seq(Nat), NEW q \in Seq(Nat)
  PROVE  Below(p, q) <=>
           /\ Len(p) < Len(q)
           /\ \A i \in 1 .. Len(p) : p[i] = q[i]
<1>1. ASSUME Len(p) <= Len(q)
      PROVE  SubSeq(p, 1, Len(p)) = SubSeq(q, 1, Len(p)) <=> \A i \in 1 .. Len(p) : p[i] = q[i]
  <2>1. /\ SubSeq(p, 1, Len(p)) \in Seq(Nat) /\ Len(SubSeq(p, 1, Len(p))) = Len(p)
        /\ \A i \in 1 .. Len(p) : SubSeq(p, 1, Len(p))[i] = p[i]
    BY SubSeqFull
  <2>2. /\ SubSeq(q, 1, Len(p)) \in Seq(Nat) /\ Len(SubSeq(q, 1, Len(p))) = Len(p)
        /\ \A i \in 1 .. Len(p) : SubSeq(q, 1, Len(p))[i] = q[i]
    BY <1>1, SubSeqProperties, Len(p) \in Nat, \A i \in 1 .. Len(p) : q[i] \in Nat
  <2>. QED
    BY <2>1, <2>2, SeqEqual
<1>2. ASSUME Len(p) <= Len(q), \A i \in 1 .. Len(p) : p[i] = q[i]
      PROVE  p # q <=> Len(p) < Len(q)
  <2>1. Len(p) \in Nat /\ Len(q) \in Nat
    OBVIOUS
  <2>2. Len(p) = Len(q) \/ Len(p) < Len(q)
    BY <1>2, <2>1
  <2>3. ASSUME Len(p) < Len(q)
        PROVE  p # q
    <3>. SUFFICES ASSUME p = q PROVE FALSE
      OBVIOUS
    <3>. QED
      BY <2>1, <2>3
  <2>4. ASSUME Len(p) = Len(q)
        PROVE  p = q /\ ~(Len(p) < Len(q))
    <3>1. \A i \in 1 .. Len(p) : p[i] = q[i]
      BY <1>2
    <3>2. p = q
      BY <2>4, <3>1, SeqEqual
    <3>. QED
      BY <2>1, <3>2
  <2>. QED
    BY <2>2, <2>3, <2>4
<1>. QED
  BY <1>1, <1>2 DEF Below, IsStrictPrefix, IsPrefix

(* What is below a path below p is below p.                                *)
LEMMA BelowTransitive ==
  ASSUME NEW p \in Seq(Nat), NEW q \in Seq(Nat), NEW r \in Seq(Nat),
         Below(p, q), Below(q, r)
  PROVE  Below(p, r)
<1>1. Len(p) \in Nat /\ Len(q) \in Nat /\ Len(r) \in Nat
  OBVIOUS
<1>2. Len(p) < Len(q) /\ \A i \in 1 .. Len(p) : p[i] = q[i]
  BY BelowPointwise
<1>3. Len(q) < Len(r) /\ \A i \in 1 .. Len(q) : q[i] = r[i]
  BY BelowPointwise
<1>4. Len(p) < Len(r) /\ \A i \in 1 .. Len(p) : i \in 1 .. Len(q)
  BY <1>1, <1>2, <1>3
<1>5. \A i \in 1 .. Len(p) : p[i] = r[i]
  BY <1>2, <1>3, <1>4
<1>. QED
  BY <1>4, <1>5, BelowPointwise

(* A child is below its parent.                                            *)
LEMMA BelowAppend ==
  ASSUME NEW p \in Seq(Nat), NEW n \in Nat
  PROVE  Below(p, Append(p, n))
<1>. DEFINE q == Append(p, n)
<1>1. q \in Seq(Nat) /\ Len(q) = Len(p) + 1 /\ \A i \in 1 .. Len(p) : q[i] = p[i]
  BY AppendProperties
<1>2. Len(p) < Len(q) /\ \A i \in 1 .. Len(p) : p[i] = q[i]
  BY <1>1, Len(p) \in Nat
<1>. HIDE DEF q
<1>3. Below(p, q)
  BY <1>1, <1>2, BelowPointwise
<1>. QED
  BY <1>3 DEF q

-----------------------------------------------------------------------------
(* Decisions *)

(* A state holds its own decisions.                                        *)
LEMMA PreservesReflexive == \A d : Preserves(d, d)
  BY DEF Preserves, Keeps, CachedKeys

(* What holds the decisions of a state that holds those of d holds d's: a  *)
(* decision that was superseded stays superseded.                          *)
LEMMA PreservesTransitive ==
  ASSUME NEW d, NEW f, NEW g, Preserves(d, f), Preserves(f, g)
  PROVE  Preserves(d, g)
<1>. SUFFICES ASSUME NEW k \in CachedKeys(d)
              PROVE  Keeps(g, k, StepResult(d, k)) \/ Superseded(g, k)
  BY DEF Preserves
<1>1. CASE Keeps(f, k, StepResult(d, k))
  <2>1. k \in CachedKeys(f)
    BY <1>1 DEF Keeps, CachedKeys
  <2>. QED
    BY <1>1, <2>1 DEF Preserves, Keeps
<1>2. CASE Superseded(f, k)
  <2>1. PICK j \in CachedKeys(f) : Below(j.path, k.path)
    BY <1>2 DEF Superseded
  <2>2. CASE Keeps(g, j, StepResult(f, j))
    BY <2>1, <2>2 DEF Keeps, Superseded, CachedKeys
  <2>3. CASE Superseded(g, j)
    <3>1. PICK i \in CachedKeys(g) : Below(i.path, j.path)
      BY <2>3 DEF Superseded
    <3>2. Below(i.path, k.path)
      BY <2>1, <3>1, BelowTransitive, PathOfKey DEF CachedKeys
    <3>. QED
      BY <3>1, <3>2 DEF Superseded
  <2>. QED
    BY <2>1, <2>2, <2>3 DEF Preserves
<1>. QED
  BY <1>1, <1>2 DEF Preserves

(* Operations that leave the step cache alone leave every decision alone.  *)
LEMMA SameCache ==
  ASSUME NEW d, NEW f, f.c = d.c, f.u = d.u
  PROVE  Preserves(d, f) /\ \A k : Cached(f, k) <=> Cached(d, k)
  BY DEF Preserves, Keeps, CachedKeys, Cached, StepResult

(* The changes of status, the trace and the retry counts do not touch the  *)
(* step cache.                                                             *)
LEMMA UncachingOps ==
  ASSUME NEW d \in State
  PROVE  /\ MarkRunning(d).c = d.c /\ MarkRunning(d).u = d.u
         /\ MarkCancelled(d).c = d.c /\ MarkCancelled(d).u = d.u
         /\ \A kind : MarkFailed(d, kind).c = d.c /\ MarkFailed(d, kind).u = d.u
         /\ \A r : /\ MarkPublishingResult(d, r).c = d.c
                  /\ MarkPublishingResult(d, r).u = d.u
         /\ \A k : RecordStep(d, k).c = d.c /\ RecordStep(d, k).u = d.u
         /\ \A k : /\ IncrementStepRetryCount(d, k).c = d.c
                  /\ IncrementStepRetryCount(d, k).u = d.u
  BY DEF State, MarkRunning, MarkCancelled, MarkFailed, MarkPublishingResult,
         RecordStep, IncrementStepRetryCount

(* The engine's operations leave pending signals alone.                    *)
LEMMA PendingStays ==
  ASSUME NEW d \in State
  PROVE  /\ MarkRunning(d).ps = d.ps /\ MarkCancelled(d).ps = d.ps
         /\ MarkCompletedFromStoredResult(d).ps = d.ps
         /\ \A kind : MarkFailed(d, kind).ps = d.ps
         /\ \A r : MarkPublishingResult(d, r).ps = d.ps /\ MarkCompleted(d, r).ps = d.ps
         /\ \A k : RecordStep(d, k).ps = d.ps /\ IncrementStepRetryCount(d, k).ps = d.ps
         /\ \A k, v : SaveStepResult(d, k, v).ps = d.ps
<1>1. /\ MarkRunning(d).ps = d.ps /\ MarkCancelled(d).ps = d.ps
      /\ \A kind : MarkFailed(d, kind).ps = d.ps
      /\ \A r : MarkPublishingResult(d, r).ps = d.ps
      /\ \A k : RecordStep(d, k).ps = d.ps /\ IncrementStepRetryCount(d, k).ps = d.ps
  BY DEF State, MarkRunning, MarkCancelled, MarkFailed, MarkPublishingResult, RecordStep,
         IncrementStepRetryCount
<1>2. /\ MarkCompletedFromStoredResult(d).ps = d.ps
      /\ \A r : MarkCompleted(d, r).ps = d.ps
  BY DEF State, MarkCompletedFromStoredResult, MarkCompleted, Compact, Drop
<1>3. \A k, v : SaveStepResult(d, k, v).ps = d.ps
  BY DEF State, SaveStepResult, Cache, Drop
<1>. QED
  BY <1>1, <1>2, <1>3

(* Drop takes what it is given and nothing else.                           *)
LEMMA DropCache ==
  ASSUME NEW d \in State, NEW K, NEW k \in Key
  PROVE  /\ k \in K => ~Cached(Drop(d, K), k)
         /\ k \notin K => /\ Cached(Drop(d, K), k) <=> Cached(d, k)
                        /\ StepResult(Drop(d, K), k) = StepResult(d, k)
  BY DEF State, Drop, Cached, StepResult

(* Cache decides its key and no other one.                                 *)
LEMMA CacheDecides ==
  ASSUME NEW d \in State, NEW k \in Key, NEW v \in Value \cup {Undefined}, NEW j \in Key
  PROVE  /\ Keeps(Cache(d, k, v), k, v)
         /\ j # k => /\ Cached(Cache(d, k, v), j) <=> Cached(d, j)
                     /\ StepResult(Cache(d, k, v), j) = StepResult(d, j)
<1>1. Absent \notin Value
  BY StoreAssumption
<1>2. CASE v = Undefined
  BY <1>2 DEF State, Cache, Cached, StepResult, Keeps
<1>3. CASE v # Undefined
  BY <1>1, <1>3 DEF State, Cache, Cached, StepResult, Keeps
<1>. QED
  BY <1>2, <1>3

(* A step is not one of its own descendants.                               *)
LEMMA NotBelowItself == \A k \in Key : ~Below(k.path, k.path)
  BY DEF Below, IsStrictPrefix

(* saveStepResult changes what is cached of its step and of the steps      *)
(* below it, and of no other one.                                          *)
LEMMA SaveLeaves ==
  ASSUME NEW d \in State, NEW k \in Key, NEW v \in Value \cup {Undefined}, NEW j \in Key
  PROVE  LET g == SaveStepResult(d, k, v) IN
         /\ Keeps(g, k, v)
         /\ j \in Descendants(k) => ~Cached(g, j)
         /\ j # k /\ j \notin Descendants(k) =>
              (Cached(g, j) <=> Cached(d, j)) /\ StepResult(g, j) = StepResult(d, j)
<1>. DEFINE f == Cache(d, k, v)
            g == SaveStepResult(d, k, v)
<1>1. f \in State /\ g = Drop(f, Descendants(k))
  <2>1. f \in State
    BY DEF State, Cache
  <2>. QED
    BY <2>1 DEF SaveStepResult
<1>2. k \notin Descendants(k)
  BY NotBelowItself DEF Descendants
<1>. HIDE DEF g
<1>3. Keeps(g, k, v)
  <2>1. Keeps(f, k, v)
    BY CacheDecides
  <2>. QED
    BY <1>1, <1>2, <2>1, DropCache DEF Keeps
<1>4. j \in Descendants(k) => ~Cached(g, j)
  BY <1>1, DropCache
<1>5. j # k /\ j \notin Descendants(k) =>
        (Cached(g, j) <=> Cached(d, j)) /\ StepResult(g, j) = StepResult(d, j)
  <2>1. j # k => (Cached(f, j) <=> Cached(d, j)) /\ StepResult(f, j) = StepResult(d, j)
    BY CacheDecides
  <2>. QED
    BY <1>1, <2>1, DropCache
<1>. QED
  BY <1>3, <1>4, <1>5 DEF g

(* saveStepResult on a step without a result keeps all decisions, and      *)
(* decides no other step.                                                  *)
LEMMA SavePreserves ==
  ASSUME NEW d \in State, NEW k \in Key, NEW v \in Value \cup {Undefined}, ~Cached(d, k)
  PROVE  /\ Preserves(d, SaveStepResult(d, k, v))
         /\ \A j \in Key : j # k /\ Cached(SaveStepResult(d, k, v), j) => Cached(d, j)
         /\ Keeps(SaveStepResult(d, k, v), k, v)
<1>. DEFINE f == Cache(d, k, v)
            g == SaveStepResult(d, k, v)
<1>1. f \in State /\ g = Drop(f, Descendants(k))
  <2>1. f \in State
    BY DEF State, Cache
  <2>. QED
    BY <2>1 DEF SaveStepResult
<1>2. Keeps(g, k, v)
  <2>1. k \notin Descendants(k)
    BY NotBelowItself DEF Descendants
  <2>. QED
    BY <1>1, <2>1, CacheDecides, DropCache DEF Keeps
<1>3. ASSUME NEW j \in CachedKeys(d)
      PROVE  Keeps(g, j, StepResult(d, j)) \/ Superseded(g, j)
  <2>1. j \in Key /\ Cached(d, j) /\ j # k
    BY <1>3 DEF CachedKeys
  <2>2. CASE j \in Descendants(k)
    BY <1>2, <2>2 DEF Superseded, CachedKeys, Descendants, Keeps
  <2>3. CASE j \notin Descendants(k)
    BY <1>1, <2>1, <2>3, CacheDecides, DropCache DEF Keeps
  <2>. QED
    BY <2>2, <2>3
<1>4. ASSUME NEW j \in Key, j # k, Cached(g, j)
      PROVE  Cached(d, j)
  BY <1>1, <1>4, CacheDecides, DropCache
<1>. QED
  BY <1>2, <1>3, <1>4 DEF Preserves

(* A set of natural numbers that is not empty has a least element.         *)
LEMMA LeastNatural ==
  ASSUME NEW T \in SUBSET Nat, T # {}
  PROVE  \E m \in T : \A n \in T : m <= n
<1>. DEFINE R == OpToRel(<, Nat)
<1>1. IsWellFoundedOn(R, Nat)
  BY NatLessThanWellFounded
<1>2. PICK m \in T : \A n \in T : ~(<<n, m>> \in R)
  <2>. HIDE DEF R
  <2>. QED
    BY <1>1, WFMin
<1>3. ASSUME NEW n \in T
      PROVE  m <= n
  <2>1. <<n, m>> \in R <=> n < m
    BY DEF OpToRel
  <2>2. ~(n < m) /\ m \in Nat /\ n \in Nat
    BY <1>2, <2>1
  <2>. QED
    BY <2>2
<1>. QED
  BY <1>3

(* A superseded key has a shallowest cached ancestor, which is not         *)
(* superseded itself.                                                      *)
LEMMA ShallowestAncestor ==
  ASSUME NEW d, NEW k \in Key, Superseded(d, k)
  PROVE  \E j \in CachedKeys(d) : Below(j.path, k.path) /\ ~Superseded(d, j)
<1>. DEFINE A == {j \in CachedKeys(d) : Below(j.path, k.path)}
            T == {Len(j.path) : j \in A}
<1>1. A # {} /\ A \subseteq Key
  BY DEF Superseded, CachedKeys
<1>2. T # {} /\ T \subseteq Nat
  <2>1. \A j \in Key : Len(j.path) \in Nat
    BY PathOfKey
  <2>. QED
    BY <1>1, <2>1
<1>3. PICK m \in T : \A n \in T : m <= n
  BY <1>2, LeastNatural
<1>4. PICK j \in A : m = Len(j.path)
  OBVIOUS
<1>5. ASSUME NEW i \in CachedKeys(d), Below(i.path, j.path)
      PROVE  FALSE
  <2>1. i \in Key /\ j \in Key /\ Below(j.path, k.path)
    BY <1>1 DEF CachedKeys
  <2>2. i.path \in Seq(Nat) /\ j.path \in Seq(Nat) /\ k.path \in Seq(Nat)
    BY <2>1, PathOfKey
  <2>3. Len(i.path) < Len(j.path) /\ Below(i.path, k.path)
    BY <1>5, <2>1, <2>2, BelowPointwise, BelowTransitive
  <2>4. Len(j.path) <= Len(i.path)
    BY <1>3, <1>4, <2>3
  <2>. QED
    BY <2>2, <2>3, <2>4
<1>. QED
  BY <1>5 DEF Superseded

(* compactDescendantStepCache takes only what another cached step that     *)
(* stays has superseded, and decides nothing.                              *)
LEMMA CompactPreserves ==
  ASSUME NEW d \in State
  PROVE  /\ Preserves(d, Compact(d))
         /\ \A j \in Key : Cached(Compact(d), j) => Cached(d, j)
<1>. DEFINE K == UNION {Descendants(k) : k \in CachedKeys(d)}
<1>1. \A k \in Key : k \in K <=> Superseded(d, k)
  BY DEF Descendants, Superseded
<1>. HIDE DEF K
<1>2. Compact(d) = Drop(d, K)
  BY DEF Compact, K
<1>3. \A k \in CachedKeys(d) : k \notin K => Keeps(Compact(d), k, StepResult(d, k))
  BY <1>2, DropCache DEF Keeps, CachedKeys
<1>4. ASSUME NEW k \in CachedKeys(d), k \in K
      PROVE  Superseded(Compact(d), k)
  <2>1. k \in Key /\ Superseded(d, k)
    BY <1>1, <1>4 DEF CachedKeys
  <2>2. PICK j \in CachedKeys(d) : Below(j.path, k.path) /\ ~Superseded(d, j)
    BY <2>1, ShallowestAncestor
  <2>3. j \in CachedKeys(Compact(d))
    BY <1>1, <1>3, <2>2 DEF CachedKeys, Keeps
  <2>. QED
    BY <2>2, <2>3 DEF Superseded
<1>5. ASSUME NEW j \in Key, Cached(Compact(d), j)
      PROVE  Cached(d, j)
  BY <1>2, <1>5, DropCache
<1>. QED
  BY <1>3, <1>4, <1>5 DEF Preserves

(* State f has no result that d has not, but for those of the keys in K.   *)
Retains(d, f, K) ==
  \A k \in Key \ K : Cached(f, k) => Keeps(d, k, StepResult(f, k))

(* Nor does it when the step cache is the same.                            *)
LEMMA SameCacheRetains ==
  ASSUME NEW d, NEW f, f.c = d.c, f.u = d.u, NEW K
  PROVE  Retains(d, f, K)
  BY DEF Retains, Keeps, Cached, StepResult

(* saveStepResult decides one step.                                        *)
LEMMA SaveRetains ==
  ASSUME NEW d \in State, NEW k \in Key, NEW v \in Value \cup {Undefined}
  PROVE  Retains(d, SaveStepResult(d, k, v), {k})
<1>. DEFINE g == SaveStepResult(d, k, v)
<1>1. \A j \in Key : /\ j \in Descendants(k) => ~Cached(g, j)
                     /\ j # k /\ j \notin Descendants(k) =>
                          (Cached(g, j) <=> Cached(d, j)) /\ StepResult(g, j) = StepResult(d, j)
  BY SaveLeaves
<1>. HIDE DEF g
<1>. QED
  BY <1>1 DEF Retains, Keeps, g

(* Completing the workflow decides no step.                                *)
LEMMA CompletionRetains ==
  ASSUME NEW d \in State, NEW K
  PROVE  /\ Retains(d, MarkCompletedFromStoredResult(d), K)
         /\ \A r \in Seq(Observation) : Retains(d, MarkCompleted(d, r), K)
<1>1. ASSUME NEW f \in State, f.c = d.c, f.u = d.u
      PROVE  Retains(d, Compact(f), K)
  <2>. DEFINE D == UNION {Descendants(k) : k \in CachedKeys(f)}
  <2>1. Compact(f) = Drop(f, D)
    BY DEF Compact
  <2>. HIDE DEF D
  <2>2. \A k \in Key : Cached(Drop(f, D), k) =>
          Cached(f, k) /\ StepResult(Drop(f, D), k) = StepResult(f, k)
    BY DropCache
  <2>3. \A k : (Cached(f, k) <=> Cached(d, k)) /\ StepResult(f, k) = StepResult(d, k)
    BY <1>1 DEF Cached, StepResult
  <2>. QED
    BY <2>1, <2>2, <2>3 DEF Retains, Keeps
<1>2. [d EXCEPT !.s = "completed", !.e = "none"] \in State
  BY DEF State, Status
<1>3. \A r \in Seq(Observation) : [d EXCEPT !.s = "completed", !.r = r, !.e = "none"] \in State
  BY DEF State, Status
<1>4. /\ [d EXCEPT !.s = "completed", !.e = "none"].c = d.c
      /\ [d EXCEPT !.s = "completed", !.e = "none"].u = d.u
  BY DEF State
<1>5. \A r : /\ [d EXCEPT !.s = "completed", !.r = r, !.e = "none"].c = d.c
             /\ [d EXCEPT !.s = "completed", !.r = r, !.e = "none"].u = d.u
  BY DEF State
<1>. QED
  BY <1>1, <1>2, <1>3, <1>4, <1>5 DEF MarkCompletedFromStoredResult, MarkCompleted

(* Completing the workflow keeps all decisions.                            *)
LEMMA CompletionPreserves ==
  ASSUME NEW d \in State
  PROVE  /\ Preserves(d, MarkCompletedFromStoredResult(d))
         /\ \A r \in Seq(Observation) : Preserves(d, MarkCompleted(d, r))
<1>1. ASSUME NEW f \in State, f.c = d.c, f.u = d.u
      PROVE  Preserves(d, Compact(f))
  BY <1>1, SameCache, CompactPreserves, PreservesTransitive
<1>2. [d EXCEPT !.s = "completed", !.e = "none"] \in State
  BY DEF State, Status
<1>3. \A r \in Seq(Observation) : [d EXCEPT !.s = "completed", !.r = r, !.e = "none"] \in State
  BY DEF State, Status
<1>4. /\ [d EXCEPT !.s = "completed", !.e = "none"].c = d.c
      /\ [d EXCEPT !.s = "completed", !.e = "none"].u = d.u
  BY DEF State
<1>5. \A r : /\ [d EXCEPT !.s = "completed", !.r = r, !.e = "none"].c = d.c
             /\ [d EXCEPT !.s = "completed", !.r = r, !.e = "none"].u = d.u
  BY DEF State
<1>. QED
  BY <1>1, <1>2, <1>3, <1>4, <1>5 DEF MarkCompletedFromStoredResult, MarkCompleted

(* A signal delivered to a wait that has no answer yet decides it and      *)
(* leaves all other decisions alone.                                       *)
LEMMA DeliveryPreserves ==
  ASSUME NEW d \in State, NEW n \in Signal, NEW v \in Value,
         d.ps[n] # Absent, ~Cached(d, d.ps[n].k)
  PROVE  /\ Preserves(d, DeliverSignal(d, n, v))
         /\ Keeps(DeliverSignal(d, n, v), d.ps[n].k, v)
<1>. DEFINE k == d.ps[n].k
            f == SaveStepResult(d, k, v)
            g == DeliverSignal(d, n, v)
<1>1. k \in Key
  BY DEF State, Pending
<1>2. f \in State /\ Preserves(d, f) /\ Keeps(f, k, v)
  BY <1>1, CacheOpsType, SavePreserves
<1>3. g.c = f.c /\ g.u = f.u
  BY <1>2 DEF State, DeliverSignal, ClearPendingSignal
<1>4. Preserves(f, g)
  BY <1>3, SameCache
<1>5. Keeps(g, k, v)
  BY <1>2, <1>3 DEF Keeps, Cached, StepResult
<1>. QED
  BY <1>2, <1>4, <1>5, PreservesTransitive
=============================================================================
