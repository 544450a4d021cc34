------------------------- MODULE WorkflowStateStore -------------------------
(***************************************************************************)
(* The compact state of one workflow job (field "d" of the BullMQ job) and *)
(* the operations of WorkflowStateStore on it, as operators from states to *)
(* states.  Who calls them, and whether the write that follows reaches     *)
(* Redis, is the business of the modules that use this one.                *)
(*                                                                         *)
(* The string key "0.1:charge" of a step invocation is the record          *)
(* [path |-> <<0, 1>>, name |-> "charge"].                                 *)
(***************************************************************************)
EXTENDS SequencesExt

CONSTANTS
  Key,            \* the step invocations that can occur
  Value,          \* serializable step results other than undefined
  Undefined,      \* JavaScript's undefined
  Absent,         \* no entry under this key
  Caught,         \* what a body sees of a call whose error it caught
  Signal,         \* names passed to waitForSignal
  MaxStateSize    \* maxStateSizeBytes, in entries

StepKeys == [path : Seq(Nat) \ {<<>>}, name : STRING]

ASSUME StoreAssumption ==
  /\ Key \subseteq StepKeys
  /\ {Undefined, Absent, Caught} \cap Value = {}
  /\ Undefined # Absent /\ Undefined # Caught /\ Absent # Caught
  /\ MaxStateSize \in Nat

Status == {"pending", "running", "failed", "completed", "cancelled", "completing"}

(* Classes of errors that the engine tells apart.  "error" is every error  *)
(* that may be retried: a user error, TimeoutError, SerializationError,    *)
(* StateSizeLimitError.                                                    *)
ErrorKind == {"error", "nonRetryable", "sleep", "retry", "conflict", "nondeterminism"}

(* A result of run() is a function of what run() got back from its calls,  *)
(* so the tuple of these observations stands for it.                       *)
Observation == Value \cup {Undefined, Caught}

(* No result of run() is the mark that there is none.                      *)
ASSUME ResultsAreDefined == Undefined \notin Seq(Observation)

Pending == [k : Key, e : BOOLEAN]   \* e: whether the wait has a deadline

State ==
  [ s  : Status,
    c  : [Key -> Value \cup {Absent}],
    u  : SUBSET Key,
    a  : [Key -> Nat],
    t  : Seq(Key),
    r  : Seq(Observation) \cup {Undefined},
    e  : ErrorKind \cup {"none", "cancelled"},
    ps : [Signal -> Pending \cup {Absent}] ]

InitialState ==
  [ s  |-> "pending",
    c  |-> [k \in Key |-> Absent],
    u  |-> {},
    a  |-> [k \in Key |-> 0],
    t  |-> <<>>,
    r  |-> Undefined,
    e  |-> "none",
    ps |-> [n \in Signal |-> Absent] ]

-----------------------------------------------------------------------------
(* Reading *)

Cached(d, k) == d.c[k] # Absent \/ k \in d.u

StepResult(d, k) == IF k \in d.u THEN Undefined ELSE d.c[k]

CachedKeys(d) == {k \in Key : Cached(d, k)}

Below(p, q) == IsStrictPrefix(p, q)

Descendants(k) == {j \in Key : Below(k.path, j.path)}

(* Number of entries of the blob: the measure the size limit is about.     *)
Size(d) ==
  Cardinality(CachedKeys(d)) + Cardinality({k \in Key : d.a[k] > 0}) + Len(d.t)

TooBig(d) == Size(d) > MaxStateSize

-----------------------------------------------------------------------------
(* Status transitions *)

MarkRunning(d) == [d EXCEPT !.s = "running", !.e = "none"]

(* Bug: a failed workflow starts over. *)
MarkFailed_StartsOver(d, kind) == [InitialState EXCEPT !.s = "failed", !.e = kind]

MarkFailed(d, kind) ==
  [d EXCEPT !.s = "failed", !.r = Undefined, !.e = kind]

MarkCancelled(d) ==
  [d EXCEPT !.s = "cancelled", !.r = Undefined, !.e = "cancelled"]

MarkPublishingResult(d, result) ==
  [d EXCEPT !.s = "completing", !.r = result, !.e = "none"]

-----------------------------------------------------------------------------
(* Step cache *)

(* removeDescendantStepCache, for a set of keys. *)
Drop(d, K) ==
  [d EXCEPT !.c = [k \in Key |-> IF k \in K THEN Absent ELSE d.c[k]],
            !.u = d.u \ K,
            !.a = [k \in Key |-> IF k \in K THEN 0 ELSE d.a[k]]]

(* compactDescendantStepCache: the loop removes, shallowest key first, the *)
(* descendants of every key still cached.  A key removed on the way has a  *)
(* cached ancestor whose removal covers its descendants too, so what goes  *)
(* is every key with a cached ancestor.                                    *)
Compact(d) == Drop(d, UNION {Descendants(k) : k \in CachedKeys(d)})

MarkCompleted(d, result) ==
  Compact([d EXCEPT !.s = "completed", !.r = result, !.e = "none"])

MarkCompletedFromStoredResult(d) ==
  Compact([d EXCEPT !.s = "completed", !.e = "none"])

(* Bug: undefined is stored as if it were serializable. *)
Cache_StoresUndefined(d, k, v) == [d EXCEPT !.c[k] = v, !.a[k] = 0]

Cache(d, k, v) ==
  [d EXCEPT !.c[k] = IF v = Undefined THEN Absent ELSE v,
            !.u = IF v = Undefined THEN d.u \cup {k} ELSE d.u \ {k},
            !.a[k] = 0]

(* Bug: the descendants stay cached. *)
SaveStepResult_KeepsDescendants(d, k, v) == Cache(d, k, v)

SaveStepResult(d, k, v) == Drop(Cache(d, k, v), Descendants(k))

(* Bug: the failure is not counted. *)
IncrementStepRetryCount_Lost(d, k) == d

IncrementStepRetryCount(d, k) == [d EXCEPT !.a[k] = @ + 1]

-----------------------------------------------------------------------------
(* Trace.  cursor is the zero-based trace index of the next step.          *)

Unvisited(d, cursor) == cursor >= Len(d.t)

Diverges(d, cursor, k) == ~Unvisited(d, cursor) /\ d.t[cursor + 1] # k

RecordStep(d, k) == [d EXCEPT !.t = Append(@, k)]

TraceConsumed(d, cursor) == cursor = Len(d.t)

-----------------------------------------------------------------------------
(* Decisions: what a state says for good about a step *)

Superseded(d, k) == \E j \in CachedKeys(d) : Below(j.path, k.path)

Keeps(d, k, v) == Cached(d, k) /\ StepResult(d, k) = v

(* State f holds every decision of d, or one that takes its place. *)
Preserves(d, f) ==
  \A k \in CachedKeys(d) : Keeps(f, k, StepResult(d, k)) \/ Superseded(f, k)

-----------------------------------------------------------------------------
(* Pending signals *)

SavePendingSignal(d, n, k, deadline) ==
  [d EXCEPT !.ps[n] = [k |-> k, e |-> deadline]]

ClearPendingSignal(d, n) == [d EXCEPT !.ps[n] = Absent]

(* deliverSignal when the wait is registered.  The payload is in Value: an *)
(* undefined one is stored as its serialized envelope, in c and not in u.  *)
DeliverSignal(d, n, v) ==
  ClearPendingSignal(SaveStepResult(d, d.ps[n].k, v), n)
=============================================================================
