-------------------------- MODULE DurableExecution --------------------------
(***************************************************************************)
(* What the engine promises of one workflow job, whatever crashes, retries *)
(* and lost writes it takes: a log of decided steps that only grows, a     *)
(* result that is a function of the decided steps, a status, and at most   *)
(* one published result.  Nothing here knows of attempts, frames, caches   *)
(* in memory or workers.                                                   *)
(***************************************************************************)
EXTENDS SequencesExt

CONSTANTS Key, Value, Undefined, Absent, Caught, Publishes

VARIABLES decided, status, result, published

vars == <<decided, status, result, published>>

None == [status |-> "none", result |-> Undefined]

(* A decision stands until a decision about a step around it replaces it.  *)
Replaced(log, k) == \E j \in Key : log[j] # Absent /\ IsStrictPrefix(j.path, k.path)

Grows ==
  /\ decided' \in [Key -> Value \cup {Undefined, Absent}]
  /\ \A k \in Key : decided[k] # Absent => decided'[k] = decided[k] \/ Replaced(decided', k)

(* r is what run() computes when its n-th call is answered from the log.   *)
ReplaysTo(log, r) ==
  \A n \in DOMAIN r : r[n] = Caught \/ \E k \in Key : k.path = <<n - 1>> /\ log[k] = r[n]

Init ==
  /\ decided = [k \in Key |-> Absent]
  /\ status = "pending"
  /\ result = Undefined
  /\ published = None

(* Work on the job: it may decide steps, and a result of an earlier run    *)
(* may still be around.                                                    *)
Advance ==
  /\ status # "cancelled"
  /\ status' = "running"
  /\ Grows
  /\ result' = Undefined \/ ReplaysTo(decided', result')
  /\ UNCHANGED published

StoreResult ==
  /\ Publishes
  /\ status \in {"running", "completing"}
  /\ status' = "completing"
  /\ Grows
  /\ result' # Undefined /\ ReplaysTo(decided', result')
  /\ UNCHANGED published

(* With a result queue, the result is out before the job is completed.     *)
Complete ==
  /\ status \in {"running", "completing", "completed"}
  /\ status' = "completed"
  /\ Grows
  /\ result' # Undefined /\ ReplaysTo(decided', result')
  /\ Publishes => published # None
  /\ UNCHANGED published

Fail ==
  /\ status # "cancelled"
  /\ status' = "failed"
  /\ Grows
  /\ result' = Undefined
  /\ UNCHANGED published

Cancel ==
  /\ status = "pending"
  /\ status' = "cancelled"
  /\ result' = Undefined
  /\ UNCHANGED <<decided, published>>

(* Published once: a completed result that replays from the log, or the    *)
(* failure of a failed job.                                                *)
Publish ==
  /\ Publishes
  /\ published = None
  /\ \/ /\ published'.status = "completed"
        /\ status \in {"running", "completing"}
        /\ ReplaysTo(decided, published'.result)
     \/ /\ published' = [status |-> "failed", result |-> Undefined]
        /\ status = "failed"
  /\ UNCHANGED <<decided, status, result>>

Next == Advance \/ StoreResult \/ Complete \/ Fail \/ Cancel \/ Publish

Spec == Init /\ [][Next]_vars
=============================================================================
