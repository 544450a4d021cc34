---------------------------- MODULE SignalClaims ----------------------------
(* What the documents say of signals and the code does not do. *)
EXTENDS SignalledJob

(* README.md:9: "completed steps are replayed from cache, not              *)
(* re-executed".  A client that delivers a signal writes back the whole    *)
(* state it read, and with it takes back the steps that the worker has     *)
(* completed in between.                                                   *)
CompletedStepsStayCached ==
  [][\A k \in CachedKeys(store) \ Wait :
       Keeps(store', k, StepResult(store, k)) \/ Superseded(store', k)]_allVars
=============================================================================
