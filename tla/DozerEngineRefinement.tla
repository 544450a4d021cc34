----------------------- MODULE DozerEngineRefinement -----------------------
(* DozerEngine implements DurableExecution: the durable state, read as a   *)
(* log of decided steps, takes only the steps of the abstract job.         *)
EXTENDS DozerEngine

Log == [k \in Key |-> IF Cached(store, k) THEN StepResult(store, k) ELSE Absent]

Durable ==
  INSTANCE DurableExecution
    WITH decided <- Log, status <- store.s, result <- store.r, published <- resultQ

DurableJob == Durable!Spec
=============================================================================
