---------------------------- MODULE MCStepTimeout ----------------------------
(* run() calls "slow", which calls "child": both have a timeout and two    *)
(* attempts, and the child fails at times.                                 *)
EXTENDS StepTimeout

CONSTANT v1

OnePlan == [n \in {"run", "slow", "child"} |->
  CASE n = "run" -> <<"slow">> [] n = "slow" -> <<"child">> [] OTHER -> <<>>]

TwoAttempts == [n \in DOMAIN OnePlan |-> 2]

(* All the keys that calls get, also in frames that are not their own. *)
Paths == {<<i>> : i \in 0 .. 1} \cup {<<i, j>> : i, j \in 0 .. 1} \cup {<<i, j, l>> : i, j, l \in 0 .. 1}

PlanKey == {[path |-> p, name |-> n] : p \in Paths, n \in {"slow", "child"}}
=============================================================================
