--------------------------- MODULE MCDozerEngine ---------------------------
(* Small workflows for TLC to run the engine on. *)
EXTENDS DozerEngineRefinement, DocumentedClaims

CONSTANT v1

At(path, name) == [path |-> path, name |-> name]

(***************************************************************************)
(* A deterministic workflow: run() calls "order" and then "notify"; the    *)
(* step "order" calls "reserve", which calls "lock", and "charge".         *)
(***************************************************************************)
Order   == At(<<0>>, "order")
Reserve == At(<<0, 0>>, "reserve")
Lock    == At(<<0, 0, 0>>, "lock")
Charge  == At(<<0, 1>>, "charge")
Notify  == At(<<1>>, "notify")

NestedKey == {Order, Reserve, Lock, Charge, Notify}

NestedReturns ==
  [b \in NestedKey \cup {Root} |->
     IF b \in {Root, Order} THEN {2} ELSE IF b = Reserve THEN {1} ELSE {0}]

NestedThrows ==
  [b \in NestedKey \cup {Root} |->
     CASE b = Charge -> {"error", "nonRetryable"}
       [] b \in {Order, Reserve} -> {"error"}
       [] b \in {Root, Notify} -> {"sleep"}
       [] OTHER -> {}]

NestedAttempts == [k \in NestedKey |-> IF k \in {Reserve, Lock} THEN 1 ELSE 2]

(***************************************************************************)
(* A workflow that leaves everything to chance: whether it calls "buy" or  *)
(* "rent" first, what those call, when they return and when they throw.    *)
(***************************************************************************)
Buy     == At(<<0>>, "buy")
Rent    == At(<<0>>, "rent")
Ship    == At(<<0, 0>>, "ship")
Collect == At(<<0, 0>>, "collect")

ChancyKey == {Buy, Rent, Ship, Collect, Notify}

ChancyReturns ==
  [b \in ChancyKey \cup {Root} |->
     CASE b = Root -> {1, 2}
       [] b \in {Buy, Rent} -> {0, 1}
       [] OTHER -> {0}]

ChancyThrows ==
  [b \in ChancyKey \cup {Root} |->
     CASE b = Root -> {"sleep"}
       [] b \in {Buy, Rent} -> {"error", "sleep"}
       [] b = Ship -> {"error"}
       [] OTHER -> {}]

ChancyAttempts == [k \in ChancyKey |-> 2]

StepCatches == {Buy, Rent}
=============================================================================
