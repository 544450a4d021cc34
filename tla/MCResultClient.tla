--------------------------- MODULE MCResultClient ---------------------------
(* A workflow of one step that may fail, and the clients that want its     *)
(* result.  One client is both a reader and a watcher: it asks once, for   *)
(* either.                                                                 *)
EXTENDS ResultClient

CONSTANTS v1, w1, c1

Notify == [path |-> <<0>>, name |-> "notify"]

OneStep == {Notify}

OneReturns == [b \in {Notify, Root} |-> IF b = Root THEN {1} ELSE {0}]

OneThrows == [b \in {Notify, Root} |-> IF b = Notify THEN {"nonRetryable"} ELSE {}]

OneAttempts == [k \in OneStep |-> 1]
=============================================================================
