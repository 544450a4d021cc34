--------------------------- MODULE MCSignalledJob ---------------------------
(* Small workflows with signals, and the clients that send them. *)
EXTENDS SignalClaims, DozerEngineRefinement

CONSTANTS v1, v2, null

At(path, name) == [path |-> path, name |-> name]

Approve == At(<<0>>, "approve")
Order   == At(<<1>>, "order")
Again   == At(<<1, 0>>, "approve")
Ship    == At(<<1, 0>>, "ship")

(***************************************************************************)
(* run() waits for a signal, then calls a step that waits for another one: *)
(* the same (TwiceKey) or one of its own (TwoKey).                         *)
(***************************************************************************)
TwiceKey == {Approve, Order, Again}
TwoKey   == {Approve, Order, Ship}

TwiceWait == {Approve, Again}
TwoWait   == {Approve, Ship}

ReturnsOf(K, W) ==
  [b \in K \cup {Root} |-> IF b = Root THEN {2} ELSE IF b \in W THEN {} ELSE {1}]

TwiceReturns == ReturnsOf(TwiceKey, TwiceWait)
TwoReturns   == ReturnsOf(TwoKey, TwoWait)

TwiceThrows ==
  [b \in TwiceKey \cup {Root} |-> IF b = Order THEN {"error", "sleep"} ELSE {}]
TwoThrows   == [b \in TwoKey \cup {Root} |-> {}]

TwiceAttempts == [k \in TwiceKey |-> 2]
TwoAttempts   == [k \in TwoKey |-> 1]

Sends(n, v) == [op |-> "signal", n |-> n, v |-> v]

TwiceCall == {Sends("approve", v1), Sends("approve", v2), [op |-> "cancel"]}
OneCall   == {Sends("approve", v1)}
TwoCall   == {Sends("approve", v1), Sends("ship", v2), [op |-> "cancel"]}
=============================================================================
