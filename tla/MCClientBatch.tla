---------------------------- MODULE MCClientBatch ----------------------------
(* Two calls of submitBatch at a time, and a job of somebody else. *)
EXTENDS ClientBatch

CONSTANTS c1, c2

TwoCalls == {c1, c2}

(* One with two inputs, one with one. *)
Sizes == [c \in TwoCalls |-> IF c = c1 THEN 2 ELSE 1]

OneForeign == {<<"other", 1>>}
=============================================================================
