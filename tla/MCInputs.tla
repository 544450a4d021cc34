------------------------------ MODULE MCInputs ------------------------------
(* Small sets of inputs, and what is expected of the functions that work   *)
(* on values and on the arguments of the performance runner.               *)
EXTENDS Inputs, ValueSerializer, PerfPlan

-----------------------------------------------------------------------------
(* Values: two objects that may hold each other, themselves and primitives *)

Atom == {<<"string", "text">>, <<"number", "NaN">>, <<"null", "">>, <<"undefined", "">>,
         <<"bigint", "">>}

Part == Atom \cup {<<"ref", 1>>, <<"ref", 2>>}

Arrays == {<<"array", s>> : s \in {<<>>} \cup (Part \X Part)}

Objects ==
  {<<"object", [a |-> p, b |-> q]>> : p, q \in Part}
    \cup {<<"object", Marker :> p @@ "a" :> <<"ref", 2>>>> : p \in Part}

Leaves ==
  {<<class, "1">> : class \in {"Date", "ArrayBuffer", "Buffer", "DataView", "Blob", "Map",
                               "Float16Array"} \cup TypedArray}

SmallHeaps == [1 .. 2 -> Arrays \cup Objects \cup Leaves]

-----------------------------------------------------------------------------
(* Policies *)

SmallPolicy ==
  [attempts : {{}, {0}, {3}}, delayMs : {{}, {0}, {2}}, backoffMs : {{}, {3}},
   strategy : {{}, {"linear"}, {"exponential"}}]

SmallModulePolicy == [attempts : {{}, {4}}, delayMs : {{}, {1}}, backoffMs : {{}, {5}},
                 strategy : {{}, {"constant"}, {"exponential"}}]

-----------------------------------------------------------------------------
(* Workflow classes: the imports of an application take from these         *)

Declared(id, declared, name, method) ==
  [id |-> id, className |-> declared, name |-> name, base |-> TRUE,
   own |-> [m \in {"pay"} |-> method], run |-> TRUE]

Order == Declared(1, "Order", "order", "step")
OrderCopy == Declared(2, "Order", "order-copy", "noStep")
Rival == Declared(3, "Rival", "order", "step")
Plain == Declared(4, "Plain", "plain", "plain")
NoRun == [Declared(5, "NoRun", "no-run", "step") EXCEPT !.run = FALSE]
NoName == Declared(6, "NoName", None, "step")

(* What the README shows: a class that extends nothing. *)
Documented == [Declared(7, "Documented", "documented", "step") EXCEPT !.base = FALSE]

SmallClass == {Order, OrderCopy, Rival, Plain, NoRun, NoName, Documented}

Import == {<<c>> : c \in SmallClass} \cup (SmallClass \X SmallClass)

SmallImports == {<<i>> : i \in Import} \cup (Import \X Import)

-----------------------------------------------------------------------------
(* Sweeps, in tenths *)

(* Arguments of the baseline: some missing, some out of range. *)
BaselineArgs ==
  {[steps |-> s, payloadKb |-> 20, jobs |-> 20, failureRate |-> r,
    nestedChildren |-> 0, timerMs |-> Missing] : s \in {Missing, 5, 12}, r \in {Missing, 3, 15}}

Items == {Missing, -5, 0, 3, 12, 15, 20}

List == {<<>>} \cup {<<x>> : x \in Items} \cup (Items \X Items) \cup {<<50, 52, x>> : x \in Items}

(* One list is given; the other factors keep two of their values.          *)
ListArgs(f, list) ==
  [g \in ToSet(Factors) |->
     IF g = f THEN list ELSE <<BaselineOf([h \in ToSet(Factors) |-> Missing])[g], 20>>]

SmallSweeps ==
  {<<BaselineOf(args), ListsOf(ListArgs(f, list))>> :
     args \in BaselineArgs, f \in ToSet(Factors), list \in List}

SmallSamples == {<<s, p>> : s \in UNION {[1 .. n -> 1 .. 4] : n \in 1 .. 5}, p \in {1, 50, 95, 100}}

-----------------------------------------------------------------------------
(* serializeForStorage and deserializeFromStorage agree with each other,   *)
(* for values with shared, nested and circular parts.                      *)
ValuesRoundTrip == Given("value") => RoundTrips(input[2], <<"ref", 1>>)

(* A sweep of the performance runner measures what was asked for, one      *)
(* factor at a time, and is part of the matrix of the same values; and the *)
(* percentiles it reports are nearest ranks.                               *)
SweepsAreSound ==
  /\ Given("sweep") =>
       SweepVariesOneFactor(input[2][1], input[2][2]) /\ MatrixCoversSweep(input[2][1], input[2][2])
  /\ Given("sample") => NearestRank(input[2][1], input[2][2])
=============================================================================
