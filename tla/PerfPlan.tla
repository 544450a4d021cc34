------------------------------ MODULE PerfPlan ------------------------------
(***************************************************************************)
(* What the performance runner makes of its command line: the scenarios of *)
(* a sweep or of a matrix, and of its measurements: percentiles (which the *)
(* benchmark of the library computes in the same way).                     *)
(*                                                                         *)
(* Numbers are given in tenths.  An item of a list that is no finite       *)
(* number is Missing, and so is an argument that is not there; a list that *)
(* is not there is empty.                                                  *)
(***************************************************************************)
EXTENDS Integers, Sequences, SequencesExt, FiniteSetsExt

CONSTANT Missing

One == 10

Floor(x) == (x \div One) * One

NoLess(low, x) == IF x < low THEN low ELSE x
NoMore(high, x) == IF x > high THEN high ELSE x

-----------------------------------------------------------------------------
(* Arguments *)

IntArg(value, fallback) ==
  IF value = Missing THEN fallback
  ELSE IF Floor(value) > 0 THEN Floor(value) ELSE fallback

ListArg(items, fallback) ==
  LET parsed == SelectSeq(items, LAMBDA x : x # Missing)
      first(i) == \A j \in 1 .. i - 1 : parsed[j] # parsed[i]
      kept == {i \in DOMAIN parsed : first(i)}
  IN IF parsed = <<>> THEN fallback
     ELSE [n \in 1 .. Cardinality(kept) |->
             parsed[CHOOSE i \in kept : Cardinality({j \in kept : j <= i}) = n]]

-----------------------------------------------------------------------------
(* Scenarios *)

Factors == <<"steps", "payloadKb", "jobs", "failureRate", "nestedChildren", "timerMs">>

Normalized(factor, x) ==
  CASE factor \in {"steps", "payloadKb", "jobs"} -> NoLess(One, Floor(x))
    [] factor = "failureRate" -> NoMore(One, NoLess(0, x))
    [] OTHER -> NoLess(0, Floor(x))

Scenario(factor, value, settings) ==
  [factor |-> factor, value |-> value, settings |-> settings]

(* Bug: the baseline is recognized before the value is normalized. *)
ScenariosOf_Raw(factor, values, baseline) ==
  LET varied == SelectSeq(values, LAMBDA x : x # baseline[factor])
  IN [i \in DOMAIN varied |->
        Scenario(factor, Normalized(factor, varied[i]),
                 [baseline EXCEPT ![factor] = Normalized(factor, varied[i])])]

ScenariosOf(factor, values, baseline) ==
  LET varied == SelectSeq(values, LAMBDA x : Normalized(factor, x) # baseline[factor])
  IN [i \in DOMAIN varied |->
        Scenario(factor, Normalized(factor, varied[i]),
                 [baseline EXCEPT ![factor] = Normalized(factor, varied[i])])]

BuildSweepScenarios(baseline, lists) ==
  <<Scenario("baseline", Missing, baseline)>> \o
  FlattenSeq([i \in DOMAIN Factors |-> ScenariosOf(Factors[i], lists[Factors[i]], baseline)])

(* The matrix: the lists are combined as they are given, and a scenario is *)
(* named after its combination; the order does not matter.                 *)
MatrixScenarios(lists) ==
  {Scenario("matrix", named, [f \in DOMAIN named |-> Normalized(f, named[f])]) :
     named \in [steps : ToSet(lists.steps), payloadKb : ToSet(lists.payloadKb),
                jobs : ToSet(lists.jobs), failureRate : ToSet(lists.failureRate),
                nestedChildren : ToSet(lists.nestedChildren), timerMs : ToSet(lists.timerMs)]}

(* main: the arguments with their defaults. *)
BaselineOf(args) ==
  [steps |-> IntArg(args.steps, 50), payloadKb |-> IntArg(args.payloadKb, 40),
   jobs |-> IntArg(args.jobs, 500),
   failureRate |-> IF args.failureRate = Missing THEN 0 ELSE args.failureRate,
   nestedChildren |-> IntArg(args.nestedChildren, 0), timerMs |-> IntArg(args.timerMs, 0)]

DefaultLists ==
  [steps |-> <<30, 80, 160>>, payloadKb |-> <<10, 160, 640>>, jobs |-> <<250, 1000, 3000>>,
   failureRate |-> <<0, 1, 3>>, nestedChildren |-> <<0, 20, 50>>, timerMs |-> <<0, 50, 200>>]

ListsOf(args) == [f \in DOMAIN DefaultLists |-> ListArg(args[f], DefaultLists[f])]

-----------------------------------------------------------------------------
(* Measurements *)

Rank(p, n) == (p * n + 99) \div 100

Percentile(values, p) ==
  IF values = <<>> THEN 0
  ELSE LET sorted == SortSeq(values, <)
           index == NoLess(0, NoMore(Len(values) - 1, Rank(p, Len(values)) - 1))
       IN sorted[index + 1]

-----------------------------------------------------------------------------
(* What to expect *)

(* A sweep varies one factor at a time: each scenario differs from the     *)
(* baseline in its factor, and only there, by the value in its name; every *)
(* value asked for is measured, in its scenario or in the baseline; and    *)
(* only values that are normalized alike get the same name twice.          *)
SweepVariesOneFactor(baseline, lists) ==
  LET plan == BuildSweepScenarios(baseline, lists)
      alike(f) == \E i, j \in DOMAIN lists[f] :
                    i # j /\ Normalized(f, lists[f][i]) = Normalized(f, lists[f][j])
  IN /\ \A i \in 2 .. Len(plan) :
          /\ {f \in DOMAIN baseline : plan[i].settings[f] # baseline[f]} = {plan[i].factor}
          /\ plan[i].settings[plan[i].factor] = plan[i].value
     /\ \A f \in DOMAIN lists : \A x \in ToSet(lists[f]) :
          \E i \in DOMAIN plan : plan[i].settings[f] = Normalized(f, x)
     /\ \A i, j \in DOMAIN plan :
          i # j /\ plan[i].factor = plan[j].factor /\ plan[i].value = plan[j].value
            => alike(plan[i].factor)

(* The matrix measures every combination of the values that were asked     *)
(* for, and nothing else; and when the baseline is one of them, all that a *)
(* sweep measures: the two modes read a value in the same way.             *)
MatrixCoversSweep(baseline, lists) ==
  LET matrix == {m.settings : m \in MatrixScenarios(lists)}
      normalized(f) == {Normalized(f, x) : x \in ToSet(lists[f])}
      plan == BuildSweepScenarios(baseline, lists)
  IN /\ \A f \in DOMAIN lists : {settings[f] : settings \in matrix} = normalized(f)
     /\ Cardinality(matrix) =
          FoldFunction(LAMBDA n, m : n * m, 1, [f \in DOMAIN lists |-> Cardinality(normalized(f))])
     /\ (\A f \in DOMAIN lists : baseline[f] \in normalized(f)) =>
          \A i \in DOMAIN plan : plan[i].settings \in matrix

(* The p-th percentile is the least measured value that p percent of all   *)
(* values do not exceed.                                                   *)
NearestRank(values, p) ==
  values # <<>> =>
    LET share(v) == 100 * Cardinality({i \in DOMAIN values : values[i] <= v})
    IN Percentile(values, p) = Min({v \in ToSet(values) : share(v) >= p * Len(values)})
=============================================================================
