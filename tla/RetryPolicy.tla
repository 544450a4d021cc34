----------------------------- MODULE RetryPolicy -----------------------------
(***************************************************************************)
(* How often and after which waits a step is executed: the options of the  *)
(* step, of its workflow and of the module, merged by the engine and by    *)
(* the wrapper of the step.                                                *)
(*                                                                         *)
(* An option is the empty set where it is left out and a set of one value  *)
(* where it is given.  MaxTimer stands for 2^31 - 1, the longest delay     *)
(* that setTimeout knows.                                                  *)
(***************************************************************************)
EXTENDS Integers, Sequences, FiniteSetsExt

CONSTANT MaxTimer

ASSUME MaxTimerAssumption == MaxTimer \in Nat \ {0}

Strategy == {"constant", "linear", "exponential"}

(* The first option that is given: a ?? b ?? ... *)
FirstGiven(options) ==
  LET given == {i \in DOMAIN options : options[i] # {}}
  IN IF given = {} THEN {} ELSE options[Min(given)]

GivenOr(option, default) == IF option = {} THEN default ELSE CHOOSE x \in option : TRUE

AtLeast(n, x) == IF x < n THEN n ELSE x

-----------------------------------------------------------------------------
(* Merging *)

(* Bug: the delayMs of the module goes before the backoffMs of the workflow. *)
MergeRetryOptions_ByName(global, workflow) ==
  [attempts  |-> FirstGiven(<<workflow.attempts, global.attempts>>),
   delayMs   |-> FirstGiven(<<workflow.delayMs, global.delayMs,
                              workflow.backoffMs, global.backoffMs>>),
   backoffMs |-> {},
   strategy  |-> FirstGiven(<<workflow.strategy, global.strategy>>)]

(* mergeRetry: what the engine hands to the execution context. *)
MergeRetryOptions(global, workflow) ==
  [attempts  |-> FirstGiven(<<workflow.attempts, global.attempts>>),
   delayMs   |-> FirstGiven(<<workflow.delayMs, workflow.backoffMs,
                              global.delayMs, global.backoffMs>>),
   backoffMs |-> {},
   strategy  |-> FirstGiven(<<workflow.strategy, global.strategy>>)]

MaxAttempts(step, default) ==
  AtLeast(1, GivenOr(FirstGiven(<<step.attempts, default.attempts>>), 1))

BackoffBaseMs(step, default) ==
  GivenOr(FirstGiven(<<step.delayMs, step.backoffMs, default.delayMs, default.backoffMs>>), 0)

BackoffStrategy(step, default) ==
  GivenOr(FirstGiven(<<step.strategy, default.strategy>>), "constant")

-----------------------------------------------------------------------------
(* Waiting *)

PowerOfTwo[n \in Nat] == IF n = 0 THEN 1 ELSE 2 * PowerOfTwo[n - 1]

(* resolveRetryDelayMs *)
ResolveRetryDelayMs(baseDelayMs, strategy, attempt) ==
  LET base == AtLeast(0, baseDelayMs)
      n == AtLeast(1, attempt)
  IN CASE strategy = "linear" -> base * n
       [] strategy = "exponential" -> base * PowerOfTwo[n - 1]
       [] OTHER -> base

(* setTimeout: a delay that does not fit becomes one millisecond. *)
SetTimeout(ms) == IF ms > MaxTimer THEN 1 ELSE ms

(* What the engine sleeps before it goes round its loop again. *)
Pause(backoffMs) == IF backoffMs > 0 THEN SetTimeout(backoffMs) ELSE 0

(* The pauses of a step that fails whenever it is executed: failedAttempts *)
(* counts from one and is tested before it is stored.                      *)
PausesOf(step, default) ==
  [failedAttempts \in 1 .. MaxAttempts(step, default) - 1 |->
     Pause(ResolveRetryDelayMs(BackoffBaseMs(step, default),
                               BackoffStrategy(step, default), failedAttempts))]

Pauses(step, workflow, global) == PausesOf(step, MergeRetryOptions(global, workflow))

NoPolicy == [attempts |-> {}, delayMs |-> {}, backoffMs |-> {}, strategy |-> {}]

(* The same of a workflow whose run() fails, by its own retry options: no  *)
(* step has a say in it.                                                   *)
WorkflowPauses(workflow, global) == PausesOf(MergeRetryOptions(global, workflow), NoPolicy)

-----------------------------------------------------------------------------
(* What to expect: the reference definition *)

(* A delay counts where it is given nearest to the step, by whichever of   *)
(* its two names.                                                          *)
DelayOf(level) == IF level.delayMs # {} THEN level.delayMs ELSE level.backoffMs

NearestDelay(levels) == FirstGiven([i \in DOMAIN levels |-> DelayOf(levels[i])])
NearestAttempts(levels) == FirstGiven([i \in DOMAIN levels |-> levels[i].attempts])
NearestStrategy(levels) == FirstGiven([i \in DOMAIN levels |-> levels[i].strategy])

Factor(strategy, n) ==
  CASE strategy = "constant" -> 1 [] strategy = "linear" -> n [] OTHER -> PowerOfTwo[n - 1]

(* Pauses of what fails for good: it is executed as often, and waits as    *)
(* long, as the nearest level says that says anything of it; and as long   *)
(* as the longest delay fits a timer no pause is shorter than the last.    *)
FollowsNearest(levels, pauses) ==
  LET base == GivenOr(NearestDelay(levels), 0)
      factor(n) == Factor(GivenOr(NearestStrategy(levels), "constant"), n)
      fits(n) == base * factor(n) <= MaxTimer
  IN /\ Len(pauses) + 1 = AtLeast(1, GivenOr(NearestAttempts(levels), 1))
     /\ \A n \in DOMAIN pauses : fits(n) => pauses[n] = AtLeast(0, base * factor(n))
     /\ \A m, n \in DOMAIN pauses : m < n /\ fits(n) => pauses[m] <= pauses[n]

(* The engine, the workflow and the wrapper of a step each merge a part of *)
(* a policy; together they follow the nearest level, for a step and for    *)
(* the workflow.                                                           *)
FollowsNearestPolicy(step, workflow, global) ==
  /\ FollowsNearest(<<step, workflow, global>>, Pauses(step, workflow, global))
  /\ FollowsNearest(<<workflow, global>>, WorkflowPauses(workflow, global))
=============================================================================
