----------------------------- MODULE StepTimeout -----------------------------
(***************************************************************************)
(* A run() whose steps have timeouts.  Promise.race lets the wrapper of a  *)
(* step that timed out go on, and nothing stops the step's body: it goes   *)
(* on too, calls its next steps, fails and times out, in the execution     *)
(* context of its attempt and on the state object of its job, while the    *)
(* workflow retries the step or has ended.                                 *)
(*                                                                         *)
(* A fiber is a chain of bodies each of which waits for the next one: the  *)
(* body at the bottom is run() itself or one whose wrapper gave it up.  A  *)
(* fiber is interrupted where it waits for a write; the writes of all      *)
(* fibers of the process go out in the order they were made.               *)
(*                                                                         *)
(* The code is fixed and leaves nothing to chance but time and failures:   *)
(* every body makes the calls Plan gives it, in that order.                *)
(***************************************************************************)
EXTENDS WorkflowStateStore

CONSTANTS
  Plan,              \* Plan[n]: the names of the steps that body n calls
  Timed,             \* the names of steps with a timeout
  Flaky,             \* the names of steps whose body may throw
  Attempts,          \* Attempts[n]: maxAttempts of the steps of that name
  WorkflowAttempts,  \* maxWorkflowAttempts
  MaxCrashes

Name == DOMAIN Plan

ASSUME TimeoutAssumption ==
  /\ "run" \in Name
  /\ \A n \in Name : Plan[n] \in Seq(Name \ {"run"})
  /\ Timed \cup Flaky \subseteq Name \ {"run"}
  /\ Attempts \in [Name -> Nat \ {0}]
  /\ WorkflowAttempts \in Nat \ {0}
  /\ MaxCrashes \in Nat

VARIABLES
  store,     \* job.data[d] in Redis
  mem,       \* job.data[d] in the worker: one object for all attempts and fibers
  contexts,  \* the execution contexts of the attempts of this run(), in order
  fibers,    \* the fibers of the process, in the order they came up
  failures,  \* workflowFailedAttempts
  outcome,   \* of run(): none, running, resolved, rejected, crashed
  crashes

vars == <<store, mem, contexts, fibers, failures, outcome, crashes>>

RootKey == [path |-> <<>>, name |-> "run"]

Frame == [path : Seq(Nat), next : Nat]            \* StepFrame
Context == [frames : Seq(Frame), cursor : Nat]
Call == [key : Key \cup {RootKey}, calls : Nat]   \* a body and its calls so far

(* What a fiber does: its top body runs or throws, or it waits for the     *)
(* write of beginStep, completeStep or incrementStepRetryCount.            *)
At == {"body", "throw", "enter", "save", "charge"}

Fiber ==
  [ main : BOOLEAN, ctx : Nat \ {0}, stack : Seq(Call), at : At,
    err : {"none", "error", "retry", "conflict", "nondeterminism"} ]

TimeoutTypeOK ==
  /\ store \in State /\ mem \in State
  /\ contexts \in Seq(Context) /\ \A c \in DOMAIN contexts : contexts[c].frames # <<>>
  /\ fibers \in Seq(Fiber)
  /\ \A f \in DOMAIN fibers : fibers[f].ctx \in DOMAIN contexts /\ fibers[f].stack # <<>>
  /\ failures \in 0 .. WorkflowAttempts - 1
  /\ outcome \in {"none", "running", "resolved", "rejected", "crashed"}
  /\ crashes \in 0 .. MaxCrashes

Init ==
  /\ store = InitialState /\ mem = InitialState
  /\ contexts = <<>> /\ fibers = <<>>
  /\ failures = 0 /\ outcome = "none" /\ crashes = 0

-----------------------------------------------------------------------------
(* Execution contexts *)

FreshContext == [frames |-> << [path |-> <<>>, next |-> 0] >>, cursor |-> 0]

TopFrame(c) == Last(c.frames)

(* The key that enterStep gives to the next call, whoever makes it. *)
NextKey(c, n) == [path |-> Append(TopFrame(c).path, TopFrame(c).next), name |-> n]

Numbered(c) == [c EXCEPT !.frames[Len(c.frames)].next = @ + 1]

(* exitStep: run()'s own frame stays. *)
ExitStep(c) == IF Len(c.frames) = 1 THEN c ELSE [c EXCEPT !.frames = Front(@)]

(* enterStep after its write, and what follows at once: a cached step is   *)
(* left again, any other one resets the children of the frame on top.      *)
Entered(c, k) ==
  LET entered == [c EXCEPT !.frames = Append(@, [path |-> k.path, next |-> 0]),
                           !.cursor = @ + 1]
      Skip(i) == Min({j \in i .. Max({i, Len(mem.t)}) :
                        j >= Len(mem.t) \/ ~Below(k.path, mem.t[j + 1].path)})
  IN IF Cached(mem, k) THEN ExitStep([entered EXCEPT !.cursor = Skip(@)]) ELSE entered

-----------------------------------------------------------------------------
(* Fibers *)

Body(f) == Last(fibers[f].stack)

InContext(f, c) == contexts' = [contexts EXCEPT ![fibers[f].ctx] = c]

ContextOf(f) == contexts[fibers[f].ctx]

(* Fiber f goes on as g. *)
Goes(f, g) == fibers' = [fibers EXCEPT ![f] = g]

(* The body on top of stack s has called a step. *)
Called(s, k) == Append([s EXCEPT ![Len(s)].calls = @ + 1], [key |-> k, calls |-> 0])

Calls(f, k) == [fibers[f] EXCEPT !.stack = Called(@, k)]

Returns(g) == [g EXCEPT !.stack = Front(@), !.at = "body"]

Throws(g, kind) == [g EXCEPT !.at = "throw", !.err = kind]

Write(d) == mem' = d /\ store' = d

Proceeds == UNCHANGED <<failures, outcome, crashes>>

-----------------------------------------------------------------------------
(* enterStep *)

MayCall(f) ==
  /\ fibers[f].at = "body"
  /\ Body(f).calls < Len(Plan[Body(f).key.name])

CalledKey(f) == NextKey(ContextOf(f), Plan[Body(f).key.name][Body(f).calls + 1])

(* Where the step stands once it is entered. *)
EnteredFiber(g, k) == IF Cached(mem, k) THEN Returns(g) ELSE [g EXCEPT !.at = "body"]

(* The trace has this call here: there is no write to wait for. *)
ReplayStep(f) ==
  LET k == CalledKey(f) IN
  /\ MayCall(f)
  /\ ~Unvisited(mem, ContextOf(f).cursor) /\ ~Diverges(mem, ContextOf(f).cursor, k)
  /\ InContext(f, Entered(Numbered(ContextOf(f)), k))
  /\ Goes(f, EnteredFiber(Calls(f, k), k))
  /\ UNCHANGED <<store, mem>> /\ Proceeds

(* The error comes from enterStep: the called step's wrapper has no hand   *)
(* in it.                                                                  *)
DivergeStep(f) ==
  /\ MayCall(f)
  /\ Diverges(mem, ContextOf(f).cursor, CalledKey(f))
  /\ InContext(f, Numbered(ContextOf(f)))
  /\ Goes(f, Throws(fibers[f], "conflict"))
  /\ UNCHANGED <<store, mem>> /\ Proceeds

TraceStep(f) ==
  LET k == CalledKey(f) IN
  /\ MayCall(f)
  /\ Unvisited(mem, ContextOf(f).cursor)
  /\ Write(RecordStep(mem, k))
  /\ InContext(f, Numbered(ContextOf(f)))
  /\ Goes(f, [Calls(f, k) EXCEPT !.at = "enter"])
  /\ Proceeds

EnterStep(f) ==
  /\ fibers[f].at = "enter"
  /\ InContext(f, Entered(ContextOf(f), Body(f).key))
  /\ Goes(f, EnteredFiber(fibers[f], Body(f).key))
  /\ UNCHANGED <<store, mem>> /\ Proceeds

-----------------------------------------------------------------------------
(* The wrapper around the body on top *)

Wrapped(f) == Len(fibers[f].stack) > 1

HasReturned(f) ==
  fibers[f].at = "body" /\ Body(f).calls = Len(Plan[Body(f).key.name])

CompleteStep(f) ==
  /\ HasReturned(f) /\ Wrapped(f)
  /\ \E v \in Value : Write(SaveStepResult(mem, Body(f).key, v))
  /\ Goes(f, [fibers[f] EXCEPT !.at = "save"])
  /\ UNCHANGED contexts /\ Proceeds

StepCompleted(f) ==
  /\ fibers[f].at = "save"
  /\ InContext(f, ExitStep(ContextOf(f)))
  /\ Goes(f, Returns(fibers[f]))
  /\ UNCHANGED <<store, mem>> /\ Proceeds

BodyThrows(f) ==
  /\ fibers[f].at = "body" /\ Body(f).key.name \in Flaky
  /\ Goes(f, Throws(fibers[f], "error"))
  /\ UNCHANGED <<store, mem, contexts>> /\ Proceeds

(* When the wrapper of the i-th body of fiber f gives up: the calls up to  *)
(* that one, and the body that goes on.                                    *)
TimedOut(f, i) == [Throws(fibers[f], "error") EXCEPT !.stack = SubSeq(@, 1, i)]

GivenUp(f, i) ==
  << [fibers[f] EXCEPT !.main = FALSE, !.stack = SubSeq(@, i, Len(@))] >>

(* The timer of the i-th body ends: its wrapper has been in runWithTimeout *)
(* since the body started, and its body has not settled.                   *)
TimeOut(f, i) ==
  /\ i \in 2 .. Len(fibers[f].stack)
  /\ fibers[f].stack[i].key.name \in Timed
  /\ i < Len(fibers[f].stack) \/ fibers[f].at = "body"
  /\ fibers' = [fibers EXCEPT ![f] = TimedOut(f, i)] \o GivenUp(f, i)
  /\ UNCHANGED <<store, mem, contexts>> /\ Proceeds

(* Bug: off by one. *)
MayRetry_OffByOne(k) == mem.a[k] < Attempts[k.name]

(* The count is read and written without an await in between. *)
MayRetry(k) == mem.a[k] + 1 < Attempts[k.name]

ChargeFailure(f) ==
  /\ fibers[f].at = "throw" /\ Wrapped(f)
  /\ MayRetry(Body(f).key)
  /\ Write(IncrementStepRetryCount(mem, Body(f).key))
  /\ Goes(f, [fibers[f] EXCEPT !.at = "charge"])
  /\ UNCHANGED contexts /\ Proceeds

FailureCharged(f) ==
  /\ fibers[f].at = "charge"
  /\ InContext(f, ExitStep(ContextOf(f)))
  /\ Goes(f, Throws(Returns(fibers[f]), "retry"))
  /\ UNCHANGED <<store, mem>> /\ Proceeds

Rethrow(f) ==
  /\ fibers[f].at = "throw" /\ Wrapped(f)
  /\ ~MayRetry(Body(f).key)
  /\ InContext(f, ExitStep(ContextOf(f)))
  /\ Goes(f, Throws(Returns(fibers[f]), fibers[f].err))
  /\ UNCHANGED <<store, mem>> /\ Proceeds

-----------------------------------------------------------------------------
(* The bottom of a fiber *)

Ends(f) == fibers' = RemoveAt(fibers, f)

(* A body that was given up settles: Promise.race has settled before.      *)
DropLateResult(f) ==
  /\ ~fibers[f].main /\ ~Wrapped(f)
  /\ HasReturned(f) \/ fibers[f].at = "throw"
  /\ Ends(f)
  /\ UNCHANGED <<store, mem, contexts>> /\ Proceeds

(* Bug: the next attempt goes on in the context of the last one. *)
NextContext_Kept ==
  IF contexts = <<>> THEN FreshContext ELSE [Last(contexts) EXCEPT !.cursor = 0]

NextContext == FreshContext

(* The main fiber of an attempt, in a new context: it takes the place of   *)
(* one that no fiber is in any more.                                       *)
Attempt(rest) ==
  LET c == Min(1 .. Len(contexts) + 1 \ {rest[i].ctx : i \in DOMAIN rest}) IN
  /\ Write(MarkRunning(mem))
  /\ contexts' = IF c \in DOMAIN contexts THEN [contexts EXCEPT ![c] = NextContext]
                 ELSE Append(contexts, NextContext)
  /\ fibers' = Append(rest, [main |-> TRUE, ctx |-> c,
                             stack |-> << [key |-> RootKey, calls |-> 0] >>,
                             at |-> "body", err |-> "none"])

(* run() returned. *)
Complete(f) ==
  /\ fibers[f].main /\ HasReturned(f) /\ ~Wrapped(f)
  /\ TraceConsumed(mem, ContextOf(f).cursor)
  /\ Write(MarkCompleted(mem, <<>>))
  /\ outcome' = "resolved"
  /\ Ends(f)
  /\ UNCHANGED <<contexts, failures, crashes>>

ReturnDiverged(f) ==
  /\ fibers[f].main /\ HasReturned(f) /\ ~Wrapped(f)
  /\ ~TraceConsumed(mem, ContextOf(f).cursor)
  /\ Goes(f, Throws(fibers[f], "nondeterminism"))
  /\ UNCHANGED <<store, mem, contexts>> /\ Proceeds

ReachesRun(f) == fibers[f].main /\ fibers[f].at = "throw" /\ ~Wrapped(f)

(* Bug: off by one. *)
Fatal_OffByOne(f) == fibers[f].err # "retry" /\ failures >= WorkflowAttempts

Fatal(f) == fibers[f].err # "retry" /\ failures + 1 >= WorkflowAttempts

(* The loop of run() turns: a step retry, or one of the whole workflow.    *)
Retry(f) ==
  /\ ReachesRun(f) /\ ~Fatal(f)
  /\ Attempt(RemoveAt(fibers, f))
  /\ failures' = IF fibers[f].err = "retry" THEN failures ELSE failures + 1
  /\ UNCHANGED <<outcome, crashes>>

Fail(f) ==
  /\ ReachesRun(f) /\ Fatal(f)
  /\ Write(MarkFailed(mem, fibers[f].err))
  /\ outcome' = "rejected"
  /\ Ends(f)
  /\ UNCHANGED <<contexts, failures, crashes>>

-----------------------------------------------------------------------------
(* BullMQ delivers the job when it is new and when its worker stalled. *)
Run ==
  /\ outcome \in {"none", "crashed"}
  /\ outcome' = "running"
  /\ Attempt(<<>>)
  /\ UNCHANGED <<failures, crashes>>

(* The process ends, with all its fibers. *)
Crash ==
  /\ outcome = "running"
  /\ crashes < MaxCrashes
  /\ crashes' = crashes + 1
  /\ outcome' = "crashed"
  /\ fibers' = <<>> /\ contexts' = <<>> /\ failures' = 0
  /\ UNCHANGED <<store, mem>>

Ended == outcome \in {"resolved", "rejected"} /\ fibers = <<>> /\ UNCHANGED vars

Step(f) ==
  \/ ReplayStep(f) \/ DivergeStep(f) \/ TraceStep(f) \/ EnterStep(f)
  \/ CompleteStep(f) \/ StepCompleted(f)
  \/ BodyThrows(f) \/ \E i \in DOMAIN fibers[f].stack : TimeOut(f, i)
  \/ ChargeFailure(f) \/ FailureCharged(f) \/ Rethrow(f)
  \/ DropLateResult(f) \/ Complete(f) \/ ReturnDiverged(f) \/ Retry(f) \/ Fail(f)

Main == \E f \in DOMAIN fibers : fibers[f].main /\ Step(f)

Next == Run \/ Crash \/ Ended \/ \E f \in DOMAIN fibers : Step(f)

(* The job is delivered, and run() goes on; nothing is assumed of bodies   *)
(* that were given up.                                                     *)
Spec == Init /\ [][Next]_vars /\ WF_vars(Run) /\ WF_vars(Main)

-----------------------------------------------------------------------------
(* Properties *)

(* A new attempt has a context of its own: as long as none of its own      *)
(* steps has timed out, the frames are those of its open calls and the     *)
(* next call gets its number, although bodies of earlier attempts enter    *)
(* and exit steps all the while.                                           *)
AttemptsAreIsolated ==
  \A f \in DOMAIN fibers : fibers[f].main /\ fibers[f].at = "body" =>
    ContextOf(f).frames =
      [i \in DOMAIN fibers[f].stack |->
         [path |-> fibers[f].stack[i].key.path, next |-> fibers[f].stack[i].calls]]

(* Two wrappers of the same step, the one of a retry and the one of a body *)
(* that goes on since the last attempt, both fail: together they do not    *)
(* charge the step beyond its attempts.                                    *)
RetryBudget == \A k \in Key : store.a[k] < Attempts[k.name]

(* Whatever the bodies that were given up do to the state, run() ends.     *)
RunEnds == outcome = "running" ~> outcome # "running"

(* Code that makes the same calls in the same order in every attempt is    *)
(* not refused.                                                            *)
SameCallsAreAccepted ==
  \A f \in DOMAIN fibers :
    fibers[f].main => fibers[f].err \notin {"conflict", "nondeterminism"}
=============================================================================
