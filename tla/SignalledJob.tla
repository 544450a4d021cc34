---------------------------- MODULE SignalledJob ----------------------------
(***************************************************************************)
(* A workflow job that waits for signals, and the clients that send them   *)
(* or cancel the job while its worker runs it.                             *)
(*                                                                         *)
(* waitForSignal is a step without a method of its own: enterStep is that  *)
(* of DozerEngine (ReplayStep, TraceStep), and the actions below run with  *)
(* the frame of the wait on top.  A client call reads the state of the job *)
(* from Redis, and later writes its copy back whole: what others wrote in  *)
(* between is lost.  BullMQ holds a parked job until its timer ends or a   *)
(* client promotes it.                                                     *)
(*                                                                         *)
(* Bounds: each call in Call is made once; the bodies around a wait do not *)
(* catch its errors.                                                       *)
(***************************************************************************)
EXTENDS DozerEngine

CONSTANTS
  Wait,      \* the keys of waitForSignal calls; the name is that of the signal
  Timed,     \* those with a timeoutMs
  Null,      \* what a wait returns that timed out
  Call,      \* the calls that clients make
  Timer,     \* the end of a delay that is no deadline of a timed wait
  Orderly    \* whether calls and runs are kept apart

ASSUME SignalAssumption ==
  /\ Wait \subseteq Key
  /\ Timed \subseteq Wait
  /\ \A k \in Wait : k.name \in Signal /\ Returns[k] = {} /\ Throws[k] = {}
  /\ Null \in Value
  /\ Call \subseteq [op : {"signal"}, n : Signal, v : Value \ {Null}] \cup [op : {"cancel"}]
  /\ Timer \notin Wait
  /\ Orderly \in BOOLEAN
  /\ Catches = {}

VARIABLES
  held,      \* whether BullMQ holds the job back
  until,     \* the wait, or timer, whose end the parked job is held for
  expired,   \* the waits whose deadline has passed
  lapsed,    \* those of which this was ever true (a history variable)
  calls      \* per call: where it is, and its copy of the state

parking == <<held, until>>
deadlines == <<expired, lapsed>>
signalVars == <<held, until, expired, lapsed, calls>>
allVars == <<vars, signalVars>>

CallState == [at : {"new", "read", "written", "done"}, snap : State]

SignalTypeOK ==
  /\ TypeOK
  /\ held \in BOOLEAN
  /\ until \in Wait \cup {Timer}
  /\ expired \subseteq Timed
  /\ lapsed \subseteq Timed
  /\ calls \in [Call -> CallState]

SignalInit ==
  /\ Init
  /\ held = FALSE
  /\ until = Timer
  /\ expired = {}
  /\ lapsed = {}
  /\ calls = [c \in Call |-> [at |-> "new", snap |-> InitialState]]

UnderWay == {c \in Call : calls[c].at \in {"read", "written"}}

-----------------------------------------------------------------------------
(* waitForSignal, after enterStep *)

Waiting == pc = "body" /\ Top.key \in Wait

(* WorkflowSignalWaitRequestedError takes the way of a sleep request, with *)
(* the deadline of pending entry p or the default one.                     *)
RequestWait(p) ==
  /\ Deliver(Front(frames), "sleep")
  /\ until' = IF p.e THEN p.k ELSE Timer

WaitFails == Deliver(Front(frames), "error") /\ until' = Timer

(* The first time: register the wait. *)
RegisterWait ==
  LET k == Top.key
      d == SavePendingSignal(mem, k.name, k, k \in Timed)
  IN
  /\ Waiting
  /\ ~Cached(mem, k)
  /\ mem.ps[k.name] = Absent
  /\ \/ FlushOk(d, TRUE) /\ RequestWait(d.ps[k.name])
     \/ FlushFails(d, TRUE) /\ WaitFails
  /\ expired' = expired \ {k}
  /\ UNCHANGED <<resultQ, cursor, probing, failures, outcome, held, lapsed, calls>>

(* Bug: the deadline is not looked at. *)
Overdue_Always(p) == p.e

Overdue(p) == p.e /\ p.k \in expired

(* Woken up before the deadline, or there is none. *)
WaitOn ==
  LET p == mem.ps[Top.key.name] IN
  /\ Waiting
  /\ ~Cached(mem, Top.key)
  /\ p # Absent /\ ~Overdue(p)
  /\ RequestWait(p)
  /\ UNCHANGED <<durable, mem, cursor, probing, failures, outcome, spent, deadlines, held, calls>>

(* Past the deadline: null is saved, and a second write clears the entry.  *)
TimeOut ==
  LET k == Top.key
      p == mem.ps[k.name]
      d == SaveStepResult(mem, k, Null)
  IN
  /\ Waiting
  /\ ~Cached(mem, k)
  /\ p # Absent /\ Overdue(p)
  /\ \/ FlushOk(d, TRUE) /\ UNCHANGED <<frames, pc, err, until>>
     \/ FlushFails(d, TRUE) /\ WaitFails
  /\ UNCHANGED <<resultQ, cursor, probing, failures, outcome, deadlines, held, calls>>

ClearTimedOut ==
  LET d == ClearPendingSignal(mem, Top.key.name) IN
  /\ Waiting
  /\ Cached(mem, Top.key)
  /\ \/ FlushOk(d, TRUE) /\ frames' = Observed(Front(frames), Null) /\ UNCHANGED <<pc, err, until>>
     \/ FlushFails(d, TRUE) /\ WaitFails
  /\ UNCHANGED <<resultQ, cursor, probing, failures, outcome, deadlines, held, calls>>

WaitStep == RegisterWait \/ WaitOn \/ TimeOut \/ ClearTimedOut

-----------------------------------------------------------------------------
(* The other steps of the worker.  Park moves the job to the delayed ones. *)

SignalRun ==
  /\ Run
  /\ ~held
  /\ Orderly => UnderWay = {}
  /\ UNCHANGED signalVars

(* The frame of a wait has no body of its own: only a WaitStep goes on     *)
(* with it.                                                                *)
WorkerStep ==
  /\ ~Waiting
  /\ Worker
  /\ held' = (pc' = "idle" /\ outcome' = "delayed")
  /\ until' = IF err = "sleep" THEN until ELSE Timer
  /\ UNCHANGED <<deadlines, calls>>

SignalCrash == Crash /\ UNCHANGED signalVars

-----------------------------------------------------------------------------
(* Time, and BullMQ's delayed jobs *)

Elapse(k) ==
  /\ k \in Timed \ expired
  /\ \E d \in {store, mem} : d.ps[k.name] # Absent /\ d.ps[k.name].k = k
  /\ expired' = expired \cup {k}
  /\ lapsed' = lapsed \cup {k}
  /\ UNCHANGED <<vars, parking, calls>>

(* Bug: a parked job is woken up by clients only. *)
Due_Never == FALSE /\ UNCHANGED allVars

Due ==
  /\ held
  /\ held' = FALSE
  /\ expired' = expired \cup ({until} \ {Timer})
  /\ lapsed' = lapsed \cup ({until} \ {Timer})
  /\ UNCHANGED <<vars, until, calls>>

-----------------------------------------------------------------------------
(* Clients *)

(* Bug: jobs that run are cancelled too. *)
MayBegin_AnyStatus(c) == c.op = "signal" => store.ps[c.n] # Absent

MayBegin(c) ==
  IF c.op = "cancel" THEN store.s = "pending" ELSE store.ps[c.n] # Absent

(* A call that may not begin returns false and leaves no trace. *)
Read(c) ==
  /\ calls[c].at = "new"
  /\ MayBegin(c)
  /\ Orderly => pc = "idle" /\ UnderWay = {}
  /\ calls' = [calls EXCEPT ![c] = [at |-> "read", snap |-> store]]
  /\ UNCHANGED <<vars, parking, deadlines>>

Written(c) ==
  IF c.op = "cancel"
    THEN MarkCancelled(calls[c].snap)
    ELSE DeliverSignal(calls[c].snap, c.n, c.v)

Reached(c, at) == calls' = [calls EXCEPT ![c] = [at |-> at, snap |-> InitialState]]

(* Bug: client and worker share the object. *)
Write_Shared(c) ==
  /\ calls[c].at = "read"
  /\ store' = Written(c)
  /\ mem' = store'
  /\ Reached(c, IF c.op = "signal" THEN "written" ELSE "done")
  /\ UNCHANGED <<resultQ, pc, context, failures, err, outcome, spent, parking, deadlines>>

(* updateData of the client's copy.  A failed write ends the call. *)
Write(c) ==
  /\ calls[c].at = "read"
  /\ \/ /\ store' = Written(c)
        /\ Reached(c, IF c.op = "signal" THEN "written" ELSE "done")
        /\ UNCHANGED spent
     \/ /\ CanFault
        /\ Spend("faults")
        /\ store' \in {store, Written(c)}
        /\ Reached(c, "done")
  /\ mem' = IF pc = "idle" THEN store' ELSE mem
  /\ UNCHANGED <<resultQ, pc, context, failures, err, outcome, parking, deadlines>>

(* promote throws unless the job is among the delayed ones. *)
Promote(c) ==
  /\ calls[c].at = "written"
  /\ Reached(c, "done")
  /\ \/ held' = FALSE /\ UNCHANGED spent
     \/ CanFault /\ Spend("faults") /\ UNCHANGED held
  /\ UNCHANGED <<durable, mem, pc, context, failures, err, outcome, until, deadlines>>

ClientStep == \E c \in Call : Write(c) \/ Promote(c)

-----------------------------------------------------------------------------
SignalNext ==
  \/ SignalRun \/ WorkerStep \/ WaitStep \/ SignalCrash
  \/ Due \/ \E k \in Wait : Elapse(k)
  \/ \E c \in Call : Read(c)
  \/ ClientStep
  \/ Ended /\ UNCHANGED signalVars

(* Beyond the worker and the redelivery: BullMQ's timers end, and a client *)
(* that began a call goes on with it.                                      *)
SignalSpec ==
  /\ SignalInit /\ [][SignalNext]_allVars
  /\ WF_allVars(WorkerStep \/ WaitStep)
  /\ WF_allVars(SignalRun)
  /\ WF_allVars(Due)
  /\ WF_allVars(ClientStep)

-----------------------------------------------------------------------------
(* Properties *)

(* What a body gets from waitForSignal is the payload of a call that found *)
(* the wait registered, or null after a deadline of this very wait,        *)
(* although clients put old states back into Redis: an answer out of such  *)
(* a state was given all the same.  (Where a wait with a deadline shares   *)
(* its signal, its entry may time out the other one: see README.)          *)
AnswersAreGenuine ==
  pc = "body" =>
    \A i \in DOMAIN frames : \A n \in DOMAIN frames[i].obs : \A k \in Wait :
      k.path = Append(frames[i].key.path, n - 1) =>
        \/ frames[i].obs[n] = Null /\ k \in lapsed
        \/ \E c \in Call : /\ c.op = "signal" /\ c.n = k.name /\ c.v = frames[i].obs[n]
                           /\ calls[c].at # "new"

(* No write of a client changes what a running worker has decided: one run *)
(* acts on one answer of each step and wait.                               *)
RunKeepsItsAnswers ==
  [][pc # "idle" /\ pc' # "idle" => Preserves(mem, mem')]_allVars
=============================================================================
