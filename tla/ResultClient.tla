---------------------------- MODULE ResultClient ----------------------------
(***************************************************************************)
(* The clients that want the result of a workflow job, beside the engine   *)
(* that runs it: waitForResult, which polls the result queue and the job   *)
(* in turn until its deadline, getResult and hasResult, getJobInfo, and    *)
(* the worker that consumes the result queue and calls a handler.          *)
(*                                                                         *)
(* The engine is DozerEngine.  A client reads Redis (resultQ and store)    *)
(* and writes nothing; between two of its reads the engine may do          *)
(* anything.  What a client got is kept for ever in answers.               *)
(*                                                                         *)
(* Bounds: a reader calls once; a result job is redelivered MaxRedelivered *)
(* times; neither the workflow job nor the result job is removed.          *)
(***************************************************************************)
EXTENDS DozerEngine

CONSTANTS
  Waiter,           \* calls of waitForResult
  Reader,           \* callers of hasResult and then getResult
  Watcher,          \* calls of getJobInfo
  MaxRedelivered    \* how often the result worker loses or fails a job

ASSUME ResultAssumption ==
  /\ Publishes
  /\ MaxRedelivered \in Nat

Client == Waiter \cup Reader \cup Watcher

VARIABLES
  at,        \* where each call is
  late,      \* the waiters whose deadline has passed
  answers,   \* what each call returned
  delivery,  \* the result job in its queue: waiting, active, handled, done
  handled,   \* the messages the handler has taken, in order
  redelivered

clientVars == <<at, late, answers>>
workerVars == <<delivery, handled, redelivered>>
resultVars == <<vars, clientVars, workerVars>>

(* An answer: whether a result came, and which.                            *)
NoAnswer == [found |-> FALSE, result |-> Undefined]

Answer == [found : BOOLEAN, result : Seq(Observation) \cup {Undefined}]

Message == [status : {"completed", "failed"},
            result : Seq(Observation) \cup {Undefined}]

ResultInit ==
  /\ Init
  /\ at = [c \in Client |-> "new"]
  /\ late = {}
  /\ answers = [c \in Client |-> NoAnswer]
  /\ delivery = "waiting"
  /\ handled = <<>>
  /\ redelivered = 0

Goes(c, where) == at' = [at EXCEPT ![c] = where]

Answers(c, r) == answers' = [answers EXCEPT ![c] = [found |-> TRUE, result |-> r]]

-----------------------------------------------------------------------------
(* Reading the result queue *)

HasResult == resultQ # NoResultJob

(* getResultJob keeps the result and drops the status: the result of a     *)
(* published failure is null, for which Undefined stands here.             *)
GetResultJob == resultQ.result

-----------------------------------------------------------------------------
(* waitForResult *)

CallWait(w) ==
  /\ at[w] = "new"
  /\ Goes(w, "poll")
  /\ UNCHANGED <<vars, late, answers, workerVars>>

(* Top of the loop, within the deadline: ask for the result job.           *)
PollResult(w) ==
  /\ at[w] = "poll" /\ w \notin late
  /\ IF HasResult
       THEN Goes(w, "returned") /\ Answers(w, GetResultJob)
       ELSE Goes(w, "status") /\ UNCHANGED answers
  /\ UNCHANGED <<vars, late, workerVars>>

(* Then ask for the job: a failed or cancelled one ends the wait, any      *)
(* other is asked for again after a while.                                 *)
PollStatus(w) ==
  /\ at[w] = "status"
  /\ Goes(w, IF store.s \in {"failed", "cancelled"} THEN "refused" ELSE "poll")
  /\ UNCHANGED <<vars, late, answers, workerVars>>

(* Bug: the loop does not look at its deadline. *)
GiveUp_Never(w) == FALSE /\ UNCHANGED resultVars

GiveUp(w) ==
  /\ at[w] = "poll" /\ w \in late
  /\ Goes(w, "timedOut")
  /\ UNCHANGED <<vars, late, answers, workerVars>>

(* The clock. *)
Deadline(w) ==
  /\ at[w] \in {"poll", "status"} /\ w \notin late
  /\ late' = late \cup {w}
  /\ UNCHANGED <<vars, at, answers, workerVars>>

-----------------------------------------------------------------------------
(* hasResult and then getResult; getJobInfo *)

Has(r) ==
  /\ at[r] = "new" /\ r \in Reader
  /\ HasResult
  /\ Goes(r, "known")
  /\ UNCHANGED <<vars, late, answers, workerVars>>

Get(r) ==
  /\ at[r] = "known"
  /\ Goes(r, "returned")
  /\ Answers(r, GetResultJob)
  /\ UNCHANGED <<vars, late, workerVars>>

(* getWorkflowJobInfo: completed and completing jobs show their result.    *)
JobInfoResult(d) ==
  IF d.s \in {"completed", "completing"} THEN d.r ELSE Undefined

GetJobInfo(i) ==
  /\ at[i] = "new" /\ i \in Watcher
  /\ JobInfoResult(store) # Undefined
  /\ Goes(i, "returned")
  /\ Answers(i, JobInfoResult(store))
  /\ UNCHANGED <<vars, late, workerVars>>

-----------------------------------------------------------------------------
(* The result worker *)

(* Bug: every message is taken for a completion. *)
Decode_Completed(job) == [job EXCEPT !.status = "completed"]

(* decodeWorkflowResultJob *)
Decode(job) == job

TakeResult ==
  /\ HasResult /\ delivery = "waiting"
  /\ delivery' = "active"
  /\ UNCHANGED <<vars, clientVars, handled, redelivered>>

(* createWorkflowResultProcessor: the handler gets the decoded message.    *)
Handle ==
  /\ delivery = "active"
  /\ delivery' = "handled"
  /\ handled' = Append(handled, Decode(resultQ))
  /\ UNCHANGED <<vars, clientVars, redelivered>>

Acknowledge ==
  /\ delivery = "handled"
  /\ delivery' = "done"
  /\ UNCHANGED <<vars, clientVars, handled, redelivered>>

(* Bug: the job of a lost worker is dropped. *)
LoseWorker_Drops ==
  /\ delivery \in {"active", "handled"}
  /\ redelivered < MaxRedelivered
  /\ redelivered' = redelivered + 1
  /\ delivery' = "done"
  /\ UNCHANGED <<vars, clientVars, handled>>

(* The worker dies or its handler throws: BullMQ delivers the job again,   *)
(* also when the handler had taken the message.                            *)
LoseWorker ==
  /\ delivery \in {"active", "handled"}
  /\ redelivered < MaxRedelivered
  /\ redelivered' = redelivered + 1
  /\ delivery' = "waiting"
  /\ UNCHANGED <<vars, clientVars, handled>>

-----------------------------------------------------------------------------
WaitStep(w) == PollResult(w) \/ PollStatus(w) \/ GiveUp(w)

ResultWorker == TakeResult \/ Handle \/ Acknowledge

EngineStep == (Run \/ Cancel \/ Worker \/ Crash) /\ UNCHANGED <<clientVars, workerVars>>

ResultEnded ==
  /\ Ended
  /\ HasResult => delivery = "done"
  /\ \A w \in Waiter : at[w] \notin {"poll", "status"}
  /\ UNCHANGED resultVars

ResultNext ==
  \/ EngineStep
  \/ \E w \in Waiter : CallWait(w) \/ WaitStep(w) \/ Deadline(w)
  \/ \E c \in Client : Has(c) \/ Get(c) \/ GetJobInfo(c)
  \/ ResultWorker
  \/ LoseWorker
  \/ ResultEnded

(* The engine's fairness; besides, a wait that began goes on, time passes  *)
(* and the result worker runs.                                             *)
ResultSpec ==
  /\ ResultInit /\ [][ResultNext]_resultVars
  /\ WF_resultVars(Worker /\ UNCHANGED <<clientVars, workerVars>>)
  /\ WF_resultVars(Run /\ UNCHANGED <<clientVars, workerVars>>)
  /\ \A w \in Waiter : WF_resultVars(WaitStep(w)) /\ WF_resultVars(Deadline(w))
  /\ WF_resultVars(ResultWorker)

-----------------------------------------------------------------------------
(* Properties *)

Got(c) == at[c] = "returned" /\ answers[c].result # Undefined

(* However they ask - the result queue, in one call or polled, or the job  *)
(* itself - and whenever, over crashes, a result that is published before  *)
(* the job is completed, and reruns of the completed job, all clients and  *)
(* the result worker get the same result.                                  *)
AnswersAgree ==
  \A c \in Client : Got(c) =>
    /\ \A e \in Client : Got(e) => answers[e].result = answers[c].result
    /\ \A i \in DOMAIN handled :
         handled[i].status = "completed" => handled[i].result = answers[c].result

(* A client acts on a result while the job may still be on its way to      *)
(* "completed": every step result that went into it is in Redis by then,   *)
(* and stays there.                                                        *)
AnswersAreDurable ==
  \A c \in Client : Got(c) =>
    \A n \in DOMAIN answers[c].result :
      \/ answers[c].result[n] = Caught
      \/ \E k \in Key : k.path = <<n - 1>> /\ Keeps(store, k, answers[c].result[n])

(* The handler may see a result more than once, but each time the same,    *)
(* and it is told of a completion only when there is a result.             *)
RedeliveriesAgree ==
  /\ \A i, j \in DOMAIN handled : handled[i] = handled[j]
  /\ \A i \in DOMAIN handled :
       handled[i].status = "completed" <=> handled[i].result # Undefined

(* waitForResult returns, throws what became of the job, or times out: it  *)
(* does not poll for ever, whatever happens to the job.                    *)
WaitsEnd ==
  \A w \in Waiter :
    at[w] = "poll" ~> at[w] \in {"returned", "refused", "timedOut"}

(* A published result reaches the handler, although its worker may die     *)
(* with the job in hand.                                                   *)
ResultsAreHandled == HasResult ~> handled # <<>>
=============================================================================
