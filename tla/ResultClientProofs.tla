------------------------- MODULE ResultClientProofs -------------------------
(***************************************************************************)
(* Proofs about the clients that read the result of a job.  Whatever the   *)
(* clients do, the engine only takes its own steps, so that everything     *)
(* proved of DozerEngine holds here; on top of that come invariants about  *)
(* what the clients and the result worker were told.                       *)
(***************************************************************************)
EXTENDS ResultClient, DozerEngineProofs

Told == [status : {"none", "completed", "failed"},
         result : Seq(Observation) \cup {Undefined}]

ClientType ==
  /\ answers \in [Client -> Answer]
  /\ handled \in Seq(Told)
  /\ delivery \in {"waiting", "active", "handled", "done"}

(* What is proved of the engine alone.                                     *)
EngineInv == IInv /\ ReplayInv /\ ResultInv

(* Whatever a client was told replays from Redis.                          *)
AnswersKept == \A c \in Client : ResultKept(store, answers[c].result)

(* The handler is told of the one result job.                              *)
HandledInv ==
  /\ delivery # "waiting" => HasResult
  /\ handled # <<>> => HasResult
  /\ \A i \in DOMAIN handled : handled[i] = resultQ

(* In a deterministic workflow the clients are told of a whole result.     *)
AnswersExact == \A c \in Client : ExactResult(answers[c].result)

-----------------------------------------------------------------------------
(* The engine beside its clients *)

LEMMA EngineSteps == [ResultNext]_resultVars => [Next]_vars
BY DEF ResultNext, resultVars, EngineStep, CallWait, WaitStep, PollResult, PollStatus, GiveUp,
   Deadline, Has, Get, GetJobInfo, ResultWorker, TakeResult, Handle, Acknowledge, LoseWorker,
   ResultEnded, Next, Ended

LEMMA EngineInvariant == ResultSpec => []EngineInv
<1>1. ResultInit => EngineInv
  <2>1. Init => IInv
    BY InitInv
  <2>. QED
    BY <2>1 DEF ResultInit, EngineInv, Init, ReplayInv, ResultInv, ResultKept, InitialState,
       NoResultJob
<1>2. EngineInv /\ [ResultNext]_resultVars => EngineInv'
  BY EngineSteps, NextInv, NextReplays, NextResults DEF EngineInv
<1>. QED
  BY <1>1, <1>2, PTL DEF ResultSpec

(* A step tells at most one client, and tells it what Redis holds.         *)
LEMMA AnswersComeFromRedis ==
  ASSUME ClientType, [ResultNext]_resultVars
  PROVE  \A c \in Client :
           \/ answers'[c] = answers[c]
           \/ answers'[c].result \in {resultQ.result, store.r, Undefined}
<1>1. ASSUME NEW e \in Client, NEW r, Answers(e, r), r \in {resultQ.result, store.r, Undefined}
      PROVE  \A c \in Client : \/ answers'[c] = answers[c]
                               \/ answers'[c].result \in {resultQ.result, store.r, Undefined}
  BY <1>1 DEF Answers, ClientType
<1>2. ASSUME NEW w \in Waiter, PollResult(w)
      PROVE  answers' = answers \/ Answers(w, resultQ.result)
  BY <1>2 DEF PollResult, GetResultJob
<1>3. ASSUME NEW c \in Client, Get(c)
      PROVE  Answers(c, resultQ.result)
  BY <1>3 DEF Get, GetResultJob
<1>4. ASSUME NEW c \in Client, GetJobInfo(c)
      PROVE  Answers(c, store.r) \/ Answers(c, Undefined)
  BY <1>4 DEF GetJobInfo, JobInfoResult
<1>5. CASE \E w \in Waiter : PollResult(w)
  BY <1>1, <1>2, <1>5 DEF Client
<1>6. CASE \E c \in Client : Get(c) \/ GetJobInfo(c)
  BY <1>1, <1>3, <1>4, <1>6
<1>7. CASE answers' = answers
  BY <1>7
<1>. QED
  BY <1>5, <1>6, <1>7 DEF ResultNext, resultVars, clientVars, EngineStep, CallWait, WaitStep,
     PollStatus, GiveUp, Deadline, Has, ResultWorker, TakeResult, Handle, Acknowledge, LoseWorker,
     ResultEnded

LEMMA ClientTypeCorrect == ResultSpec => []ClientType
<1>1. ResultInit => ClientType
  BY DEF ResultInit, ClientType, Answer, NoAnswer
<1>2. ClientType /\ EngineInv /\ [ResultNext]_resultVars => ClientType'
  <2>. SUFFICES ASSUME ClientType, EngineInv, [ResultNext]_resultVars
                PROVE  ClientType'
    OBVIOUS
  <2>1. resultQ \in Told /\ store.r \in Seq(Observation) \cup {Undefined}
    BY DEF EngineInv, IInv, ControlType, StateInv, State, Told
  <2>2. ASSUME NEW c \in Client, NEW r \in Seq(Observation) \cup {Undefined}, Answers(c, r)
        PROVE  answers' \in [Client -> Answer]
    BY <2>2 DEF Answers, ClientType, Answer
  <2>3. resultQ.result \in Seq(Observation) \cup {Undefined}
    BY <2>1 DEF Told
  <2>4. ASSUME NEW w \in Waiter, PollResult(w)
        PROVE  answers' \in [Client -> Answer]
    BY <2>2, <2>3, <2>4 DEF PollResult, GetResultJob, Client, ClientType
  <2>5. ASSUME NEW c \in Client, Get(c) \/ GetJobInfo(c)
        PROVE  answers' \in [Client -> Answer]
    BY <2>1, <2>2, <2>3, <2>5 DEF Get, GetResultJob, GetJobInfo, JobInfoResult
  <2>6. answers' \in [Client -> Answer]
    BY <2>4, <2>5 DEF ResultNext, resultVars, clientVars, EngineStep, CallWait, WaitStep,
       PollStatus, GiveUp, Deadline, Has, ResultWorker, TakeResult, Handle, Acknowledge,
       LoseWorker, ResultEnded, ClientType
  <2>7. CASE ResultWorker \/ LoseWorker
    BY <2>1, <2>6, <2>7 DEF ResultWorker, TakeResult, Handle, Acknowledge, LoseWorker, Decode,
       ClientType
  <2>8. CASE handled' = handled /\ delivery' = delivery
    BY <2>6, <2>8 DEF ClientType
  <2>. QED
    BY <2>7, <2>8 DEF ResultNext, resultVars, workerVars, EngineStep, CallWait, WaitStep,
       PollResult, PollStatus, GiveUp, Deadline, Has, Get, GetJobInfo, ResultEnded
<1>. QED
  BY <1>1, <1>2, EngineInvariant, PTL DEF ResultSpec

-----------------------------------------------------------------------------
(* Answers are durable *)

LEMMA AnswersKeptInvariant == ResultSpec => []AnswersKept
<1>1. ResultInit => AnswersKept
  BY DEF ResultInit, AnswersKept, ResultKept, NoAnswer
<1>2. ClientType /\ EngineInv /\ EngineInv' /\ AnswersKept /\ [ResultNext]_resultVars
        => AnswersKept'
  <2>. SUFFICES ASSUME ClientType, EngineInv, EngineInv', AnswersKept, [ResultNext]_resultVars,
                       NEW c \in Client
                PROVE  ResultKept(store', answers'[c].result)
    BY DEF AnswersKept
  <2>1. Preserves(store, store')
    BY EngineSteps, NextInv DEF EngineInv
  <2>2. ASSUME NEW r \in {resultQ.result, store.r, Undefined, answers[c].result}
        PROVE  ResultKept(store', r)
    <3>1. r \in Seq(Observation) \cup {Undefined}
      BY DEF EngineInv, IInv, ControlType, StateInv, State, ClientType, Answer
    <3>2. ResultKept(store, r)
      <4>1. ResultKept(store, Undefined)
        BY DEF ResultKept
      <4>. QED
        BY <4>1 DEF EngineInv, ResultInv, AnswersKept
    <3>. QED
      BY <2>1, <3>1, <3>2, ResultsStay
  <2>3. \/ answers'[c] = answers[c]
        \/ answers'[c].result \in {resultQ.result, store.r, Undefined}
    BY AnswersComeFromRedis
  <2>4. answers'[c].result \in {resultQ.result, store.r, Undefined, answers[c].result}
    BY <2>3
  <2>. QED
    BY <2>2, <2>4
<1>. QED
  BY <1>1, <1>2, ClientTypeCorrect, EngineInvariant, PTL DEF ResultSpec

(* A client acts on a result while the job may still be on its way to      *)
(* "completed": every step result that went into it is in Redis by then,   *)
(* and no crash, rerun or failure removes it.                              *)
THEOREM AnswersStayDurable == ResultSpec => []AnswersAreDurable
<1>1. ClientType /\ AnswersKept => AnswersAreDurable
  <2>. SUFFICES ASSUME ClientType, AnswersKept, NEW c \in Client, Got(c),
                       NEW n \in DOMAIN answers[c].result, answers[c].result[n] # Caught
                PROVE  \E k \in Key : k.path = <<n - 1>> /\ Keeps(store, k, answers[c].result[n])
    BY DEF AnswersAreDurable
  <2>1. answers[c].result \in Seq(Observation) /\ answers[c].result # Undefined
    BY DEF Got, ClientType, Answer
  <2>2. n \in 1 .. Len(answers[c].result)
    BY <2>1
  <2>. QED
    BY <2>1, <2>2 DEF AnswersKept, ResultKept
<1>. QED
  BY <1>1, ClientTypeCorrect, AnswersKeptInvariant, PTL

-----------------------------------------------------------------------------
(* What the handler is told *)

(* The rest of what is proved of the engine.                               *)
OutcomeInv == RunStatus /\ ResultStatus

LEMMA OutcomeInvariant ==
  ASSUME ResultsSerialize
  PROVE  ResultSpec => []OutcomeInv
<1>1. ResultInit => OutcomeInv
  BY DEF ResultInit, OutcomeInv, Init, RunStatus, ResultStatus, InitialState, NoResultJob
<1>2. EngineInv /\ EngineInv' /\ OutcomeInv /\ [ResultNext]_resultVars => OutcomeInv'
  BY EngineSteps, NextRunStatus, NextResultStatus DEF EngineInv, OutcomeInv
<1>. QED
  BY <1>1, <1>2, EngineInvariant, PTL DEF ResultSpec

LEMMA HandledInvariant == ResultSpec => []HandledInv
<1>1. ResultInit => HandledInv
  BY DEF ResultInit, HandledInv
<1>2. ClientType /\ HandledInv /\ [ResultNext]_resultVars => HandledInv'
  <2>. SUFFICES ASSUME ClientType, HandledInv, [ResultNext]_resultVars
                PROVE  HandledInv'
    OBVIOUS
  <2>1. HasResult => HasResult' /\ resultQ' = resultQ
    BY EngineSteps, StepPublishes DEF HasResult
  <2>2. CASE handled' = handled
    <3>1. delivery' # "waiting" => delivery # "waiting" \/ HasResult'
      BY <2>1 DEF ResultNext, resultVars, workerVars, EngineStep, CallWait, WaitStep,
         PollResult, PollStatus, GiveUp, Deadline, Has, Get, GetJobInfo, ResultWorker, TakeResult,
         Handle, Acknowledge, LoseWorker, ResultEnded
    <3>2. DOMAIN handled = 1 .. Len(handled) /\ (DOMAIN handled # {} => handled # <<>>)
      BY DEF ClientType
    <3>. QED
      BY <2>1, <2>2, <3>1, <3>2 DEF HandledInv
  <2>3. CASE Handle
    <3>1. /\ handled' = Append(handled, resultQ) /\ resultQ' = resultQ /\ HasResult
          /\ HasResult'
      BY <2>1, <2>3 DEF Handle, Decode, HandledInv
    <3>2. handled' # <<>> /\ \A i \in DOMAIN handled' : handled'[i] = resultQ
      BY <3>1 DEF HandledInv, ClientType
    <3>. QED
      BY <3>1, <3>2 DEF HandledInv
  <2>. QED
    BY <2>2, <2>3 DEF ResultNext, resultVars, workerVars, EngineStep, CallWait, WaitStep,
       PollResult, PollStatus, GiveUp, Deadline, Has, Get, GetJobInfo, ResultWorker, TakeResult,
       Acknowledge, LoseWorker, ResultEnded
<1>. QED
  BY <1>1, <1>2, ClientTypeCorrect, PTL DEF ResultSpec

(* The handler may be told of a result more than once, but each time of    *)
(* the same, and of a completion only when there is a result: the result   *)
(* job is written once, whatever reruns and failures follow.               *)
THEOREM RedeliveriesCarryOneResult ==
  ASSUME ResultsSerialize
  PROVE  ResultSpec => []RedeliveriesAgree
<1>1. ClientType /\ EngineInv /\ HandledInv /\ OutcomeInv => RedeliveriesAgree
  <2>. SUFFICES ASSUME ClientType, EngineInv, HandledInv, OutcomeInv
                PROVE  RedeliveriesAgree
    OBVIOUS
  <2>1. \A i \in DOMAIN handled : handled[i] = resultQ /\ HasResult
    BY DEF HandledInv, ClientType
  <2>2. HasResult => (resultQ.status = "completed" <=> resultQ.result # Undefined)
    <3>1. resultQ.status \in {"none", "completed", "failed"}
      BY DEF EngineInv, IInv, ControlType
    <3>. QED
      BY <3>1 DEF OutcomeInv, ResultStatus, HasResult
  <2>. QED
    BY <2>1, <2>2 DEF RedeliveriesAgree
<1>. QED
  BY <1>1, ClientTypeCorrect, EngineInvariant, HandledInvariant, OutcomeInvariant, PTL

-----------------------------------------------------------------------------
(* Clients agree *)

(* However they ask and whenever, over crashes, a result that is published *)
(* before its job is completed and reruns of the completed job: all        *)
(* clients and the result worker of a deterministic workflow get the same  *)
(* result.                                                                 *)
THEOREM ClientsAgree ==
  ASSUME OneResult, ResultsSerialize
  PROVE  ResultSpec => []AnswersAgree
<1>. DEFINE E == EngineInv /\ OutcomeInv /\ ExactInv
            C == ClientType /\ HandledInv /\ AnswersKept /\ AnswersExact
<1>1. ResultInit => ExactInv /\ AnswersExact
  BY DEF ResultInit, ExactInv, AnswersExact, ExactResult, Init, InitialState, NoResultJob, NoAnswer
<1>2. EngineInv /\ EngineInv' /\ ExactInv /\ [ResultNext]_resultVars => ExactInv'
  BY EngineSteps, NextExact DEF EngineInv
<1>3. ClientType /\ ExactInv /\ AnswersExact /\ [ResultNext]_resultVars => AnswersExact'
  <2>. SUFFICES ASSUME ClientType, ExactInv, AnswersExact, [ResultNext]_resultVars,
                       NEW c \in Client
                PROVE  ExactResult(answers'[c].result)
    BY DEF AnswersExact
  <2>1. ASSUME NEW r \in {resultQ.result, store.r, Undefined, answers[c].result}
        PROVE  ExactResult(r)
    BY DEF ExactInv, AnswersExact, ExactResult
  <2>2. \/ answers'[c] = answers[c]
        \/ answers'[c].result \in {resultQ.result, store.r, Undefined}
    BY AnswersComeFromRedis
  <2>3. answers'[c].result \in {resultQ.result, store.r, Undefined, answers[c].result}
    BY <2>2
  <2>. QED
    BY <2>1, <2>3
<1>4. E /\ C => AnswersAgree
  <2>. SUFFICES ASSUME E, C, NEW c \in Client, Got(c)
                PROVE  /\ \A e \in Client : Got(e) => answers[e].result = answers[c].result
                       /\ \A i \in DOMAIN handled : handled[i].status = "completed"
                            => handled[i].result = answers[c].result
    BY DEF AnswersAgree
  <2>1. ASSUME NEW e \in Client, Got(e)
        PROVE  /\ answers[e].result \in Seq(Observation)
               /\ ResultKept(store, answers[e].result) /\ ExactResult(answers[e].result)
    BY <2>1 DEF Got, ClientType, Answer, AnswersKept, AnswersExact
  <2>2. ASSUME NEW e \in Client, Got(e)
        PROVE  answers[e].result = answers[c].result
    BY <2>1, <2>2, SameResult
  <2>3. ASSUME NEW i \in DOMAIN handled, handled[i].status = "completed"
        PROVE  handled[i].result = answers[c].result
    <3>1. handled[i] = resultQ /\ resultQ.result # Undefined
      BY <2>3 DEF HandledInv, OutcomeInv, ResultStatus
    <3>2. /\ resultQ.result \in Seq(Observation)
          /\ ResultKept(store, resultQ.result) /\ ExactResult(resultQ.result)
      BY <3>1 DEF EngineInv, IInv, ControlType, ResultInv, ExactInv
    <3>3. resultQ.result = answers[c].result
      BY <2>1, <3>2, SameResult
    <3>. QED
      BY <3>1, <3>3
  <2>. QED
    BY <2>2, <2>3
<1>. QED
  BY <1>1, <1>2, <1>3, <1>4, EngineInvariant, OutcomeInvariant, ClientTypeCorrect,
     HandledInvariant, AnswersKeptInvariant, PTL DEF ResultSpec
=============================================================================
