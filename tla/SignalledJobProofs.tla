------------------------- MODULE SignalledJobProofs -------------------------
(***************************************************************************)
(* Of a job that waits for signals while clients write to its state: every *)
(* variable has its type, a running worker keeps what it has decided,      *)
(* whatever clients write, and whenever, and however often it crashes, and *)
(* waits are answered by clients or by their deadlines only.               *)
(*                                                                         *)
(* A client puts a whole old state back into Redis, so that the worker's   *)
(* copy is not ahead of Redis as it is in the engine alone (StateInv).     *)
(* What is left is RunInv, and what the states of Redis, of the worker and *)
(* of the clients say of pending signals.                                  *)
(*                                                                         *)
(* While calls and runs keep apart, a client writes to the state it has    *)
(* read (CallsApart), and the job is a durable execution again: what       *)
(* DozerEngineProofs says of a step of the engine holds beside such        *)
(* clients.                                                                *)
(***************************************************************************)
EXTENDS SignalledJob, DozerEngineProofs

(* The entry of a signal is that of a wait for it, and has a deadline only *)
(* if the wait is a timed one.                                             *)
EntriesOfWaits(d) ==
  \A n \in Signal : d.ps[n] # Absent =>
    /\ d.ps[n].k \in Wait /\ d.ps[n].k.name = n
    /\ d.ps[n].e => d.ps[n].k \in Timed

SoundState(d) == d \in State /\ WithinBudget(d) /\ EntriesOfWaits(d)

(* The frames around the one on top of a wait: its own key may have a      *)
(* result already, between the two writes of a wait that timed out.        *)
Deciding(fs) == IF Last(fs).key \in Wait THEN Len(fs) - 1 ELSE Len(fs)

WaitFramesInv ==
  /\ pc \in {"body", "catch"} => Stack(frames)
  /\ pc = "body" => Fresh(mem, frames, Deciding(frames))
  /\ pc = "catch" => Len(frames) >= 2 /\ Fresh(mem, frames, Len(frames) - 1)

CallsInv ==
  /\ calls \in [Call -> CallState]
  /\ \A c \in Call :
       /\ SoundState(calls[c].snap)
       /\ calls[c].at = "read" /\ c.op = "signal" => calls[c].snap.ps[c.n] # Absent

ParkingInv ==
  /\ held \in BOOLEAN
  /\ until \in Timed \cup {Timer}
  /\ expired \subseteq Timed /\ lapsed \subseteq Timed

SInv ==
  /\ SoundState(store) /\ SoundState(mem)
  /\ ControlType
  /\ WaitFramesInv
  /\ CallsInv
  /\ ParkingInv

-----------------------------------------------------------------------------
(* The operations on the state *)

(* A wait that is registered has its deadline in the entry.                *)
LEMMA RegistrationKeeps ==
  ASSUME NEW d, SoundState(d), NEW k \in Wait
  PROVE  LET f == SavePendingSignal(d, k.name, k, k \in Timed) IN
         /\ SoundState(f)
         /\ f.c = d.c /\ f.u = d.u
         /\ f.ps[k.name].k = k /\ (f.ps[k.name].e <=> k \in Timed)
<1>. DEFINE b == k \in Timed
            p == [k |-> k, e |-> b]
            f == SavePendingSignal(d, k.name, k, b)
<1>1. k \in Key /\ k.name \in Signal
  BY SignalAssumption
<1>2. b \in BOOLEAN
  OBVIOUS
<1>3. p \in Pending /\ p.k = k /\ (p.e <=> k \in Timed)
  <2>1. p.e = b
    OBVIOUS
  <2>2. p.e <=> k \in Timed
    BY <2>1
  <2>. HIDE DEF b
  <2>. QED
    BY <1>1, <1>2, <2>2 DEF Pending
<1>4. /\ f.a = d.a /\ f.c = d.c /\ f.u = d.u
      /\ f.ps = [d.ps EXCEPT ![k.name] = p]
      /\ f = [d EXCEPT !.ps = [d.ps EXCEPT ![k.name] = p]]
  <2>. HIDE DEF b
  <2>. QED
    BY DEF SoundState, State, SavePendingSignal
<1>. HIDE DEF p, f
<1>5. f \in State
  BY <1>1, <1>3, <1>4 DEF SoundState, State
<1>6. \A n \in Signal : f.ps[n] = IF n = k.name THEN p ELSE d.ps[n]
  BY <1>4 DEF SoundState, State
<1>7. EntriesOfWaits(f)
  BY <1>1, <1>3, <1>6 DEF EntriesOfWaits, SoundState
<1>8. SoundState(f)
  BY <1>4, <1>5, <1>7 DEF SoundState, WithinBudget
<1>9. f.c = d.c /\ f.u = d.u /\ f.ps[k.name].k = k /\ (f.ps[k.name].e <=> k \in Timed)
  BY <1>1, <1>3, <1>4, <1>6
<1>. QED
  BY <1>8, <1>9 DEF f

(* An entry that is cleared has no deadline.                               *)
LEMMA ClearanceKeeps ==
  ASSUME NEW d, SoundState(d), NEW n \in Signal
  PROVE  LET f == ClearPendingSignal(d, n) IN
         SoundState(f) /\ f.c = d.c /\ f.u = d.u
<1>. DEFINE f == ClearPendingSignal(d, n)
<1>1. /\ f \in State /\ f.a = d.a /\ f.c = d.c /\ f.u = d.u
      /\ f.ps = [d.ps EXCEPT ![n] = Absent]
  BY DEF SoundState, State, ClearPendingSignal
<1>2. \A m \in Signal : f.ps[m] = IF m = n THEN Absent ELSE d.ps[m]
  BY <1>1 DEF SoundState, State
<1>. HIDE DEF f
<1>3. EntriesOfWaits(f)
  BY <1>2 DEF EntriesOfWaits, SoundState
<1>. QED
  BY <1>1, <1>3 DEF SoundState, WithinBudget, f

(* The result of a step leaves the pending signals alone.                  *)
LEMMA ResultKeeps ==
  ASSUME NEW d, SoundState(d), NEW k \in Key, NEW v \in Value \cup {Undefined}
  PROVE  SoundState(SaveStepResult(d, k, v))
<1>1. SaveStepResult(d, k, v) \in State /\ SaveStepResult(d, k, v).ps = d.ps
  BY CacheOpsType, PendingStays DEF SoundState
<1>2. WithinBudget(SaveStepResult(d, k, v))
  BY SaveKeepsBudget DEF SoundState
<1>. QED
  BY <1>1, <1>2 DEF SoundState, EntriesOfWaits

(* What a client writes: a copy it read, cancelled or with its signal.     *)
LEMMA WrittenKeeps ==
  ASSUME CallsInv, NEW c \in Call, calls[c].at = "read"
  PROVE  SoundState(Written(c))
<1>. DEFINE d == calls[c].snap
<1>1. SoundState(d)
  BY DEF CallsInv
<1>2. CASE c.op = "cancel"
  <2>1. MarkCancelled(d).ps = d.ps
    BY <1>1, PendingStays DEF SoundState
  <2>2. SoundState(MarkCancelled(d))
    BY <1>1, <2>1, MarkCancelledKeeps DEF SoundState, EntriesOfWaits
  <2>. QED
    BY <1>2, <2>2 DEF Written
<1>3. CASE c.op # "cancel"
  <2>1. c.op = "signal" /\ c.n \in Signal /\ c.v \in Value
    BY <1>3, SignalAssumption
  <2>2. d.ps[c.n].k \in Key
    <3>1. d.ps[c.n] # Absent
      BY <2>1 DEF CallsInv
    <3>. QED
      BY <1>1, <2>1, <3>1 DEF SoundState, State, Pending
  <2>3. SoundState(SaveStepResult(d, d.ps[c.n].k, c.v))
    BY <1>1, <2>1, <2>2, ResultKeeps
  <2>4. SoundState(DeliverSignal(d, c.n, c.v))
    BY <2>1, <2>3, ClearanceKeeps DEF DeliverSignal
  <2>. QED
    BY <1>3, <2>4 DEF Written
<1>. QED
  BY <1>2, <1>3

-----------------------------------------------------------------------------
(* Frames of waits *)

(* A stack without results around its top is more than a wait asks for.    *)
LEMMA FreshDeciding ==
  ASSUME NEW d, NEW fs \in Seq(Frame), Fresh(d, fs, Len(fs))
  PROVE  Fresh(d, fs, Deciding(fs))
<1>1. Len(fs) \in Nat
  OBVIOUS
<1>2. 2 .. Len(fs) - 1 \subseteq 2 .. Len(fs)
  BY <1>1
<1>. QED
  BY <1>2 DEF Fresh, Deciding

(* A wait is called by a body, whose frame is below that of the wait.      *)
LEMMA WaitOnTop ==
  ASSUME SInv, Waiting
  PROVE  /\ frames \in Seq(Frame) /\ Stack(frames)
         /\ Len(frames) \in Nat /\ Len(frames) >= 2
         /\ Top.key \in Wait /\ Top.key \in Key /\ Top.key.name \in Signal
         /\ Top = frames[Len(frames)]
         /\ Fresh(mem, frames, Len(frames) - 1)
         /\ Front(frames) \in Seq(Frame) /\ Stack(Front(frames))
         /\ Len(Front(frames)) = Len(frames) - 1
         /\ \A i \in 1 .. Len(frames) - 1 : Front(frames)[i] = frames[i]
<1>1. frames \in Seq(Frame) /\ Stack(frames) /\ pc = "body" /\ Top.key \in Wait
  BY DEF SInv, ControlType, WaitFramesInv, Waiting
<1>2. Top.key \in Key /\ Top.key.name \in Signal
  BY <1>1, SignalAssumption
<1>3. Len(frames) \in Nat /\ Len(frames) >= 1 /\ Top = frames[Len(frames)]
  BY <1>1, FrameOfStack DEF Top
<1>4. Len(frames) # 1
  BY <1>1, <1>2, <1>3, EngineAssumption DEF Stack
<1>5. Len(frames) >= 2
  BY <1>3, <1>4
<1>6. Fresh(mem, frames, Len(frames) - 1)
  BY <1>1 DEF SInv, WaitFramesInv, Deciding, Top
<1>. QED
  BY <1>1, <1>2, <1>3, <1>5, <1>6, FrontStack

(* What the frames around a wait ask of the state that the wait writes.    *)
LEMMA FreshAround ==
  ASSUME SInv, Waiting, NEW d,
         \A j \in Key : j # Top.key /\ Cached(d, j) => Cached(mem, j)
  PROVE  /\ Fresh(d, frames, Len(frames) - 1)
         /\ Fresh(d, Front(frames), Len(Front(frames)))
<1>1. /\ Stack(frames) /\ Len(frames) \in Nat /\ Top = frames[Len(frames)]
      /\ Fresh(mem, frames, Len(frames) - 1) /\ Top.key \in Key
      /\ Len(Front(frames)) = Len(frames) - 1
      /\ \A i \in 1 .. Len(frames) - 1 : Front(frames)[i] = frames[i]
  BY WaitOnTop
<1>2. ASSUME NEW i \in 2 .. Len(frames) - 1
      PROVE  ~Cached(d, frames[i].key) /\ Front(frames)[i] = frames[i]
  <2>1. i \in 2 .. Len(frames) /\ i \in 1 .. Len(frames) - 1 /\ Len(frames) \in 1 .. Len(frames)
    BY <1>1
  <2>2. frames[i].key \in Key /\ Below(frames[i].key.path, Top.key.path)
    BY <1>1, <2>1 DEF Stack
  <2>3. frames[i].key # Top.key
    BY <1>1, <2>2, NotBelowItself
  <2>4. ~Cached(mem, frames[i].key)
    BY <1>1 DEF Fresh
  <2>. QED
    BY <1>1, <2>1, <2>2, <2>3, <2>4
<1>. QED
  BY <1>1, <1>2 DEF Fresh

(* The error of a wait, a request to park the job among them, reaches the  *)
(* body that called it.                                                    *)
LEMMA WaitThrows ==
  ASSUME SInv, Waiting, NEW kind \in ErrorKind, Deliver(Front(frames), kind),
         Fresh(mem', Front(frames), Len(Front(frames)))
  PROVE  /\ frames' \in Seq(Frame) /\ pc' \in PC /\ err' \in ErrorKind \cup {"none"}
         /\ FramesInv' /\ WaitFramesInv'
<1>1. Front(frames) \in Seq(Frame) /\ Stack(Front(frames))
  BY WaitOnTop
<1>2. /\ frames' \in Seq(Frame) /\ pc' \in {"body", "catch", "caught"}
      /\ err' \in ErrorKind \cup {"none"} /\ FramesInv'
  BY <1>1, DeliverEffect
<1>3. pc' = "body" => Fresh(mem', frames', Deciding(frames'))
  BY <1>2, FreshDeciding DEF FramesInv
<1>. QED
  BY <1>2, <1>3 DEF FramesInv, WaitFramesInv, PC

-----------------------------------------------------------------------------
(* The steps of a wait *)

(* What a step of a wait leaves alone, and what is left to show of it.     *)
LEMMA WaitKeeps ==
  ASSUME SInv,
         UNCHANGED <<resultQ, cursor, probing, failures, outcome, held, lapsed, calls>>,
         SoundState(store'), SoundState(mem'), spent' \in [Bounded -> Nat],
         frames' \in Seq(Frame), pc' \in PC, err' \in ErrorKind \cup {"none"}, WaitFramesInv',
         until' \in Timed \cup {Timer}, expired' \subseteq expired
  PROVE  SInv'
<1>1. ControlType'
  BY DEF SInv, ControlType
<1>2. CallsInv'
  BY DEF SInv, CallsInv
<1>3. ParkingInv'
  BY DEF SInv, ParkingInv
<1>. QED
  BY <1>1, <1>2, <1>3 DEF SInv

(* The deadline that a parked job is held for is that of a timed wait.     *)
LEMMA RequestsTimed ==
  ASSUME NEW d, SoundState(d), NEW n \in Signal, d.ps[n] # Absent, RequestWait(d.ps[n])
  PROVE  Deliver(Front(frames), "sleep") /\ until' \in Timed \cup {Timer}
  BY DEF SoundState, EntriesOfWaits, RequestWait

(* The first time, a wait only adds its entry.                             *)
LEMMA RegisterStep ==
  ASSUME SInv, RegisterWait
  PROVE  SInv' /\ FramesInv' /\ Preserves(mem, mem')
<1>. DEFINE k == Top.key
            d == SavePendingSignal(mem, k.name, k, k \in Timed)
<1>1. Waiting /\ k \in Wait /\ k.name \in Signal
  BY WaitOnTop DEF RegisterWait
<1>2. /\ SoundState(d) /\ d.c = mem.c /\ d.u = mem.u
      /\ d.ps[k.name].k = k /\ (d.ps[k.name].e <=> k \in Timed)
  BY <1>1, RegistrationKeeps DEF SInv
<1>3. Preserves(mem, d) /\ \A j \in Key : Cached(d, j) => Cached(mem, j)
  BY <1>2, SameCache
<1>4. /\ FlushOk(d, TRUE) \/ FlushFails(d, TRUE)
      /\ UNCHANGED <<resultQ, cursor, probing, failures, outcome, held, lapsed, calls>>
      /\ expired' \subseteq expired
  BY DEF RegisterWait
<1>5. \/ Deliver(Front(frames), "sleep") /\ until' = (IF k \in Timed THEN k ELSE Timer)
      \/ Deliver(Front(frames), "error") /\ until' = Timer
  <2>1. RequestWait(d.ps[k.name]) \/ WaitFails
    BY DEF RegisterWait
  <2>2. RequestWait(d.ps[k.name]) =>
          Deliver(Front(frames), "sleep") /\ until' = IF k \in Timed THEN k ELSE Timer
    <3>. HIDE DEF d
    <3>. QED
      BY <1>2 DEF RequestWait
  <2>. QED
    BY <2>1, <2>2 DEF WaitFails
<1>. HIDE DEF k, d
<1>6. mem' = d /\ store' \in {store, d} /\ spent' \in [Bounded -> Nat]
  BY <1>4, FlushEffect DEF SInv
<1>7. SoundState(store') /\ SoundState(mem')
  BY <1>2, <1>6 DEF SInv
<1>8. Fresh(mem', Front(frames), Len(Front(frames)))
  BY <1>1, <1>3, <1>6, FreshAround
<1>9. /\ frames' \in Seq(Frame) /\ pc' \in PC /\ err' \in ErrorKind \cup {"none"}
      /\ FramesInv' /\ WaitFramesInv'
  BY <1>1, <1>5, <1>8, WaitThrows DEF ErrorKind
<1>10. until' \in Timed \cup {Timer}
  BY <1>5
<1>11. SInv'
  BY <1>4, <1>6, <1>7, <1>9, <1>10, WaitKeeps
<1>. QED
  BY <1>3, <1>6, <1>9, <1>11

(* A wait that goes on writes nothing.                                     *)
LEMMA WaitOnStep ==
  ASSUME SInv, WaitOn
  PROVE  SInv' /\ FramesInv' /\ Preserves(mem, mem')
<1>1. Waiting /\ Top.key.name \in Signal
  BY WaitOnTop DEF WaitOn
<1>2. /\ store' = store /\ mem' = mem /\ spent' = spent /\ expired' = expired
      /\ UNCHANGED <<resultQ, cursor, probing, failures, outcome, held, lapsed, calls>>
      /\ mem.ps[Top.key.name] # Absent /\ RequestWait(mem.ps[Top.key.name])
  BY DEF WaitOn, durable, deadlines
<1>3. Deliver(Front(frames), "sleep") /\ until' \in Timed \cup {Timer}
  BY <1>1, <1>2, RequestsTimed DEF SInv
<1>4. Fresh(mem', Front(frames), Len(Front(frames)))
  BY <1>1, <1>2, FreshAround
<1>5. /\ frames' \in Seq(Frame) /\ pc' \in PC /\ err' \in ErrorKind \cup {"none"}
      /\ FramesInv' /\ WaitFramesInv'
  BY <1>1, <1>3, <1>4, WaitThrows DEF ErrorKind
<1>6. SoundState(store') /\ SoundState(mem') /\ spent' \in [Bounded -> Nat]
  BY <1>2 DEF SInv, ControlType
<1>7. SInv'
  BY <1>2, <1>3, <1>5, <1>6, WaitKeeps
<1>. QED
  BY <1>2, <1>5, <1>7, PreservesReflexive

(* Null is the answer of a wait that has none.                             *)
LEMMA TimeOutStep ==
  ASSUME SInv, TimeOut
  PROVE  SInv' /\ (WaitFails => FramesInv') /\ Preserves(mem, mem')
<1>. DEFINE k == Top.key
            d == SaveStepResult(mem, k, Null)
<1>1. /\ Waiting /\ k \in Wait /\ k \in Key /\ ~Cached(mem, k)
      /\ frames \in Seq(Frame) /\ Stack(frames)
  BY WaitOnTop DEF TimeOut
<1>2. SoundState(d) /\ Preserves(mem, d) /\ \A j \in Key : j # k /\ Cached(d, j) => Cached(mem, j)
  <2>1. Null \in Value \cup {Undefined} /\ SoundState(mem) /\ mem \in State
    BY SignalAssumption DEF SInv, SoundState
  <2>. HIDE DEF k
  <2>2. SoundState(d)
    BY <1>1, <2>1, ResultKeeps
  <2>3. Preserves(mem, d) /\ \A j \in Key : j # k /\ Cached(d, j) => Cached(mem, j)
    BY <1>1, <2>1, SavePreserves
  <2>. QED
    BY <2>2, <2>3
<1>3. /\ \/ FlushOk(d, TRUE) /\ UNCHANGED <<frames, pc, err, until>>
         \/ FlushFails(d, TRUE) /\ WaitFails
      /\ UNCHANGED <<resultQ, cursor, probing, failures, outcome, held, lapsed, calls>>
      /\ expired' = expired
  BY DEF TimeOut, deadlines
<1>. HIDE DEF d
<1>4. mem' = d /\ store' \in {store, d} /\ spent' \in [Bounded -> Nat]
  BY <1>3, FlushEffect DEF SInv
<1>5. SoundState(store') /\ SoundState(mem')
  BY <1>2, <1>4 DEF SInv
<1>6. /\ Fresh(mem', frames, Len(frames) - 1)
      /\ Fresh(mem', Front(frames), Len(Front(frames)))
  BY <1>1, <1>2, <1>4, FreshAround
<1>7. /\ frames' \in Seq(Frame) /\ pc' \in PC /\ err' \in ErrorKind \cup {"none"}
      /\ WaitFramesInv' /\ until' \in Timed \cup {Timer}
  <2>1. CASE UNCHANGED <<frames, pc, err, until>>
    <3>1. frames' = frames /\ pc' = "body" /\ err' = err /\ until' = until
      BY <1>1, <2>1 DEF Waiting
    <3>2. Fresh(mem', frames', Deciding(frames'))
      BY <1>1, <1>6, <3>1 DEF Deciding, Top
    <3>3. WaitFramesInv'
      BY <1>1, <3>1, <3>2 DEF WaitFramesInv
    <3>. QED
      BY <1>1, <3>1, <3>3 DEF SInv, ControlType, ParkingInv, PC
  <2>2. CASE WaitFails
    BY <1>1, <1>6, <2>2, WaitThrows DEF WaitFails, ErrorKind
  <2>. QED
    BY <1>3, <2>1, <2>2
<1>8. SInv'
  BY <1>3, <1>4, <1>5, <1>7, WaitKeeps
<1>9. WaitFails => FramesInv'
  BY <1>1, <1>6, WaitThrows DEF WaitFails, ErrorKind
<1>. QED
  BY <1>2, <1>4, <1>8, <1>9

(* The second write of a wait that timed out clears its entry.             *)
LEMMA ClearStep ==
  ASSUME SInv, ClearTimedOut
  PROVE  SInv' /\ FramesInv' /\ Preserves(mem, mem')
<1>. DEFINE k == Top.key
            d == ClearPendingSignal(mem, k.name)
<1>1. Waiting /\ k.name \in Signal /\ Front(frames) \in Seq(Frame) /\ Stack(Front(frames))
  BY WaitOnTop DEF ClearTimedOut
<1>2. SoundState(d) /\ d.c = mem.c /\ d.u = mem.u
  <2>. HIDE DEF k
  <2>. QED
    BY <1>1, ClearanceKeeps DEF SInv
<1>3. /\ \/ /\ FlushOk(d, TRUE) /\ frames' = Observed(Front(frames), Null)
            /\ UNCHANGED <<pc, err, until>>
         \/ FlushFails(d, TRUE) /\ WaitFails
      /\ UNCHANGED <<resultQ, cursor, probing, failures, outcome, held, lapsed, calls>>
      /\ expired' = expired
  BY DEF ClearTimedOut, deadlines
<1>. HIDE DEF d, k
<1>4. Preserves(mem, d) /\ \A j \in Key : Cached(d, j) => Cached(mem, j)
  BY <1>2, SameCache
<1>5. mem' = d /\ store' \in {store, d} /\ spent' \in [Bounded -> Nat]
  BY <1>3, FlushEffect DEF SInv
<1>6. SoundState(store') /\ SoundState(mem')
  BY <1>2, <1>5 DEF SInv
<1>7. Fresh(mem', Front(frames), Len(Front(frames)))
  BY <1>1, <1>4, <1>5, FreshAround
<1>8. /\ frames' \in Seq(Frame) /\ pc' \in PC /\ err' \in ErrorKind \cup {"none"}
      /\ FramesInv' /\ WaitFramesInv' /\ until' \in Timed \cup {Timer}
  <2>1. CASE frames' = Observed(Front(frames), Null) /\ UNCHANGED <<pc, err, until>>
    <3>1. Null \in Observation
      BY SignalAssumption DEF Observation
    <3>2. /\ frames' \in Seq(Frame) /\ Stack(frames') /\ Len(frames') = Len(Front(frames))
          /\ \A i \in 1 .. Len(Front(frames)) : frames'[i].key = Front(frames)[i].key
      BY <1>1, <2>1, <3>1, ObservedStack
    <3>3. Fresh(mem', frames', Len(frames'))
      <4>1. \A i \in 2 .. Len(frames') : i \in 1 .. Len(Front(frames))
        BY <1>1, <3>2
      <4>. QED
        BY <1>7, <3>2, <4>1 DEF Fresh
    <3>4. Fresh(mem', frames', Deciding(frames'))
      BY <3>2, <3>3, FreshDeciding
    <3>5. pc' = "body" /\ err' = err /\ until' = until
      BY <1>1, <2>1 DEF Waiting
    <3>6. FramesInv' /\ WaitFramesInv'
      BY <3>2, <3>3, <3>4, <3>5 DEF FramesInv, WaitFramesInv
    <3>. QED
      BY <3>2, <3>5, <3>6 DEF SInv, ControlType, ParkingInv, PC
  <2>2. CASE WaitFails
    BY <1>1, <1>7, <2>2, WaitThrows DEF WaitFails, ErrorKind
  <2>. QED
    BY <1>3, <2>1, <2>2
<1>9. SInv'
  BY <1>3, <1>5, <1>6, <1>8, WaitKeeps
<1>. QED
  BY <1>4, <1>5, <1>8, <1>9

-----------------------------------------------------------------------------
(* The other steps *)

(* Where no wait is on top, the worker's invariant holds.                  *)
LEMMA RunInvOfSInv ==
  ASSUME SInv, ~Waiting
  PROVE  RunInv
<1>1. pc = "body" => Fresh(mem, frames, Len(frames))
  BY DEF SInv, WaitFramesInv, Waiting, Deciding, Top
<1>. QED
  BY <1>1 DEF SInv, SoundState, WaitFramesInv, RunInv, StatesInv, FramesInv

(* A step that takes the worker's copy to a safe one.                      *)
LEMMA SafeMove ==
  ASSUME SInv, StatesInv', FramesInv', ControlType', Moves,
         calls' = calls, held' \in BOOLEAN, until' \in Timed \cup {Timer},
         expired' = expired, lapsed' = lapsed
  PROVE  SInv' /\ (pc' # "idle" => Preserves(mem, mem'))
<1>1. PICK d : Safe(d) /\ store' \in {store, d} /\ (mem' = d \/ (mem' = store' /\ pc' = "idle"))
  BY DEF Moves
<1>2. SoundState(store) /\ SoundState(mem) /\ SoundState(d)
  BY <1>1 DEF SInv, Safe, SoundState, EntriesOfWaits
<1>3. SoundState(store') /\ SoundState(mem')
  BY <1>1, <1>2
<1>4. WaitFramesInv'
  <2>1. pc' = "body" => Fresh(mem', frames', Deciding(frames'))
    BY FreshDeciding DEF FramesInv, ControlType
  <2>. QED
    BY <2>1 DEF FramesInv, WaitFramesInv
<1>5. CallsInv' /\ ParkingInv'
  BY DEF SInv, CallsInv, ParkingInv
<1>6. pc' # "idle" => Preserves(mem, mem')
  BY <1>1 DEF Safe
<1>. QED
  BY <1>3, <1>4, <1>5, <1>6 DEF SInv

(* The worker decides steps and takes no decision back.                    *)
LEMMA WorkerKeeps ==
  ASSUME SInv, WorkerStep
  PROVE  SInv' /\ (pc' # "idle" => Preserves(mem, mem'))
<1>1. RunInv' /\ Moves
  BY RunInvOfSInv, WorkerMoves DEF WorkerStep
<1>2. /\ calls' = calls /\ expired' = expired /\ lapsed' = lapsed
      /\ held' = (pc' = "idle" /\ outcome' = "delayed")
      /\ until' = IF err = "sleep" THEN until ELSE Timer
  BY DEF WorkerStep, deadlines
<1>3. held' \in BOOLEAN
  BY <1>2
<1>4. until' \in Timed \cup {Timer}
  BY <1>2 DEF SInv, ParkingInv
<1>. QED
  BY <1>1, <1>2, <1>3, <1>4, SafeMove DEF RunInv

(* A crash leaves what Redis has.                                          *)
LEMMA CrashKeeps ==
  ASSUME SInv, SignalCrash
  PROVE  SInv' /\ pc' = "idle"
<1>1. /\ store' = store /\ resultQ' = resultQ /\ EndRun("crashed")
      /\ Spend("crashes") /\ calls' = calls /\ held' = held /\ until' = until
      /\ expired' = expired /\ lapsed' = lapsed
  BY DEF SignalCrash, Crash, durable, signalVars
<1>2. spent' \in [Bounded -> Nat]
  BY <1>1, SpendType DEF Bounded, SInv
<1>3. ControlType' /\ FramesInv' /\ mem' = store' /\ pc' = "idle"
  BY <1>1, <1>2, EndRunEffect DEF SInv
<1>4. StatesInv' /\ Moves
  BY <1>1, <1>3, QuietKeeps DEF SInv, SoundState, StatesInv
<1>. QED
  BY <1>1, <1>3, <1>4, SafeMove DEF SInv, ParkingInv

(* A run starts on what Redis has.                                         *)
LEMMA RunKeeps ==
  ASSUME SInv, SignalRun
  PROVE  SInv' /\ pc = "idle"
<1>1. pc = "idle" /\ ~Waiting
  BY DEF SignalRun, Run, Waiting
<1>2. RunInv' /\ store' = store /\ mem' \in {mem, store}
  BY <1>1, RunInvOfSInv, RunStep DEF SignalRun
<1>3. SoundState(store') /\ SoundState(mem')
  BY <1>2 DEF SInv
<1>4. pc' \in {"idle", "attempt"}
  BY <1>1 DEF SignalRun, Run
<1>5. WaitFramesInv'
  BY <1>4 DEF WaitFramesInv
<1>6. /\ calls' = calls /\ held' = held /\ until' = until
      /\ expired' = expired /\ lapsed' = lapsed
  BY DEF SignalRun, signalVars
<1>7. CallsInv' /\ ParkingInv'
  BY <1>6 DEF SInv, CallsInv, ParkingInv
<1>. QED
  BY <1>1, <1>2, <1>3, <1>5, <1>7 DEF SInv, RunInv

(* A client that is done with a call, or goes on to promote the job, holds *)
(* no copy.                                                                *)
LEMMA ReachedKeeps ==
  ASSUME SInv, NEW c \in Call, NEW at \in {"written", "done"}, Reached(c, at)
  PROVE  CallsInv'
<1>1. SoundState(InitialState)
  <2>1. \A k \in Key : InitialState.a[k] = 0 /\ 0 < Attempts[k]
    BY EngineAssumption DEF InitialState
  <2>2. \A n \in Signal : InitialState.ps[n] = Absent
    BY DEF InitialState
  <2>. QED
    BY <2>1, <2>2, InitialStateType DEF SoundState, WithinBudget, EntriesOfWaits
<1>. DEFINE x == [at |-> at, snap |-> InitialState]
<1>2. x \in CallState /\ x.snap = InitialState /\ x.at # "read"
  BY InitialStateType DEF CallState
<1>3. calls' = [calls EXCEPT ![c] = x]
  BY DEF Reached
<1>. HIDE DEF x
<1>4. calls' \in [Call -> CallState] /\ \A e \in Call : calls'[e] = IF e = c THEN x ELSE calls[e]
  BY <1>2, <1>3 DEF SInv, CallsInv
<1>. QED
  BY <1>1, <1>2, <1>4 DEF SInv, CallsInv

(* No client changes the control of a run, or the copy it works on.        *)
LEMMA ClientKeeps ==
  ASSUME SInv, UNCHANGED <<resultQ, pc, context, failures, err, outcome>>,
         spent' \in [Bounded -> Nat], mem' = mem \/ pc = "idle"
  PROVE  ControlType' /\ WaitFramesInv'
<1>1. /\ resultQ' = resultQ /\ pc' = pc /\ frames' = frames /\ cursor' = cursor
      /\ probing' = probing /\ failures' = failures /\ err' = err /\ outcome' = outcome
  BY DEF context
<1>2. ControlType'
  BY <1>1 DEF SInv, ControlType
<1>3. WaitFramesInv'
  BY <1>1 DEF SInv, WaitFramesInv
<1>. QED
  BY <1>2, <1>3

(* The read of a client: a sound copy, which has the wait of its signal.   *)
LEMMA ReadKeeps ==
  ASSUME SInv, NEW c \in Call, Read(c)
  PROVE  SInv' /\ mem' = mem
<1>. DEFINE x == [at |-> "read", snap |-> store]
<1>1. /\ calls' = [calls EXCEPT ![c] = x]
      /\ held' = held /\ until' = until /\ expired' = expired /\ lapsed' = lapsed
      /\ mem' = mem /\ store' = store
      /\ c.op = "signal" => store.ps[c.n] # Absent
  BY DEF Read, MayBegin, vars, parking, deadlines
<1>2. x \in CallState /\ x.snap = store
  BY DEF SInv, SoundState, CallState
<1>. HIDE DEF x
<1>3. calls' \in [Call -> CallState] /\ \A e \in Call : calls'[e] = IF e = c THEN x ELSE calls[e]
  BY <1>1, <1>2 DEF SInv, CallsInv
<1>4. CallsInv'
  BY <1>1, <1>2, <1>3 DEF SInv, CallsInv
<1>5. ParkingInv'
  BY <1>1 DEF SInv, ParkingInv
<1>6. spent' = spent /\ UNCHANGED <<resultQ, pc, context, failures, err, outcome>>
  BY DEF Read, vars, context
<1>7. ControlType' /\ WaitFramesInv'
  BY <1>1, <1>6, ClientKeeps DEF SInv, ControlType
<1>. QED
  BY <1>1, <1>4, <1>5, <1>7 DEF SInv

(* The write of a client: an old state comes back to Redis, and to the     *)
(* worker only when no run is under way.                                   *)
LEMMA WriteKeepsSound ==
  ASSUME SInv, NEW c \in Call, Write(c)
  PROVE  SInv' /\ (pc # "idle" => mem' = mem)
<1>1. /\ calls[c].at = "read" /\ store' \in {store, Written(c)}
      /\ mem' = IF pc = "idle" THEN store' ELSE mem
      /\ spent' = spent \/ Spend("faults")
      /\ \E at \in {"written", "done"} : Reached(c, at)
      /\ UNCHANGED <<resultQ, pc, context, failures, err, outcome>>
      /\ held' = held /\ until' = until /\ expired' = expired /\ lapsed' = lapsed
  BY DEF Write, parking, deadlines
<1>2. SoundState(store') /\ SoundState(mem')
  BY <1>1, WrittenKeeps DEF SInv
<1>3. spent' \in [Bounded -> Nat]
  BY <1>1, SpendType DEF SInv, ControlType, Bounded
<1>4. ControlType' /\ WaitFramesInv'
  BY <1>1, <1>3, ClientKeeps
<1>5. CallsInv' /\ ParkingInv'
  BY <1>1, ReachedKeeps DEF SInv, ParkingInv
<1>. QED
  BY <1>1, <1>2, <1>4, <1>5 DEF SInv

(* The promotion of the parked job.                                        *)
LEMMA PromoteKeeps ==
  ASSUME SInv, NEW c \in Call, Promote(c)
  PROVE  SInv' /\ mem' = mem
<1>1. /\ Reached(c, "done") /\ store' = store /\ mem' = mem
      /\ held' \in {FALSE, held} /\ until' = until
      /\ expired' = expired /\ lapsed' = lapsed
      /\ spent' = spent \/ Spend("faults")
      /\ UNCHANGED <<resultQ, pc, context, failures, err, outcome>>
  BY DEF Promote, durable, deadlines
<1>2. spent' \in [Bounded -> Nat]
  BY <1>1, SpendType DEF SInv, ControlType, Bounded
<1>3. ControlType' /\ WaitFramesInv'
  BY <1>1, <1>2, ClientKeeps
<1>4. CallsInv' /\ ParkingInv'
  BY <1>1, ReachedKeeps DEF SInv, ParkingInv
<1>. QED
  BY <1>1, <1>3, <1>4 DEF SInv

(* Time: only timed waits have a deadline that can pass.                   *)
LEMMA TimeKeeps ==
  ASSUME SInv, Due \/ \E k \in Wait : Elapse(k)
  PROVE  SInv' /\ mem' = mem
<1>1. /\ UNCHANGED vars /\ calls' = calls /\ held' \in {FALSE, held} /\ until' = until
      /\ expired' \subseteq expired \cup Timed /\ lapsed' \subseteq lapsed \cup Timed
  BY DEF Due, Elapse, parking, SInv, ParkingInv
<1>2. spent' = spent /\ mem' = mem /\ store' = store
      /\ UNCHANGED <<resultQ, pc, context, failures, err, outcome>>
  BY <1>1 DEF vars, context
<1>3. ControlType' /\ WaitFramesInv'
  BY <1>2, ClientKeeps DEF SInv, ControlType
<1>4. CallsInv' /\ ParkingInv'
  BY <1>1 DEF SInv, CallsInv, ParkingInv
<1>. QED
  BY <1>2, <1>3, <1>4 DEF SInv

-----------------------------------------------------------------------------
(* The specification *)

LEMMA SignalInitInv == SignalInit => SInv
<1>. SUFFICES ASSUME SignalInit PROVE SInv
  OBVIOUS
<1>1. IInv
  BY InitInv DEF SignalInit
<1>2. store = InitialState /\ mem = InitialState /\ pc = "idle"
  BY DEF SignalInit, Init
<1>3. SoundState(InitialState)
  <2>1. \A n \in Signal : InitialState.ps[n] = Absent
    BY DEF InitialState
  <2>. QED
    BY <1>1, <1>2, <2>1 DEF IInv, StateInv, SoundState, EntriesOfWaits
<1>4. WaitFramesInv
  BY <1>2 DEF WaitFramesInv
<1>5. CallsInv
  <2>. DEFINE x == [at |-> "new", snap |-> InitialState]
  <2>1. x \in CallState /\ x.snap = InitialState /\ x.at # "read"
    BY InitialStateType DEF CallState
  <2>2. calls = [c \in Call |-> x]
    BY DEF SignalInit
  <2>. HIDE DEF x
  <2>. QED
    BY <1>3, <2>1, <2>2 DEF CallsInv
<1>6. ParkingInv
  BY DEF SignalInit, ParkingInv
<1>. QED
  BY <1>1, <1>2, <1>3, <1>4, <1>5, <1>6 DEF IInv, SInv

(* Every step keeps the invariant, and every step of a run the decisions   *)
(* in the worker's copy.                                                   *)
LEMMA SignalNextInv ==
  SInv /\ [SignalNext]_allVars =>
    SInv' /\ (pc # "idle" /\ pc' # "idle" => Preserves(mem, mem'))
<1>. SUFFICES ASSUME SInv, [SignalNext]_allVars
              PROVE  SInv' /\ (pc # "idle" /\ pc' # "idle" => Preserves(mem, mem'))
  OBVIOUS
<1>1. mem' = mem => Preserves(mem, mem')
  BY PreservesReflexive
<1>2. CASE SignalRun
  BY <1>2, RunKeeps
<1>3. CASE WorkerStep
  BY <1>3, WorkerKeeps
<1>4. CASE WaitStep
  BY <1>4, RegisterStep, WaitOnStep, TimeOutStep, ClearStep DEF WaitStep
<1>5. CASE SignalCrash
  BY <1>5, CrashKeeps
<1>6. CASE Due \/ \E k \in Wait : Elapse(k)
  BY <1>1, <1>6, TimeKeeps
<1>7. CASE \E c \in Call : Read(c)
  BY <1>1, <1>7, ReadKeeps
<1>8. CASE ClientStep
  BY <1>1, <1>8, WriteKeepsSound, PromoteKeeps DEF ClientStep
<1>9. CASE UNCHANGED allVars
  <2>1. spent' = spent /\ mem' = mem /\ store' = store
        /\ UNCHANGED <<resultQ, pc, context, failures, err, outcome>>
        /\ calls' = calls /\ held' = held /\ until' = until
        /\ expired' = expired /\ lapsed' = lapsed
    BY <1>9 DEF allVars, vars, signalVars, context
  <2>2. ControlType' /\ WaitFramesInv'
    BY <2>1, ClientKeeps DEF SInv, ControlType
  <2>3. CallsInv' /\ ParkingInv'
    BY <2>1 DEF SInv, CallsInv, ParkingInv
  <2>. QED
    BY <1>1, <2>1, <2>2, <2>3 DEF SInv
<1>. QED
  BY <1>2, <1>3, <1>4, <1>5, <1>6, <1>7, <1>8, <1>9 DEF SignalNext, Ended, allVars

LEMMA SignalInvariant == SignalSpec => []SInv
<1>1. SignalInit => SInv
  BY SignalInitInv
<1>2. SInv /\ [SignalNext]_allVars => SInv'
  BY SignalNextInv
<1>. QED
  BY <1>1, <1>2, PTL DEF SignalSpec

(* Every variable has its type, whatever clients write and when: a wait    *)
(* never pops the frame of run(), and the job is parked for nothing but a  *)
(* registered wait.                                                        *)
THEOREM SignalledJobIsTyped == SignalSpec => []SignalTypeOK
<1>1. SInv => SignalTypeOK
  <2>. SUFFICES ASSUME SInv PROVE SignalTypeOK
    OBVIOUS
  <2>1. TypeOK
    BY DEF SInv, SoundState, ControlType, TypeOK
  <2>. QED
    BY <2>1, SignalAssumption DEF SInv, CallsInv, ParkingInv, SignalTypeOK
<1>. QED
  BY <1>1, SignalInvariant, PTL

(* A run acts on one answer of each step and wait: no write of a client    *)
(* reaches it, and none of its own takes an answer back.                   *)
THEOREM RunsKeepTheirAnswers == SignalSpec => RunKeepsItsAnswers
<1>1. SInv /\ [SignalNext]_allVars =>
        [pc # "idle" /\ pc' # "idle" => Preserves(mem, mem')]_allVars
  BY SignalNextInv
<1>. QED
  BY <1>1, SignalInvariant, PTL DEF SignalSpec, RunKeepsItsAnswers

-----------------------------------------------------------------------------
(* Answers *)

(* A wait with a deadline shares its signal with no other one: the entry   *)
(* that it leaves behind times out nothing else.                           *)
DeadlinesOfOneWait == \A j \in Timed, k \in Wait : j.name = k.name => j = k

(* The answers that clients or time have given so far.                     *)
Given ==
  {a \in Wait \X Value :
     \/ a[2] = Null /\ a[1] \in lapsed
     \/ \E c \in Call : /\ c.op = "signal" /\ c.n = a[1].name /\ c.v = a[2]
                       /\ calls[c].at # "new"}

(* The waits that have a result in d have one of the answers in G.         *)
Answered(d, G) == \A k \in Wait : Cached(d, k) => <<k, StepResult(d, k)>> \in G

(* So do those that the bodies of fs have got back.                        *)
Told(fs, G) ==
  \A i \in 1 .. Len(fs) : \A n \in 1 .. Len(fs[i].obs) : \A k \in Wait :
    k.path = Append(fs[i].key.path, n - 1) => <<k, fs[i].obs[n]>> \in G

(* Each frame is that of the next call of the body below it.               *)
Linked(fs) ==
  \A i \in 2 .. Len(fs) : fs[i].key.path = Append(fs[i - 1].key.path, Len(fs[i - 1].obs))

(* A wait that still runs although it has a result has timed out.          *)
TimedOutOnTop == Waiting /\ Cached(mem, Top.key) => StepResult(mem, Top.key) = Null

AnswersInv ==
  /\ expired \subseteq lapsed
  /\ Answered(store, Given) /\ Answered(mem, Given)
  /\ \A c \in Call : Answered(calls[c].snap, Given)
  /\ Told(frames, Given) /\ Linked(frames)
  /\ TimedOutOnTop

(* An answer stays given.                                                  *)
LEMMA AnsweredMore ==
  ASSUME NEW G, NEW H, G \subseteq H
  PROVE  /\ \A d : Answered(d, G) => Answered(d, H)
         /\ \A fs : Told(fs, G) => Told(fs, H)
<1>1. \A d : Answered(d, G) => Answered(d, H)
  BY DEF Answered
<1>2. \A fs : Told(fs, G) => Told(fs, H)
  BY DEF Told
<1>. QED
  BY <1>1, <1>2

(* Operations that leave the step cache alone leave the answers alone.     *)
LEMMA AnsweredSame ==
  ASSUME NEW d, NEW f, f.c = d.c, f.u = d.u, NEW G, Answered(d, G)
  PROVE  Answered(f, G)
  BY DEF Answered, Cached, StepResult

(* What has no result but that of a step has no other answers.             *)
LEMMA AnsweredRetains ==
  ASSUME NEW d, NEW f, NEW K, Retains(d, f, K), K \cap Wait = {}, NEW G, Answered(d, G)
  PROVE  Answered(f, G)
<1>1. \A k \in Wait : k \in Key \ K
  BY SignalAssumption
<1>. QED
  BY <1>1 DEF Answered, Retains, Keeps

(* The answer of a wait is one of those that were given, and any result of *)
(* another step will do.                                                   *)
LEMMA AnsweredSave ==
  ASSUME NEW d \in State, NEW k \in Wait, NEW v \in Value, NEW G, Answered(d, G), <<k, v>> \in G
  PROVE  Answered(SaveStepResult(d, k, v), G)
<1>. DEFINE g == SaveStepResult(d, k, v)
<1>1. k \in Key /\ v \in Value \cup {Undefined}
  BY SignalAssumption
<1>2. Keeps(g, k, v)
  BY <1>1, SaveLeaves
<1>3. Retains(d, g, {k})
  BY <1>1, SaveRetains
<1>. HIDE DEF g
<1>4. ASSUME NEW j \in Wait, Cached(g, j)
      PROVE  <<j, StepResult(g, j)>> \in G
  <2>1. CASE j = k
    BY <1>2, <2>1 DEF Keeps
  <2>2. CASE j # k
    <3>1. Keeps(d, j, StepResult(g, j))
      BY <1>3, <1>4, <2>2, SignalAssumption DEF Retains
    <3>. QED
      BY <3>1 DEF Answered, Keeps
  <2>. QED
    BY <2>1, <2>2
<1>. QED
  BY <1>4 DEF Answered, g

-----------------------------------------------------------------------------
(* What bodies are told *)

LEMMA ToldNothing == \A G : /\ Told(<<>>, G) /\ Linked(<<>>)
                            /\ Told(RootFrames, G) /\ Linked(RootFrames)
<1>1. Len(RootFrames) = 1 /\ Len(RootFrames[1].obs) = 0
  BY DEF RootFrames
<1>2. \A G : Told(RootFrames, G)
  BY <1>1 DEF Told
<1>3. Linked(RootFrames)
  BY <1>1 DEF Linked
<1>4. Len(<<>>) = 0
  OBVIOUS
<1>5. (\A G : Told(<<>>, G)) /\ Linked(<<>>)
  BY <1>4 DEF Told, Linked
<1>. QED
  BY <1>2, <1>3, <1>5

LEMMA ToldFront ==
  ASSUME NEW fs \in Seq(Frame), Stack(fs), Len(fs) >= 2, NEW G, Told(fs, G), Linked(fs)
  PROVE  Told(Front(fs), G) /\ Linked(Front(fs))
<1>1. /\ Len(fs) \in Nat /\ Len(Front(fs)) = Len(fs) - 1
      /\ \A i \in 1 .. Len(fs) - 1 : Front(fs)[i] = fs[i]
  BY FrontStack, FrameOfStack
<1>2. Told(Front(fs), G)
  <2>1. \A i \in 1 .. Len(Front(fs)) : i \in 1 .. Len(fs) /\ Front(fs)[i] = fs[i]
    BY <1>1
  <2>. QED
    BY <2>1 DEF Told
<1>3. Linked(Front(fs))
  <2>1. \A i \in 2 .. Len(Front(fs)) : /\ i \in 2 .. Len(fs)
                                      /\ Front(fs)[i] = fs[i] /\ Front(fs)[i - 1] = fs[i - 1]
    BY <1>1
  <2>. QED
    BY <2>1 DEF Linked
<1>. QED
  BY <1>2, <1>3

LEMMA ToldPush ==
  ASSUME NEW fs \in Seq(Frame), Stack(fs), NEW k \in Callable(Last(fs)), NEW G, Told(fs, G),
         Linked(fs)
  PROVE  LET g == Append(fs, [key |-> k, obs |-> <<>>]) IN Told(g, G) /\ Linked(g)
<1>. DEFINE g == Append(fs, [key |-> k, obs |-> <<>>])
<1>1. /\ Len(fs) \in Nat /\ Len(fs) >= 1 /\ Last(fs) = fs[Len(fs)]
      /\ k.path = Append(Last(fs).key.path, Len(Last(fs).obs))
  BY FrameOfStack DEF Callable
<1>2. /\ Len(g) = Len(fs) + 1
      /\ g[Len(fs) + 1].key = k
      /\ \A i \in 1 .. Len(fs) : g[i] = fs[i]
  BY PushStack
<1>3. Len(g[Len(fs) + 1].obs) = 0
  BY <1>1
<1>. HIDE DEF g
<1>4. Told(g, G)
  <2>. SUFFICES ASSUME NEW i \in 1 .. Len(g), NEW n \in 1 .. Len(g[i].obs), NEW j \in Wait,
                       j.path = Append(g[i].key.path, n - 1)
                PROVE  <<j, g[i].obs[n]>> \in G
    BY DEF Told
  <2>1. i \in 1 .. Len(fs)
    <3>1. i = Len(fs) + 1 \/ i \in 1 .. Len(fs)
      BY <1>1, <1>2
    <3>2. i # Len(fs) + 1
      BY <1>3
    <3>. QED
      BY <3>1, <3>2
  <2>. QED
    BY <1>2, <2>1 DEF Told
<1>5. Linked(g)
  <2>. SUFFICES ASSUME NEW i \in 2 .. Len(g)
                PROVE  g[i].key.path = Append(g[i - 1].key.path, Len(g[i - 1].obs))
    BY DEF Linked
  <2>1. CASE i = Len(fs) + 1
    <3>1. g[i - 1] = Last(fs) /\ g[i].key = k
      BY <1>1, <1>2, <2>1
    <3>. QED
      BY <1>1, <3>1
  <2>2. CASE i # Len(fs) + 1
    <3>1. i \in 2 .. Len(fs) /\ g[i] = fs[i] /\ g[i - 1] = fs[i - 1]
      BY <1>1, <1>2, <2>2
    <3>. QED
      BY <3>1 DEF Linked
  <2>. QED
    BY <2>1, <2>2
<1>. QED
  BY <1>4, <1>5 DEF g

(* A body may be told anything of a call that is no wait, and a given      *)
(* answer of one that is.                                                  *)
LEMMA ToldObserved ==
  ASSUME NEW fs \in Seq(Frame), Stack(fs), NEW v \in Observation, NEW G, Told(fs, G), Linked(fs),
         \A k \in Wait : k.path = Append(Last(fs).key.path, Len(Last(fs).obs)) => <<k, v>> \in G
  PROVE  Told(Observed(fs, v), G) /\ Linked(Observed(fs, v))
<1>. DEFINE l == Len(fs)
            f == [fs[l] EXCEPT !.obs = Append(fs[l].obs, v)]
            g == Observed(fs, v)
<1>1. l \in Nat /\ l >= 1 /\ fs[l] \in Frame /\ Last(fs) = fs[l]
  BY FrameOfStack
<1>2. fs[l].obs \in Seq(Observation) /\ f.obs = Append(fs[l].obs, v) /\ f.key = fs[l].key
  BY <1>1 DEF Frame
<1>3. /\ Len(f.obs) = Len(fs[l].obs) + 1 /\ f.obs[Len(fs[l].obs) + 1] = v
      /\ \A n \in 1 .. Len(fs[l].obs) : f.obs[n] = fs[l].obs[n]
      /\ Len(fs[l].obs) \in Nat
  BY <1>2, AppendProperties
<1>4. g = [fs EXCEPT ![l] = f]
  BY DEF Observed
<1>. HIDE DEF f
<1>5. Len(g) = l /\ g[l] = f /\ \A i \in 1 .. l : i # l => g[i] = fs[i]
  <2>1. Len(g) = l
    BY ObservedStack
  <2>. QED
    BY <1>1, <1>4, <2>1
<1>. HIDE DEF g
<1>6. Told(g, G)
  <2>. SUFFICES ASSUME NEW i \in 1 .. Len(g), NEW n \in 1 .. Len(g[i].obs), NEW k \in Wait,
                       k.path = Append(g[i].key.path, n - 1)
                PROVE  <<k, g[i].obs[n]>> \in G
    BY DEF Told
  <2>1. CASE i # l
    BY <1>5, <2>1 DEF Told
  <2>2. CASE i = l /\ n \in 1 .. Len(fs[l].obs)
    <3>1. g[i].obs[n] = fs[l].obs[n] /\ g[i].key = fs[l].key
      BY <1>2, <1>3, <1>5, <2>2
    <3>2. \A m \in 1 .. Len(fs[l].obs) : \A j \in Wait :
            j.path = Append(fs[l].key.path, m - 1) => <<j, fs[l].obs[m]>> \in G
      <4>1. l \in 1 .. Len(fs)
        BY <1>1
      <4>. HIDE DEF l
      <4>. QED
        BY <4>1 DEF Told
    <3>. QED
      BY <2>2, <3>1, <3>2
  <2>3. CASE i = l /\ n = Len(fs[l].obs) + 1
    <3>1. g[i].obs[n] = v /\ g[i].key = Last(fs).key /\ n - 1 = Len(Last(fs).obs)
      BY <1>1, <1>2, <1>3, <1>5, <2>3
    <3>. QED
      BY <3>1
  <2>. QED
    BY <1>3, <1>5, <2>1, <2>2, <2>3
<1>7. Linked(g)
  <2>. SUFFICES ASSUME NEW i \in 2 .. Len(g)
                PROVE  g[i].key.path = Append(g[i - 1].key.path, Len(g[i - 1].obs))
    BY DEF Linked
  <2>1. g[i].key = fs[i].key
    BY <1>2, <1>5
  <2>2. g[i - 1] = fs[i - 1] /\ i \in 2 .. Len(fs)
    BY <1>1, <1>5
  <2>. QED
    BY <2>1, <2>2 DEF Linked
<1>. QED
  BY <1>6, <1>7 DEF g

-----------------------------------------------------------------------------
(* What the worker does to the frames *)

(* The frames stay, go, or start over; a body makes a call or gets the     *)
(* result of one; a wrapper hands an error or a result to the caller.      *)
FrameMoves ==
  \/ frames' \in {frames, <<>>, RootFrames}
  \/ pc = "catch" /\ frames' = Front(frames)
  \/ pc = "body" /\ \E k \in Callable(Top) :
       \/ frames' = Append(frames, [key |-> k, obs |-> <<>>])
       \/ Cached(mem, k) /\ frames' = Observed(frames, StepResult(mem, k))
  \/ pc = "body" /\ Len(frames) >= 2
     /\ \E v \in Value \cup {Undefined} : frames' = Observed(Front(frames), v)

LEMMA WorkerFrames ==
  ASSUME RunInv, Worker
  PROVE  FrameMoves
<1>1. \A fs, kind : Deliver(fs, kind) => frames' = fs
  BY SignalAssumption DEF Deliver
<1>2. \A how : EndRun(how) => frames' = <<>>
  BY DEF EndRun
<1>3. AfterCompletion => frames' \in {<<>>, RootFrames}
  BY <1>2 DEF AfterCompletion
<1>4. context' = context => frames' = frames
  BY DEF context
<1>5. CASE BeginAttempt \/ ResumePublishing
  BY <1>4, <1>5 DEF BeginAttempt, ResumePublishing, FrameMoves
<1>6. ASSUME NEW k \in Key, ReplayStep(k) \/ TraceStep(k) \/ DivergeStep(k)
      PROVE  FrameMoves
  <2>1. pc = "body" /\ k \in Callable(Top)
    BY <1>6 DEF ReplayStep, TraceStep, DivergeStep
  <2>2. ASSUME NEW d, d.c = mem.c, d.u = mem.u, Enter(d, k)
        PROVE  FrameMoves
    <3>1. (Cached(d, k) <=> Cached(mem, k)) /\ StepResult(d, k) = StepResult(mem, k)
      BY <2>2 DEF Cached, StepResult
    <3>2. \/ Cached(mem, k) /\ frames' = Observed(frames, StepResult(mem, k))
          \/ frames' = frames
          \/ frames' = Append(frames, [key |-> k, obs |-> <<>>])
      BY <1>1, <2>2, <3>1 DEF Enter
    <3>. QED
      BY <2>1, <3>2 DEF FrameMoves
  <2>3. CASE ReplayStep(k)
    BY <2>2, <2>3 DEF ReplayStep
  <2>4. CASE TraceStep(k)
    <3>1. RecordStep(mem, k).c = mem.c /\ RecordStep(mem, k).u = mem.u
      BY UncachingOps DEF RunInv, StatesInv
    <3>2. Enter(RecordStep(mem, k), k) \/ frames' = frames
      BY <1>1, <2>4 DEF TraceStep
    <3>. QED
      BY <2>2, <3>1, <3>2 DEF FrameMoves
  <2>5. CASE DivergeStep(k)
    BY <1>1, <2>5 DEF DivergeStep, FrameMoves
  <2>. QED
    BY <1>6, <2>3, <2>4, <2>5
<1>7. CASE Steps
  <2>1. ASSUME NEW v \in Value \cup {Undefined}, CompleteStep(v)
        PROVE  FrameMoves
    <3>1. pc = "body" /\ ~InRoot /\ frames' \in {frames, Observed(Front(frames), v)}
      BY <2>1 DEF CompleteStep
    <3>2. Len(frames) >= 2
      <4>1. Stack(frames) /\ frames \in Seq(Frame)
        BY <3>1 DEF RunInv, FramesInv, ControlType
      <4>2. \A n \in Nat : n >= 1 /\ n # 1 => n >= 2
        OBVIOUS
      <4>. QED
        BY <3>1, <4>1, <4>2, FrameOfStack DEF InRoot
    <3>. QED
      BY <3>1, <3>2 DEF FrameMoves
  <2>2. ASSUME NEW kind \in {"error", "nonRetryable", "sleep"}, Throw(kind)
        PROVE  FrameMoves
    BY <1>4, <2>2 DEF Throw, FrameMoves
  <2>3. CASE ChargeFailure \/ Rethrow
    <3>1. pc = "catch" /\ frames' = Front(frames)
      BY <1>1, <2>3 DEF ChargeFailure, Rethrow
    <3>. QED
      BY <3>1 DEF FrameMoves
  <2>. QED
    BY <1>7, <2>1, <2>2, <2>3 DEF Steps
<1>8. CASE Returning
  <2>1. ReturnDiverged \/ StoreResult \/ ReturnUnserializable => frames' = frames
    BY <1>4 DEF ReturnDiverged, StoreResult, ReturnUnserializable
  <2>2. Complete \/ Finalize => frames' \in {frames, <<>>, RootFrames}
    BY <1>2, <1>3, <1>4 DEF Complete, Finalize
  <2>3. Publish \/ ReturnFromProbe => frames' \in {frames, <<>>}
    BY <1>2, <1>4 DEF Publish, ReturnFromProbe
  <2>. QED
    BY <1>8, <2>1, <2>2, <2>3 DEF Returning, FrameMoves
<1>9. CASE Catching
  <2>1. FailProbe \/ Park \/ HandleFailure => frames' = <<>>
    BY <1>2 DEF FailProbe, Park, HandleFailure
  <2>2. RetryStep \/ RetryWorkflow => frames' = <<>>
    BY DEF RetryStep, RetryWorkflow
  <2>3. Fail => frames' \in {frames, <<>>}
    BY <1>2, <1>4 DEF Fail
  <2>. QED
    BY <1>9, <2>1, <2>2, <2>3 DEF Catching, FrameMoves
<1>. QED
  BY <1>5, <1>6, <1>7, <1>8, <1>9 DEF Worker, Calls

(* What the worker tells bodies of waits is what its copy says of them.    *)
LEMMA WorkerTells ==
  ASSUME OneStepPerPlace, RunInv, ~Waiting, Worker, NEW G, Answered(mem, G), Told(frames, G),
         Linked(frames)
  PROVE  Told(frames', G) /\ Linked(frames')
<1>1. FrameMoves
  BY WorkerFrames
<1>2. /\ frames \in Seq(Frame) /\ (pc \in {"body", "catch"} => Stack(frames))
      /\ pc = "catch" => Len(frames) >= 2
      /\ pc = "body" => Top.key \notin Wait /\ Top = Last(frames)
  BY DEF RunInv, FramesInv, ControlType, Waiting, Top
<1>3. CASE frames' \in {frames, <<>>, RootFrames}
  BY <1>3, ToldNothing
<1>4. CASE pc = "catch" /\ frames' = Front(frames)
  BY <1>2, <1>4, ToldFront
<1>5. ASSUME NEW k \in Callable(Top), pc = "body",
             frames' = Append(frames, [key |-> k, obs |-> <<>>])
      PROVE  Told(frames', G) /\ Linked(frames')
  BY <1>2, <1>5, ToldPush
<1>6. ASSUME NEW k \in Callable(Top), pc = "body", Cached(mem, k),
             frames' = Observed(frames, StepResult(mem, k))
      PROVE  Told(frames', G) /\ Linked(frames')
  <2>1. k \in Key /\ k.path = Append(Last(frames).key.path, Len(Last(frames).obs))
    BY <1>2, <1>6 DEF Callable
  <2>2. StepResult(mem, k) \in Observation
    BY <1>6, <2>1 DEF RunInv, StatesInv, State, Cached, StepResult, Observation
  <2>3. ASSUME NEW j \in Wait, j.path = Append(Last(frames).key.path, Len(Last(frames).obs))
        PROVE  <<j, StepResult(mem, k)>> \in G
    <3>1. j = k
      BY <2>1, <2>3, SignalAssumption DEF OneStepPerPlace
    <3>. QED
      BY <1>6, <3>1 DEF Answered
  <2>. QED
    BY <1>2, <1>6, <2>2, <2>3, ToldObserved
<1>7. ASSUME NEW v \in Value \cup {Undefined}, pc = "body", Len(frames) >= 2,
             frames' = Observed(Front(frames), v)
      PROVE  Told(frames', G) /\ Linked(frames')
  <2>. DEFINE fs == Front(frames)
  <2>1. /\ fs \in Seq(Frame) /\ Stack(fs) /\ Len(fs) = Len(frames) - 1
        /\ \A i \in 1 .. Len(frames) - 1 : fs[i] = frames[i]
    BY <1>2, <1>7, FrontStack
  <2>2. Told(fs, G) /\ Linked(fs)
    BY <1>2, <1>7, ToldFront
  <2>3. /\ Len(frames) \in Nat /\ Last(fs) = frames[Len(frames) - 1]
        /\ Top = frames[Len(frames)] /\ Top.key \in Key
    BY <1>2, <1>7, <2>1, FrameOfStack
  <2>4. Top.key.path = Append(Last(fs).key.path, Len(Last(fs).obs))
    <3>1. Len(frames) \in 2 .. Len(frames)
      BY <1>7, <2>3
    <3>. QED
      BY <2>3, <3>1 DEF Linked
  <2>. HIDE DEF fs
  <2>5. \A j \in Wait : j.path # Append(Last(fs).key.path, Len(Last(fs).obs))
    BY <1>2, <1>7, <2>3, <2>4, SignalAssumption DEF OneStepPerPlace
  <2>6. v \in Observation
    BY DEF Observation
  <2>. QED
    BY <1>7, <2>1, <2>2, <2>5, <2>6, ToldObserved DEF fs
<1>. QED
  BY <1>1, <1>3, <1>4, <1>5, <1>6, <1>7 DEF FrameMoves

-----------------------------------------------------------------------------
(* The answers of waits, step by step *)

(* Answers that were given stay so.                                        *)
LEMMA GivenGrows ==
  ASSUME lapsed \subseteq lapsed', \A c \in Call : calls[c].at # "new" => calls'[c].at # "new"
  PROVE  Given \subseteq Given'
<1>. SUFFICES ASSUME NEW a \in Given
              PROVE  a \in Given'
  OBVIOUS
<1>1. a \in Wait \X Value
  BY DEF Given
<1>2. CASE a[2] = Null /\ a[1] \in lapsed
  BY <1>1, <1>2 DEF Given
<1>3. CASE \E c \in Call : /\ c.op = "signal" /\ c.n = a[1].name /\ c.v = a[2]
                           /\ calls[c].at # "new"
  BY <1>1, <1>3 DEF Given
<1>. QED
  BY <1>2, <1>3 DEF Given

(* What is left to show of a step.                                         *)
LEMMA AnswersKeep ==
  ASSUME AnswersInv, Given \subseteq Given', expired' \subseteq lapsed',
         \A c \in Call : calls'[c].snap = calls[c].snap \/ Answered(calls'[c].snap, Given'),
         Answered(store', Given'), Answered(mem', Given'),
         Told(frames', Given'), Linked(frames'), TimedOutOnTop'
  PROVE  AnswersInv'
<1>1. \A c \in Call : Answered(calls[c].snap, Given')
  BY AnsweredMore DEF AnswersInv
<1>. QED
  BY <1>1 DEF AnswersInv

(* A body runs only where its step has no result.                          *)
LEMMA FreshTop ==
  ASSUME NEW d, NEW fs \in Seq(Frame), Stack(fs), Fresh(d, fs, Len(fs)), Last(fs).key \in Wait
  PROVE  ~Cached(d, Last(fs).key)
<1>1. Len(fs) \in Nat /\ Len(fs) >= 1 /\ Last(fs) = fs[Len(fs)]
  BY FrameOfStack
<1>2. Last(fs).key # Root
  BY SignalAssumption, EngineAssumption
<1>3. Len(fs) # 1
  BY <1>1, <1>2 DEF Stack
<1>4. Len(fs) \in 2 .. Len(fs)
  <2>1. \A n \in Nat : n >= 1 /\ n # 1 => n \in 2 .. n
    OBVIOUS
  <2>. QED
    BY <1>1, <1>3, <2>1
<1>. QED
  BY <1>1, <1>4 DEF Fresh

LEMMA NotTimedOut ==
  ASSUME ControlType', FramesInv'
  PROVE  TimedOutOnTop'
<1>1. pc' = "body" /\ Last(frames').key \in Wait => ~Cached(mem', Last(frames').key)
  BY FreshTop DEF ControlType, FramesInv
<1>. QED
  BY <1>1 DEF TimedOutOnTop, Waiting, Top

(* The worker itself answers no wait.                                      *)
LEMMA WorkerAnswers ==
  ASSUME OneStepPerPlace, SInv, AnswersInv, WorkerStep
  PROVE  AnswersInv'
<1>1. RunInv /\ RunInv' /\ Moves
  BY RunInvOfSInv, WorkerMoves DEF WorkerStep
<1>2. calls' = calls /\ expired' = expired /\ lapsed' = lapsed /\ ~Waiting /\ Worker
  BY DEF WorkerStep, deadlines
<1>3. Given \subseteq Given'
  BY <1>2, GivenGrows
<1>4. Told(frames', Given) /\ Linked(frames')
  BY <1>1, <1>2, WorkerTells DEF AnswersInv
<1>5. PICK d : Safe(d) /\ store' \in {store, d} /\ mem' \in {store', d}
  BY <1>1 DEF Moves
<1>6. Answered(d, Given)
  <2>1. Retains(mem, d, Running) /\ Running \cap Wait = {}
    BY <1>2, <1>5 DEF Safe, Running, Waiting
  <2>. QED
    BY <2>1, AnsweredRetains DEF AnswersInv
<1>7. Answered(store', Given) /\ Answered(mem', Given)
  BY <1>5, <1>6 DEF AnswersInv
<1>8. TimedOutOnTop'
  BY <1>1, NotTimedOut DEF RunInv
<1>9. expired' \subseteq lapsed'
  BY <1>2 DEF AnswersInv
<1>10. /\ Answered(store', Given') /\ Answered(mem', Given') /\ Told(frames', Given')
  BY <1>3, <1>4, <1>7, AnsweredMore
<1>. QED
  BY <1>2, <1>3, <1>4, <1>8, <1>9, <1>10, AnswersKeep

(* A wait answers itself, with null after its deadline.                    *)
LEMMA WaitAnswers ==
  ASSUME OneStepPerPlace, DeadlinesOfOneWait, SInv, AnswersInv, WaitStep
  PROVE  AnswersInv'
<1>. DEFINE k == Top.key
            fs == Front(frames)
<1>1. /\ Waiting /\ pc = "body" /\ k \in Wait /\ k \in Key /\ k.name \in Signal
      /\ frames \in Seq(Frame) /\ Stack(frames)
      /\ Len(frames) \in Nat /\ Len(frames) >= 2 /\ Top = frames[Len(frames)]
      /\ fs \in Seq(Frame) /\ Stack(fs) /\ Len(fs) = Len(frames) - 1
      /\ \A i \in 1 .. Len(frames) - 1 : fs[i] = frames[i]
  <2>1. Waiting
    BY DEF WaitStep, RegisterWait, WaitOn, TimeOut, ClearTimedOut
  <2>. QED
    BY <2>1, WaitOnTop DEF Waiting
<1>2. calls' = calls /\ lapsed' = lapsed /\ expired' \subseteq expired
  BY DEF WaitStep, RegisterWait, WaitOn, TimeOut, ClearTimedOut, deadlines
<1>3. Given \subseteq Given' /\ expired' \subseteq lapsed'
  BY <1>2, GivenGrows DEF AnswersInv
<1>4. \A kind : Deliver(fs, kind) => frames' = fs
  BY SignalAssumption DEF Deliver
<1>5. SInv' /\ ControlType'
  BY RegisterStep, WaitOnStep, TimeOutStep, ClearStep DEF WaitStep, SInv
<1>6. Told(fs, Given) /\ Linked(fs)
  BY <1>1, ToldFront DEF AnswersInv
<1>. HIDE DEF k, fs
<1>7. ASSUME NEW d, Answered(d, Given), mem' = d, store' \in {store, d},
             Told(frames', Given), Linked(frames'), TimedOutOnTop'
      PROVE  AnswersInv'
  <2>1. Answered(store', Given) /\ Answered(mem', Given)
    BY <1>7 DEF AnswersInv
  <2>2. Answered(store', Given') /\ Answered(mem', Given') /\ Told(frames', Given')
    BY <1>3, <1>7, <2>1, AnsweredMore
  <2>. QED
    BY <1>2, <1>3, <1>7, <2>2, AnswersKeep
<1>8. CASE RegisterWait
  <2>1. PICK d : d = SavePendingSignal(mem, k.name, k, k \in Timed)
    OBVIOUS
  <2>2. d.c = mem.c /\ d.u = mem.u
    BY <1>1, <2>1, RegistrationKeeps DEF SInv
  <2>3. /\ FlushOk(d, TRUE) \/ FlushFails(d, TRUE)
        /\ Deliver(fs, "sleep") \/ Deliver(fs, "error")
    BY <1>8, <2>1 DEF RegisterWait, RequestWait, WaitFails, k, fs
  <2>4. mem' = d /\ store' \in {store, d}
    BY <2>3, FlushEffect DEF SInv
  <2>5. TimedOutOnTop'
    BY <1>5, <1>8, RegisterStep, NotTimedOut
  <2>6. Answered(d, Given)
    BY <2>2, AnsweredSame DEF AnswersInv
  <2>. QED
    BY <1>4, <1>6, <1>7, <2>3, <2>4, <2>5, <2>6
<1>9. CASE WaitOn
  <2>1. /\ mem' = mem /\ store' = store /\ Deliver(fs, "sleep")
    BY <1>9 DEF WaitOn, RequestWait, durable, fs
  <2>2. TimedOutOnTop'
    BY <1>5, <1>9, WaitOnStep, NotTimedOut
  <2>. QED
    BY <1>4, <1>6, <1>7, <2>1, <2>2 DEF AnswersInv
<1>10. CASE TimeOut
  <2>1. PICK d : d = SaveStepResult(mem, k, Null)
    OBVIOUS
  <2>2. /\ mem \in State /\ Null \in Value
        /\ \A n \in Signal : mem.ps[n] # Absent => mem.ps[n].k \in Wait /\ mem.ps[n].k.name = n
        /\ expired \subseteq Timed
    BY SignalAssumption DEF SInv, SoundState, EntriesOfWaits, ParkingInv
  <2>3. k \in lapsed
    <3>1. /\ mem.ps[k.name] # Absent /\ mem.ps[k.name].k \in expired
      BY <1>10 DEF TimeOut, Overdue, k
    <3>2. mem.ps[k.name].k = k
      BY <1>1, <2>2, <3>1 DEF DeadlinesOfOneWait
    <3>. QED
      BY <3>1, <3>2 DEF AnswersInv
  <2>4. <<k, Null>> \in Given
    BY <1>1, <2>2, <2>3 DEF Given
  <2>5. Answered(d, Given) /\ Keeps(d, k, Null)
    BY <1>1, <2>1, <2>2, <2>4, AnsweredSave, SaveLeaves DEF AnswersInv
  <2>6. \/ FlushOk(d, TRUE) /\ UNCHANGED <<frames, pc, err, until>>
        \/ FlushFails(d, TRUE) /\ WaitFails
    BY <1>10, <2>1 DEF TimeOut, k
  <2>7. mem' = d /\ store' \in {store, d}
    BY <2>6, FlushEffect DEF SInv
  <2>8. CASE frames' = frames
    <3>1. Top' = Top
      BY <2>8 DEF Top
    <3>2. TimedOutOnTop'
      BY <2>5, <2>7, <3>1 DEF TimedOutOnTop, Keeps, k
    <3>. QED
      BY <1>7, <2>5, <2>7, <2>8, <3>2 DEF AnswersInv
  <2>9. CASE WaitFails
    <3>1. frames' = fs
      BY <1>4, <2>9 DEF WaitFails, fs
    <3>2. TimedOutOnTop'
      BY <1>5, <1>10, <2>9, TimeOutStep, NotTimedOut
    <3>. QED
      BY <1>6, <1>7, <2>5, <2>7, <3>1, <3>2
  <2>. QED
    BY <2>6, <2>8, <2>9
<1>11. CASE ClearTimedOut
  <2>1. PICK d : d = ClearPendingSignal(mem, k.name)
    OBVIOUS
  <2>2. d.c = mem.c /\ d.u = mem.u
    BY <1>1, <2>1, ClearanceKeeps DEF SInv
  <2>3. \/ FlushOk(d, TRUE) /\ frames' = Observed(fs, Null)
        \/ FlushFails(d, TRUE) /\ Deliver(fs, "error")
    BY <1>11, <2>1 DEF ClearTimedOut, WaitFails, k, fs
  <2>4. mem' = d /\ store' \in {store, d}
    BY <2>3, FlushEffect DEF SInv
  <2>5. TimedOutOnTop'
    BY <1>5, <1>11, ClearStep, NotTimedOut
  <2>6. Answered(d, Given)
    BY <2>2, AnsweredSame DEF AnswersInv
  <2>7. Told(frames', Given) /\ Linked(frames')
    <3>1. CASE frames' = Observed(fs, Null)
      <4>1. <<k, Null>> \in Given
        BY <1>1, <1>11 DEF ClearTimedOut, AnswersInv, Answered, TimedOutOnTop, k
      <4>2. k.path = Append(Last(fs).key.path, Len(Last(fs).obs))
        <5>1. Last(fs) = frames[Len(frames) - 1] /\ Len(frames) \in 2 .. Len(frames)
          BY <1>1, FrameOfStack
        <5>. QED
          BY <1>1, <5>1 DEF AnswersInv, Linked, k
      <4>3. \A j \in Wait : j.path = Append(Last(fs).key.path, Len(Last(fs).obs)) => j = k
        BY <1>1, <4>2, SignalAssumption DEF OneStepPerPlace
      <4>4. Null \in Observation
        BY SignalAssumption DEF Observation
      <4>. QED
        BY <1>1, <1>6, <3>1, <4>1, <4>3, <4>4, ToldObserved
    <3>2. CASE Deliver(fs, "error")
      BY <1>4, <1>6, <3>2
    <3>. QED
      BY <2>3, <3>1, <3>2
  <2>. QED
    BY <1>7, <2>4, <2>5, <2>6, <2>7
<1>. QED
  BY <1>8, <1>9, <1>10, <1>11 DEF WaitStep

(* A client answers the wait whose entry it has read.                      *)
LEMMA WrittenAnswers ==
  ASSUME SInv, AnswersInv, NEW c \in Call, calls[c].at = "read"
  PROVE  Answered(Written(c), Given)
<1>. DEFINE d == calls[c].snap
<1>1. SoundState(d) /\ d \in State /\ Answered(d, Given)
  BY DEF SInv, CallsInv, SoundState, AnswersInv
<1>2. CASE c.op = "cancel"
  <2>1. MarkCancelled(d).c = d.c /\ MarkCancelled(d).u = d.u
    BY <1>1, UncachingOps
  <2>2. Answered(MarkCancelled(d), Given)
    BY <1>1, <2>1, AnsweredSame
  <2>. QED
    BY <1>2, <2>2 DEF Written
<1>3. CASE c.op # "cancel"
  <2>1. c.op = "signal" /\ c.n \in Signal /\ c.v \in Value
    BY <1>3, SignalAssumption
  <2>2. PICK k \in Wait : k = d.ps[c.n].k /\ k.name = c.n
    <3>1. d.ps[c.n] # Absent
      BY <2>1 DEF SInv, CallsInv
    <3>. QED
      BY <1>1, <2>1, <3>1 DEF SoundState, EntriesOfWaits
  <2>3. <<k, c.v>> \in Given
    BY <2>1, <2>2 DEF Given
  <2>4. PICK f : f = SaveStepResult(d, k, c.v)
    OBVIOUS
  <2>5. Answered(f, Given) /\ SoundState(f)
    <3>1. k \in Key /\ c.v \in Value \cup {Undefined}
      BY <2>1, SignalAssumption
    <3>2. Answered(f, Given)
      BY <1>1, <2>1, <2>3, <2>4, AnsweredSave
    <3>3. SoundState(f)
      BY <1>1, <2>4, <3>1, ResultKeeps
    <3>. QED
      BY <3>2, <3>3
  <2>6. ClearPendingSignal(f, c.n).c = f.c /\ ClearPendingSignal(f, c.n).u = f.u
    BY <2>1, <2>5, ClearanceKeeps
  <2>7. Answered(ClearPendingSignal(f, c.n), Given)
    BY <2>5, <2>6, AnsweredSame
  <2>. QED
    BY <1>3, <2>2, <2>4, <2>7 DEF Written, DeliverSignal
<1>. QED
  BY <1>2, <1>3

(* Clients and time leave the frames of a run and its copy alone.          *)
LEMMA OthersAnswer ==
  ASSUME SInv, AnswersInv, frames' = frames, pc' = pc,
         Given \subseteq Given', expired' \subseteq lapsed',
         \A c \in Call : calls'[c].snap = calls[c].snap \/ Answered(calls'[c].snap, Given'),
         Answered(store', Given'), mem' = mem \/ (pc = "idle" /\ mem' = store')
  PROVE  AnswersInv'
<1>1. Answered(mem, Given') /\ Told(frames', Given') /\ Linked(frames')
  BY AnsweredMore DEF AnswersInv
<1>2. TimedOutOnTop'
  BY DEF AnswersInv, TimedOutOnTop, Waiting, Top
<1>3. Answered(mem', Given')
  BY <1>1
<1>. QED
  BY <1>1, <1>2, <1>3, AnswersKeep

LEMMA ClientAnswers ==
  ASSUME SInv, AnswersInv, (\E c \in Call : Read(c)) \/ ClientStep
  PROVE  AnswersInv'
<1>1. \A G : Answered(InitialState, G)
  BY SignalAssumption DEF Answered, Cached, InitialState
<1>2. frames' = frames /\ pc' = pc /\ expired' = expired /\ lapsed' = lapsed
  BY DEF Read, ClientStep, Write, Promote, deadlines, vars, context
<1>3. ASSUME NEW c \in Call, NEW x, calls' = [calls EXCEPT ![c] = x], x.at # "new"
      PROVE  /\ Given \subseteq Given'
             /\ \A e \in Call : e # c => calls'[e] = calls[e]
             /\ calls'[c] = x
  <2>1. \A e \in Call : calls'[e] = IF e = c THEN x ELSE calls[e]
    BY <1>3 DEF SInv, CallsInv
  <2>. QED
    BY <1>2, <1>3, <2>1, GivenGrows
<1>4. ASSUME NEW c \in Call, Read(c)
      PROVE  AnswersInv'
  <2>. DEFINE x == [at |-> "read", snap |-> store]
  <2>1. calls' = [calls EXCEPT ![c] = x] /\ store' = store /\ mem' = mem
    BY <1>4 DEF Read, vars
  <2>2. x.at # "new" /\ x.snap = store
    OBVIOUS
  <2>. HIDE DEF x
  <2>3. /\ Given \subseteq Given' /\ calls'[c] = x
        /\ \A e \in Call : e # c => calls'[e] = calls[e]
    BY <1>3, <2>1, <2>2
  <2>4. Answered(store, Given')
    BY <2>3, AnsweredMore DEF AnswersInv
  <2>5. \A e \in Call : calls'[e].snap = calls[e].snap \/ Answered(calls'[e].snap, Given')
    BY <2>2, <2>3, <2>4
  <2>. QED
    BY <1>2, <2>1, <2>3, <2>4, <2>5, OthersAnswer DEF AnswersInv
<1>5. ASSUME NEW c \in Call, Write(c) \/ Promote(c)
      PROVE  AnswersInv'
  <2>1. PICK at \in {"written", "done"} : Reached(c, at)
    BY <1>5 DEF Write, Promote
  <2>. DEFINE x == [at |-> at, snap |-> InitialState]
  <2>2. calls' = [calls EXCEPT ![c] = x]
    BY <2>1 DEF Reached
  <2>3. x.at # "new" /\ x.snap = InitialState
    OBVIOUS
  <2>. HIDE DEF x
  <2>4. /\ Given \subseteq Given' /\ calls'[c] = x
        /\ \A e \in Call : e # c => calls'[e] = calls[e]
    BY <1>3, <2>2, <2>3
  <2>5. \A e \in Call : calls'[e].snap = calls[e].snap \/ Answered(calls'[e].snap, Given')
    BY <1>1, <2>3, <2>4
  <2>6. Answered(store', Given) /\ (mem' = mem \/ (pc = "idle" /\ mem' = store'))
    <3>1. CASE Write(c)
      BY <3>1, WrittenAnswers DEF Write, AnswersInv
    <3>2. CASE Promote(c)
      BY <3>2 DEF Promote, durable, AnswersInv
    <3>. QED
      BY <1>5, <3>1, <3>2
  <2>7. Answered(store', Given')
    BY <2>4, <2>6, AnsweredMore
  <2>. QED
    BY <1>2, <2>4, <2>5, <2>6, <2>7, OthersAnswer DEF AnswersInv
<1>. QED
  BY <1>4, <1>5 DEF ClientStep

(* Deadlines that pass have passed for good.                               *)
LEMMA TimeAnswers ==
  ASSUME SInv, AnswersInv, Due \/ \E k \in Wait : Elapse(k)
  PROVE  AnswersInv'
<1>1. /\ UNCHANGED vars /\ calls' = calls /\ lapsed \subseteq lapsed'
      /\ expired' \subseteq lapsed'
  BY DEF Due, Elapse, AnswersInv
<1>2. Given \subseteq Given'
  BY <1>1, GivenGrows
<1>3. frames' = frames /\ pc' = pc /\ store' = store /\ mem' = mem
  BY <1>1 DEF vars
<1>4. Answered(store', Given')
  BY <1>2, <1>3, AnsweredMore DEF AnswersInv
<1>. QED
  BY <1>1, <1>2, <1>3, <1>4, OthersAnswer

(* A run begins with what Redis has, and ends with it.                     *)
LEMMA RunAnswers ==
  ASSUME SInv, AnswersInv, SignalRun \/ SignalCrash
  PROVE  AnswersInv'
<1>1. /\ store' = store /\ mem' \in {mem, store}
      /\ calls' = calls /\ expired' = expired /\ lapsed' = lapsed
      /\ frames' = frames \/ frames' = <<>>
  BY DEF SignalRun, SignalCrash, Run, Crash, EndRun, durable, context, signalVars
<1>2. Given \subseteq Given' /\ expired' \subseteq lapsed'
  BY <1>1, GivenGrows DEF AnswersInv
<1>3. Answered(store', Given') /\ Answered(mem', Given')
  BY <1>1, <1>2, AnsweredMore DEF AnswersInv
<1>4. Told(frames', Given') /\ Linked(frames')
  BY <1>1, <1>2, AnsweredMore, ToldNothing DEF AnswersInv
<1>5. TimedOutOnTop'
  BY DEF SignalRun, SignalCrash, Run, Crash, EndRun, TimedOutOnTop, Waiting
<1>. QED
  BY <1>1, <1>2, <1>3, <1>4, <1>5, AnswersKeep

LEMMA NextAnswers ==
  ASSUME OneStepPerPlace, DeadlinesOfOneWait
  PROVE  SInv /\ AnswersInv /\ [SignalNext]_allVars => AnswersInv'
<1>. SUFFICES ASSUME SInv, AnswersInv, [SignalNext]_allVars
              PROVE  AnswersInv'
  OBVIOUS
<1>1. CASE SignalRun \/ SignalCrash
  BY <1>1, RunAnswers
<1>2. CASE WorkerStep
  BY <1>2, WorkerAnswers
<1>3. CASE WaitStep
  BY <1>3, WaitAnswers
<1>4. CASE Due \/ \E k \in Wait : Elapse(k)
  BY <1>4, TimeAnswers
<1>5. CASE (\E c \in Call : Read(c)) \/ ClientStep
  BY <1>5, ClientAnswers
<1>6. CASE UNCHANGED allVars
  <2>1. /\ frames' = frames /\ pc' = pc /\ store' = store /\ mem' = mem
        /\ calls' = calls /\ expired' = expired /\ lapsed' = lapsed
    BY <1>6 DEF allVars, vars, signalVars
  <2>2. Given \subseteq Given'
    BY <2>1, GivenGrows
  <2>3. Answered(store', Given')
    BY <2>1, <2>2, AnsweredMore DEF AnswersInv
  <2>. QED
    BY <2>1, <2>2, <2>3, OthersAnswer DEF AnswersInv
<1>. QED
  BY <1>1, <1>2, <1>3, <1>4, <1>5, <1>6 DEF SignalNext, Ended, allVars

(* Where no two steps share a place, and a wait with a deadline shares its *)
(* signal with no other one, a body gets from waitForSignal only what a    *)
(* client sent for it, or null after its deadline: no stale state of a     *)
(* client makes up an answer.                                              *)
THEOREM WaitsGetGenuineAnswers ==
  ASSUME OneStepPerPlace, DeadlinesOfOneWait
  PROVE  SignalSpec => []AnswersAreGenuine
<1>1. SignalInit => AnswersInv
  <2>. SUFFICES ASSUME SignalInit PROVE AnswersInv
    OBVIOUS
  <2>1. /\ store = InitialState /\ mem = InitialState /\ frames = <<>> /\ pc = "idle"
        /\ expired = {} /\ \A c \in Call : calls[c].snap = InitialState
    BY DEF SignalInit, Init
  <2>2. Answered(InitialState, Given)
    BY SignalAssumption DEF Answered, Cached, InitialState
  <2>3. TimedOutOnTop
    BY <2>1 DEF TimedOutOnTop, Waiting
  <2>. QED
    BY <2>1, <2>2, <2>3, ToldNothing DEF AnswersInv
<1>2. SInv /\ AnswersInv /\ [SignalNext]_allVars => AnswersInv'
  BY NextAnswers
<1>3. SInv /\ AnswersInv => AnswersAreGenuine
  <2>. SUFFICES ASSUME SInv, AnswersInv, NEW i \in DOMAIN frames, NEW n \in DOMAIN frames[i].obs,
                       NEW k \in Wait, k.path = Append(frames[i].key.path, n - 1)
                PROVE  \/ frames[i].obs[n] = Null /\ k \in lapsed
                       \/ \E c \in Call : /\ c.op = "signal" /\ c.n = k.name
                                          /\ c.v = frames[i].obs[n] /\ calls[c].at # "new"
    BY DEF AnswersAreGenuine
  <2>1. i \in 1 .. Len(frames) /\ frames[i] \in Frame
    BY DEF SInv, ControlType
  <2>2. n \in 1 .. Len(frames[i].obs)
    BY <2>1 DEF Frame
  <2>3. <<k, frames[i].obs[n]>> \in Given
    BY <2>1, <2>2 DEF AnswersInv, Told
  <2>. QED
    BY <2>3 DEF Given
<1>. QED
  BY <1>1, <1>2, <1>3, SignalInvariant, PTL DEF SignalSpec

-----------------------------------------------------------------------------
(* Calls and runs kept apart: the job is a durable execution *)

(* A client that has read the state writes to the state it read.           *)
CallsApart ==
  /\ pc # "idle" => UnderWay = {}
  /\ \A c, e \in UnderWay : c = e
  /\ \A c \in Call : calls[c].at = "read" =>
       calls[c].snap = store /\ (c.op = "cancel" => store.s = "pending")

(* The waits that have an entry have no answer yet.                        *)
Unanswered(d) == \A n \in Signal : d.ps[n] # Absent => ~Cached(d, d.ps[n].k)

(* So a signal decides its wait for the first time, and comes when the job *)
(* has begun.                                                              *)
WaitsOpen ==
  /\ Unanswered(store) /\ Unanswered(mem)
  /\ store.s \in {"pending", "cancelled"} =>
       \A n \in Signal : store.ps[n] = Absent /\ mem.ps[n] = Absent

FailedHasNoResult == store.s = "failed" => store.r = Undefined

(* What the engine keeps when it is alone, it keeps beside such clients.   *)
OrderlyInv == SInv /\ DurableInv /\ CallsApart /\ WaitsOpen /\ FailedHasNoResult

(* No step of the worker, and none of a wait, finds the job idle.          *)
LEMMA WorkerRuns == Worker \/ WaitStep => pc # "idle"
<1>1. Calls \/ Steps => pc # "idle"
  BY DEF Calls, Steps, ReplayStep, TraceStep, DivergeStep, CompleteStep, Throw, ChargeFailure,
     Rethrow
<1>2. Returning => pc # "idle"
  BY DEF Returning, CanReturn, ReturnDiverged, Complete, StoreResult, ReturnUnserializable,
     ReturnFromProbe, Publish, Finalize
<1>3. Catching => pc # "idle"
  BY DEF Catching, FailProbe, Park, RetryStep, RetryWorkflow, Fail, HandleFailure
<1>4. BeginAttempt \/ ResumePublishing => pc # "idle"
  BY DEF BeginAttempt, ResumePublishing
<1>5. WaitStep => pc # "idle"
  BY DEF WaitStep, RegisterWait, WaitOn, TimeOut, ClearTimedOut, Waiting
<1>. QED
  BY <1>1, <1>2, <1>3, <1>4, <1>5 DEF Worker

(* Without deadlines a wait is registered, or goes on.                     *)
LEMMA WaitsAsk ==
  ASSUME Timed = {}, SInv, DurableInv, WaitStep
  PROVE  RegisterWait \/ WaitOn
<1>1. ASSUME TimeOut
      PROVE  FALSE
  <2>1. Top.key.name \in Signal
    BY <1>1, WaitOnTop DEF TimeOut
  <2>2. EntriesOfWaits(mem)
    BY DEF SInv, SoundState
  <2>. QED
    BY <1>1, <2>1, <2>2 DEF TimeOut, Overdue, EntriesOfWaits
<1>2. ASSUME ClearTimedOut
      PROVE  FALSE
  <2>1. Waiting /\ Cached(mem, Top.key)
    BY <1>2 DEF ClearTimedOut
  <2>2. frames \in Seq(Frame) /\ Stack(frames) /\ Top.key \in Wait
    BY <2>1, WaitOnTop
  <2>3. Fresh(mem, frames, Len(frames))
    BY <2>1 DEF DurableInv, IInv, FramesInv, Waiting
  <2>. QED
    BY <2>1, <2>2, <2>3, FreshTop DEF Top
<1>. QED
  BY <1>1, <1>2 DEF WaitStep

-----------------------------------------------------------------------------
(* The steps of the engine, and of its waits *)

(* What the engine alone keeps, the worker keeps here.                     *)
LEMMA EngineKeepsDurable ==
  ASSUME ResultsSerialize, DurableInv, FailedHasNoResult, [Next]_vars
  PROVE  /\ DurableInv' /\ FailedHasNoResult' /\ [Durable!Next]_(Durable!vars)
         /\ StatusChange
<1>. USE DEF DurableInv
<1>1. IInv'
  BY NextInv
<1>2. ReplayInv' /\ RunStatus' /\ ResultInv' /\ ResultStatus'
  BY <1>1, NextReplays, NextRunStatus, NextResults, NextResultStatus
<1>3. StatusChange
  BY StepChangesStatus
<1>4. FailedHasNoResult'
  <2>1. MarkCancelled(store).s = "cancelled"
    BY StatusOps DEF IInv, StateInv
  <2>. QED
    BY <1>3, <2>1 DEF StatusChange, FailedHasNoResult
<1>5. DurableInv'
  BY <1>1, <1>2
<1>6. [Durable!Next]_(Durable!vars)
  <2>. HIDE DEF DurableInv
  <2>. QED
    BY <1>5, StepRefines
<1>. QED
  BY <1>3, <1>4, <1>5, <1>6

(* What a wait does to the state, and where its error goes.                *)
LEMMA WaitWrites ==
  ASSUME SInv, RegisterWait \/ WaitOn
  PROVE  /\ Waiting /\ \E kind \in ErrorKind : Deliver(Front(frames), kind)
         /\ mem'.c = mem.c /\ mem'.u = mem.u /\ mem'.s = mem.s /\ mem'.r = mem.r
         /\ store' \in {store, mem'}
         /\ UNCHANGED <<resultQ, probing, calls>>
<1>1. CASE RegisterWait
  <2>. DEFINE k == Top.key
              b == k \in Timed
              d == SavePendingSignal(mem, k.name, k, b)
  <2>1. Waiting /\ k \in Wait
    BY <1>1, WaitOnTop DEF RegisterWait
  <2>2. d.c = mem.c /\ d.u = mem.u
    BY <2>1, RegistrationKeeps DEF SInv
  <2>3. d.s = mem.s /\ d.r = mem.r
    <3>. HIDE DEF b
    <3>. QED
      BY DEF SavePendingSignal, SInv, SoundState, State
  <2>4. /\ FlushOk(d, TRUE) \/ FlushFails(d, TRUE)
        /\ Deliver(Front(frames), "sleep") \/ Deliver(Front(frames), "error")
        /\ UNCHANGED <<resultQ, probing, calls>>
    BY <1>1 DEF RegisterWait, RequestWait, WaitFails
  <2>. HIDE DEF d, k, b
  <2>5. mem' = d /\ store' \in {store, d}
    BY <2>4, FlushEffect DEF SInv
  <2>. QED
    BY <2>1, <2>2, <2>3, <2>4, <2>5 DEF ErrorKind
<1>2. CASE WaitOn
  BY <1>2 DEF WaitOn, RequestWait, durable, ErrorKind
<1>. QED
  BY <1>1, <1>2

(* A wait leaves the decisions alone, in memory and in Redis.              *)
LEMMA WaitKeepsDurable ==
  ASSUME SInv, DurableInv, FailedHasNoResult, RegisterWait \/ WaitOn
  PROVE  /\ DurableInv' /\ FailedHasNoResult' /\ [Durable!Next]_(Durable!vars)
         /\ store.s = "running" /\ store'.s = "running"
<1>1. SInv' /\ FramesInv'
  BY RegisterStep, WaitOnStep
<1>2. /\ Waiting
      /\ mem'.c = mem.c /\ mem'.u = mem.u /\ mem'.s = mem.s /\ mem'.r = mem.r
      /\ store' \in {store, mem'}
      /\ resultQ' = resultQ /\ probing' = probing /\ calls' = calls
  BY WaitWrites
<1>3. PICK kind \in ErrorKind : Deliver(Front(frames), kind)
  BY WaitWrites
<1>4. /\ frames \in Seq(Frame) /\ Stack(frames) /\ Len(frames) \in Nat /\ Len(frames) >= 2
      /\ Front(frames) \in Seq(Frame) /\ Stack(Front(frames))
  BY <1>2, WaitOnTop
<1>5. pc = "body" /\ ~probing /\ mem.s = "running" /\ store.s = "running"
  <2>1. pc = "body"
    BY <1>2 DEF Waiting
  <2>2. probing => Len(frames) = 1
    BY <2>1 DEF DurableInv, RunStatus
  <2>3. PICK n \in Nat : n = Len(frames) /\ n >= 2
    BY <1>4
  <2>4. n # 1
    BY <2>3
  <2>. QED
    BY <2>1, <2>2, <2>3, <2>4 DEF DurableInv, RunStatus
<1>6. mem'.s = "running" /\ store'.s = "running"
  BY <1>2, <1>5
<1>7. Preserves(mem, mem') /\ Preserves(store, mem)
  BY <1>2, SameCache DEF DurableInv, IInv, StateInv
<1>8. store \in State /\ mem \in State /\ store' \in State /\ mem' \in State
  BY <1>1 DEF SInv, SoundState
<1>9. Preserves(store, mem') /\ Preserves(store, store') /\ Preserves(store', mem')
  <2>1. Preserves(store, mem')
    BY <1>7, <1>8, PreservesTransitive
  <2>. QED
    BY <1>2, <2>1, PreservesReflexive
<1>10. IInv'
  BY <1>1, <1>9 DEF IInv, StateInv, SInv, SoundState
<1>11. ReplayInv'
  <2>1. Chain(frames) /\ Replays(store, mem, frames)
    BY <1>5 DEF DurableInv, ReplayInv
  <2>2. Unwinds(store, mem, frames)
    BY <1>4, <2>1, ReplaysUnwinds
  <2>3. Unwinds(store', mem', frames)
    BY <1>2, <2>2, SameCacheReplays
  <2>. QED
    BY <1>3, <1>4, <2>1, <2>3, DeliverFromWrapper
<1>12. RunStatus'
  BY <1>2, <1>3, <1>4, <1>5, <1>6, DeliverStatus DEF DurableInv
<1>13. ResultInv'
  <2>1. /\ store.r \in Seq(Observation) \cup {Undefined}
        /\ mem.r \in Seq(Observation) \cup {Undefined}
        /\ resultQ.result \in Seq(Observation) \cup {Undefined}
    BY <1>8 DEF State, SInv, ControlType
  <2>2. /\ ResultKept(store', store.r) /\ ResultKept(store', mem.r)
        /\ ResultKept(store', resultQ.result)
    BY <1>9, <2>1, ResultsStay DEF DurableInv, ResultInv
  <2>. QED
    BY <1>2, <2>2 DEF ResultInv
<1>14. ResultStatus'
  <2>1. pc' # "finalize"
    BY <1>3 DEF Deliver
  <2>. QED
    BY <1>2, <1>6, <2>1 DEF DurableInv, ResultStatus
<1>15. [Durable!Next]_(Durable!vars)
  BY <1>2, <1>5, <1>6, <1>9, <1>10, <1>13, <1>14, WriteRefines DEF DurableInv, StatusChange
<1>. QED
  BY <1>5, <1>6, <1>10, <1>11, <1>12, <1>13, <1>14, <1>15 DEF DurableInv, FailedHasNoResult

-----------------------------------------------------------------------------
(* Waits are answered once *)

(* The worker saves the results of other steps only.                       *)
LEMMA WorkerLeavesWaits ==
  ASSUME SInv, ~Waiting, Unanswered(mem), NEW d, Safe(d)
  PROVE  Unanswered(d)
<1>. SUFFICES ASSUME NEW n \in Signal, d.ps[n] # Absent, Cached(d, d.ps[n].k)
              PROVE  FALSE
  BY DEF Unanswered
<1>1. PICK k \in Wait : k = d.ps[n].k /\ ~Cached(mem, k)
  BY DEF Safe, SInv, SoundState, EntriesOfWaits, Unanswered
<1>2. k \in Key \ Running
  BY SignalAssumption DEF Waiting, Running
<1>. QED
  BY <1>1, <1>2 DEF Safe, Retains, Keeps

LEMMA WorkerKeepsOpen ==
  ASSUME SInv, WaitsOpen, WorkerStep, StatusChange
  PROVE  WaitsOpen'
<1>1. ~Waiting /\ Moves
  BY RunInvOfSInv, WorkerMoves DEF WorkerStep
<1>2. PICK d : Safe(d) /\ store' \in {store, d} /\ mem' \in {d, store'}
  BY <1>1 DEF Moves
<1>3. Unanswered(d) /\ Unanswered(store)
  BY <1>1, <1>2, WorkerLeavesWaits DEF WaitsOpen
<1>4. Unanswered(store') /\ Unanswered(mem')
  BY <1>2, <1>3
<1>5. ASSUME store'.s \in {"pending", "cancelled"}, NEW n \in Signal
      PROVE  store'.ps[n] = Absent /\ mem'.ps[n] = Absent
  <2>1. store.s \in {"pending", "cancelled"} /\ store'.ps = store.ps
    BY <1>5, PendingStays DEF StatusChange, SInv, SoundState
  <2>2. store.ps[n] = Absent /\ mem.ps[n] = Absent
    BY <2>1 DEF WaitsOpen
  <2>3. d.ps = mem.ps
    BY <1>2 DEF Safe
  <2>. QED
    BY <1>2, <2>1, <2>2, <2>3
<1>. QED
  BY <1>4, <1>5 DEF WaitsOpen

(* A wait is registered before it has an answer.                           *)
LEMMA WaitKeepsOpen ==
  ASSUME SInv, WaitsOpen, RegisterWait \/ WaitOn, store'.s = "running"
  PROVE  WaitsOpen'
<1>1. CASE WaitOn
  BY <1>1 DEF WaitOn, durable, WaitsOpen
<1>2. CASE RegisterWait
  <2>. DEFINE k == Top.key
              b == k \in Timed
              d == SavePendingSignal(mem, k.name, k, b)
  <2>1. k \in Wait /\ k.name \in Signal /\ ~Cached(mem, k)
    BY <1>2, WaitOnTop DEF RegisterWait
  <2>2. d.c = mem.c /\ d.u = mem.u /\ d.ps[k.name].k = k
    BY <2>1, RegistrationKeeps DEF SInv
  <2>3. \A n \in Signal \ {k.name} : d.ps[n] = mem.ps[n]
    <3>. HIDE DEF b, k
    <3>. QED
      BY <2>1 DEF SavePendingSignal, SInv, SoundState, State
  <2>4. FlushOk(d, TRUE) \/ FlushFails(d, TRUE)
    BY <1>2 DEF RegisterWait
  <2>. HIDE DEF d, k, b
  <2>5. mem' = d /\ store' \in {store, d}
    BY <2>4, FlushEffect DEF SInv
  <2>6. Unanswered(d)
    BY <2>1, <2>2, <2>3, SameCache DEF WaitsOpen, Unanswered
  <2>. QED
    BY <2>5, <2>6 DEF WaitsOpen
<1>. QED
  BY <1>1, <1>2

(* A signal answers the wait it was sent for, and no other one.            *)
LEMMA DeliveryAnswers ==
  ASSUME NEW d, SoundState(d), Unanswered(d), NEW n \in Signal, d.ps[n] # Absent, NEW v \in Value
  PROVE  LET f == DeliverSignal(d, n, v) IN
         Preserves(d, f) /\ f.s = d.s /\ f.r = d.r /\ Unanswered(f)
<1>. DEFINE f == DeliverSignal(d, n, v)
<1>1. PICK k \in Wait : k = d.ps[n].k /\ k.name = n /\ ~Cached(d, k)
  BY DEF SoundState, EntriesOfWaits, Unanswered
<1>2. k \in Key /\ v \in Value \cup {Undefined} /\ d \in State
  BY SignalAssumption DEF SoundState
<1>3. PICK g : g = SaveStepResult(d, k, v)
  OBVIOUS
<1>4. f = ClearPendingSignal(g, n)
  BY <1>1, <1>3 DEF DeliverSignal
<1>5. SoundState(g) /\ g.ps = d.ps /\ g.s = d.s /\ g.r = d.r
  BY <1>2, <1>3, ResultKeeps, PendingStays, StatusOps
<1>6. f.c = g.c /\ f.u = g.u
  BY <1>4, <1>5, ClearanceKeeps
<1>7. f.s = g.s /\ f.r = g.r /\ \A m \in Signal : f.ps[m] = IF m = n THEN Absent ELSE g.ps[m]
  BY <1>4, <1>5 DEF ClearPendingSignal, SoundState, State
<1>8. Preserves(d, f)
  BY <1>1, <1>2, DeliveryPreserves
<1>9. \A j \in Key : j # k /\ Cached(g, j) => Cached(d, j)
  BY <1>1, <1>2, <1>3, SavePreserves
<1>. HIDE DEF f
<1>10. ASSUME NEW m \in Signal, f.ps[m] # Absent
       PROVE  ~Cached(f, f.ps[m].k)
  <2>1. m # n /\ f.ps[m] = d.ps[m]
    BY <1>5, <1>7, <1>10
  <2>2. PICK j \in Wait : j = d.ps[m].k /\ j.name = m /\ ~Cached(d, j)
    BY <1>10, <2>1 DEF SoundState, EntriesOfWaits, Unanswered
  <2>3. j \in Key /\ j # k
    BY <1>1, <2>1, <2>2, SignalAssumption
  <2>4. ~Cached(g, j)
    BY <1>9, <2>2, <2>3
  <2>5. ~Cached(f, j)
    BY <1>6, <2>4, SameCache
  <2>. QED
    BY <2>1, <2>2, <2>5
<1>. QED
  BY <1>5, <1>7, <1>8, <1>10 DEF f, Unanswered

-----------------------------------------------------------------------------
(* The steps of clients *)

(* A write while no run is under way is one to memory, too: the next run   *)
(* begins with it.                                                         *)
LEMMA IdleWriteKeeps ==
  ASSUME DurableInv, pc = "idle", UNCHANGED <<resultQ, pc, context, failures, err, outcome>>,
         ControlType', store' \in State, WithinBudget(store'), mem' = store',
         Preserves(store, store'),
         \/ store'.s = store.s /\ store'.r = store.r
         \/ store.s = "pending" /\ store'.s = "cancelled" /\ store'.r = Undefined
  PROVE  DurableInv'
<1>1. pc' = "idle" /\ resultQ' = resultQ /\ probing' = probing /\ outcome' = outcome
  BY DEF context
<1>2. IInv'
  <2>1. Preserves(store', mem')
    BY PreservesReflexive
  <2>2. WithinBudget(mem')
    BY DEF WithinBudget
  <2>. QED
    BY <1>1, <2>1, <2>2 DEF IInv, StateInv, FramesInv, WithinBudget
<1>3. ReplayInv'
  BY <1>1 DEF ReplayInv
<1>4. mem = store
  BY DEF DurableInv, RunStatus
<1>5. RunStatus'
  BY <1>1, <1>4 DEF DurableInv, RunStatus
<1>6. ResultInv'
  <2>1. /\ store.r \in Seq(Observation) \cup {Undefined}
        /\ resultQ.result \in Seq(Observation) \cup {Undefined}
    BY DEF DurableInv, IInv, StateInv, State, ControlType
  <2>2. ResultKept(store', store.r) /\ ResultKept(store', resultQ.result)
    BY <2>1, ResultsStay DEF DurableInv, ResultInv
  <2>3. ResultKept(store', Undefined)
    BY DEF ResultKept
  <2>. QED
    BY <1>1, <2>2, <2>3 DEF ResultInv
<1>7. ResultStatus'
  BY <1>1, <1>4 DEF DurableInv, ResultStatus
<1>. QED
  BY <1>2, <1>3, <1>5, <1>6, <1>7 DEF DurableInv

(* A client whose call is under way has the job to itself.                 *)
LEMMA ClientAlone ==
  ASSUME SInv, CallsApart, NEW c \in UnderWay, NEW at \in {"written", "done"}, Reached(c, at),
         pc' = pc
  PROVE  CallsApart'
<1>. DEFINE x == [at |-> at, snap |-> InitialState]
<1>1. calls' = [calls EXCEPT ![c] = x] /\ x.at # "read" /\ c \in Call
  BY DEF Reached, UnderWay
<1>. HIDE DEF x
<1>2. \A e \in Call : calls'[e] = IF e = c THEN x ELSE calls[e]
  BY <1>1 DEF SInv, CallsInv
<1>3. UnderWay \subseteq {c} /\ pc = "idle"
  BY DEF CallsApart
<1>4. UnderWay' \subseteq {c}
  BY <1>2, <1>3 DEF UnderWay
<1>5. \A e \in Call : calls'[e].at # "read"
  BY <1>1, <1>2, <1>3 DEF UnderWay
<1>. QED
  BY <1>3, <1>4, <1>5 DEF CallsApart

(* The write of a client decides the wait it was sent for, or cancels a    *)
(* job that has not begun.                                                 *)
LEMMA WrittenDecides ==
  ASSUME OrderlyInv, NEW c \in Call, calls[c].at = "read"
  PROVE  LET f == Written(c) IN
         /\ Preserves(store, f) /\ Unanswered(f)
         /\ \/ f.s = store.s /\ f.r = store.r /\ store.s \notin {"pending", "cancelled"}
            \/ store.s = "pending" /\ f = MarkCancelled(store)
<1>1. SoundState(store) /\ store \in State /\ Unanswered(store)
  BY DEF OrderlyInv, SInv, SoundState, WaitsOpen
<1>2. calls[c].snap = store /\ (c.op = "cancel" => store.s = "pending")
  BY DEF OrderlyInv, CallsApart
<1>3. CASE c.op = "cancel"
  <2>1. Written(c) = MarkCancelled(store) /\ store.s = "pending"
    BY <1>2, <1>3 DEF Written
  <2>2. MarkCancelled(store).c = store.c /\ MarkCancelled(store).u = store.u
        /\ MarkCancelled(store).ps = store.ps
    BY <1>1, UncachingOps, PendingStays
  <2>. QED
    BY <1>1, <2>1, <2>2, SameCache DEF Unanswered
<1>4. CASE c.op # "cancel"
  <2>1. c.op = "signal" /\ c.n \in Signal /\ c.v \in Value
    BY <1>4, SignalAssumption
  <2>2. store.ps[c.n] # Absent
    BY <1>2, <2>1 DEF OrderlyInv, SInv, CallsInv
  <2>3. store.s \notin {"pending", "cancelled"}
    BY <2>1, <2>2 DEF OrderlyInv, WaitsOpen
  <2>4. Written(c) = DeliverSignal(store, c.n, c.v)
    BY <1>2, <1>4 DEF Written
  <2>. QED
    BY <1>1, <2>1, <2>2, <2>3, <2>4, DeliveryAnswers
<1>. QED
  BY <1>3, <1>4

(* It is a step of the durable execution, whatever becomes of the write.   *)
LEMMA WriteKeepsDurable ==
  ASSUME OrderlyInv, NEW c \in Call, Write(c)
  PROVE  OrderlyInv' /\ [Durable!Next]_(Durable!vars)
<1>1. SInv'
  BY WriteKeepsSound DEF OrderlyInv
<1>2. c \in UnderWay /\ pc = "idle" /\ mem = store
  BY DEF OrderlyInv, CallsApart, DurableInv, RunStatus, Write, UnderWay
<1>3. /\ calls[c].at = "read" /\ store' \in {store, Written(c)} /\ mem' = store'
      /\ \E at \in {"written", "done"} : Reached(c, at)
      /\ UNCHANGED <<resultQ, pc, context, failures, err, outcome>>
  BY <1>2 DEF Write
<1>4. store \in State /\ store' \in State /\ WithinBudget(store') /\ ControlType'
  BY <1>1 DEF OrderlyInv, SInv, SoundState
<1>5. /\ Preserves(store, store') /\ Unanswered(store')
      /\ \/ store' = store
         \/ store'.s = store.s /\ store'.r = store.r /\ store.s \notin {"pending", "cancelled"}
         \/ store.s = "pending" /\ store' = MarkCancelled(store)
  BY <1>3, WrittenDecides, PreservesReflexive DEF OrderlyInv, WaitsOpen
<1>6. \/ store'.s = store.s /\ store'.r = store.r
      \/ store.s = "pending" /\ store'.s = "cancelled" /\ store'.r = Undefined
  BY <1>4, <1>5, StatusOps
<1>7. DurableInv'
  BY <1>2, <1>3, <1>4, <1>5, <1>6, IdleWriteKeeps DEF OrderlyInv
<1>8. CallsApart'
  BY <1>2, <1>3, ClientAlone DEF OrderlyInv
<1>9. WaitsOpen'
  <2>1. ASSUME store'.s \in {"pending", "cancelled"}
        PROVE  store'.ps = store.ps /\ store.s \in {"pending", "cancelled"}
    BY <1>4, <1>5, <2>1, PendingStays
  <2>. QED
    BY <1>3, <1>5, <2>1 DEF OrderlyInv, WaitsOpen
<1>10. FailedHasNoResult'
  BY <1>6 DEF OrderlyInv, FailedHasNoResult
<1>11. StatusChange
  <2>1. store.s \in Status
    BY <1>4 DEF State
  <2>2. store.s = "failed" => store.r = Undefined
    BY DEF OrderlyInv, FailedHasNoResult
  <2>. QED
    BY <1>5, <2>1, <2>2 DEF Status, StatusChange
<1>12. resultQ' = resultQ
  BY <1>3
<1>13. [Durable!Next]_(Durable!vars)
  BY <1>5, <1>7, <1>11, <1>12, WriteRefines DEF OrderlyInv, DurableInv
<1>. QED
  BY <1>1, <1>7, <1>8, <1>9, <1>10, <1>13 DEF OrderlyInv

(* What leaves the state, the control of the run and the queue alone.      *)
LEMMA OthersKeepDurable ==
  ASSUME OrderlyInv, SInv', CallsApart',
         UNCHANGED <<store, mem, resultQ, pc, context, failures, err, outcome>>
  PROVE  OrderlyInv' /\ [Durable!Next]_(Durable!vars)
<1>1. /\ store' = store /\ mem' = mem /\ resultQ' = resultQ /\ pc' = pc /\ frames' = frames
      /\ cursor' = cursor /\ probing' = probing /\ err' = err /\ outcome' = outcome
  BY DEF context
<1>2. ControlType'
  BY DEF SInv
<1>3. IInv'
  BY <1>1, <1>2 DEF OrderlyInv, DurableInv, IInv, StateInv, FramesInv
<1>4. ReplayInv' /\ RunStatus'
  BY <1>1 DEF OrderlyInv, DurableInv, ReplayInv, RunStatus
<1>5. ResultInv' /\ ResultStatus'
  BY <1>1 DEF OrderlyInv, DurableInv, ResultInv, ResultStatus
<1>6. WaitsOpen' /\ FailedHasNoResult'
  BY <1>1 DEF OrderlyInv, WaitsOpen, FailedHasNoResult
<1>7. UNCHANGED Durable!vars
  BY <1>1 DEF Durable!vars, Log
<1>. QED
  BY <1>3, <1>4, <1>5, <1>6, <1>7 DEF OrderlyInv, DurableInv

(* The read of a client, and what it does after its write.                 *)
LEMMA ClientKeepsDurable ==
  ASSUME Orderly, OrderlyInv, NEW c \in Call, Read(c) \/ Promote(c)
  PROVE  OrderlyInv' /\ [Durable!Next]_(Durable!vars)
<1>1. SInv'
  BY ReadKeeps, PromoteKeeps DEF OrderlyInv
<1>2. UNCHANGED <<store, mem, resultQ, pc, context, failures, err, outcome>>
  BY DEF Read, Promote, durable, vars, context
<1>3. CASE Promote(c)
  <2>1. c \in UnderWay /\ Reached(c, "done")
    BY <1>3 DEF Promote, UnderWay
  <2>2. CallsApart'
    BY <1>2, <2>1, ClientAlone DEF OrderlyInv
  <2>. QED
    BY <1>1, <1>2, <2>2, OthersKeepDurable
<1>4. CASE Read(c)
  <2>. DEFINE x == [at |-> "read", snap |-> store]
  <2>1. /\ calls' = [calls EXCEPT ![c] = x] /\ x.snap = store /\ x.at = "read"
        /\ pc = "idle" /\ UnderWay = {} /\ (c.op = "cancel" => store.s = "pending")
    BY <1>4 DEF Read, MayBegin
  <2>. HIDE DEF x
  <2>2. \A e \in Call : calls'[e] = IF e = c THEN x ELSE calls[e]
    BY <2>1 DEF OrderlyInv, SInv, CallsInv
  <2>3. UnderWay' \subseteq {c}
    BY <2>1, <2>2 DEF UnderWay
  <2>4. \A e \in Call : calls'[e].at = "read" => e = c
    BY <2>1, <2>2 DEF UnderWay
  <2>5. calls'[c].snap = store' /\ pc' = "idle" /\ store' = store
    BY <1>2, <2>1, <2>2
  <2>6. CallsApart'
    BY <2>1, <2>3, <2>4, <2>5 DEF CallsApart
  <2>. QED
    BY <1>1, <1>2, <2>6, OthersKeepDurable
<1>. QED
  BY <1>3, <1>4

-----------------------------------------------------------------------------
(* The refinement *)

(* A step that makes no call leaves the calls apart.                       *)
LEMMA CallsStayApart ==
  ASSUME CallsApart, calls' = calls, UnderWay = {} \/ (store' = store /\ pc' = pc)
  PROVE  CallsApart'
  BY DEF CallsApart, UnderWay

(* Every step keeps the invariant, and is one of the durable execution.    *)
LEMMA OrderlyNext ==
  ASSUME Orderly, Timed = {}, ResultsSerialize
  PROVE  OrderlyInv /\ [SignalNext]_allVars =>
           OrderlyInv' /\ [Durable!Next]_(Durable!vars)
<1>. SUFFICES ASSUME OrderlyInv, [SignalNext]_allVars
              PROVE  OrderlyInv' /\ [Durable!Next]_(Durable!vars)
  OBVIOUS
<1>1. SInv /\ SInv' /\ DurableInv /\ CallsApart /\ WaitsOpen /\ FailedHasNoResult
  BY SignalNextInv DEF OrderlyInv
<1>2. pc # "idle" => UnderWay = {}
  BY <1>1 DEF CallsApart
<1>3. CASE SignalRun \/ SignalCrash
  <2>1. [Next]_vars /\ calls' = calls
    BY <1>3 DEF SignalRun, SignalCrash, Next, signalVars
  <2>2. DurableInv' /\ FailedHasNoResult' /\ [Durable!Next]_(Durable!vars)
    BY <1>1, <2>1, EngineKeepsDurable
  <2>3. UnderWay = {}
    BY <1>2, <1>3 DEF SignalRun, SignalCrash, Crash
  <2>4. CallsApart'
    BY <1>1, <2>1, <2>3, CallsStayApart
  <2>5. store' = store /\ mem' \in {mem, store}
    BY <1>3 DEF SignalRun, SignalCrash, Run, Crash, EndRun, durable
  <2>6. WaitsOpen'
    BY <1>1, <2>5 DEF WaitsOpen
  <2>. QED
    BY <1>1, <2>2, <2>4, <2>6 DEF OrderlyInv
<1>4. CASE WorkerStep
  <2>1. [Next]_vars /\ calls' = calls /\ Worker
    BY <1>4 DEF WorkerStep, Next
  <2>2. DurableInv' /\ FailedHasNoResult' /\ [Durable!Next]_(Durable!vars) /\ StatusChange
    BY <1>1, <2>1, EngineKeepsDurable
  <2>3. CallsApart'
    BY <1>1, <1>2, <2>1, WorkerRuns, CallsStayApart
  <2>4. WaitsOpen'
    BY <1>1, <1>4, <2>2, WorkerKeepsOpen
  <2>. QED
    BY <1>1, <2>2, <2>3, <2>4 DEF OrderlyInv
<1>5. CASE WaitStep
  <2>1. RegisterWait \/ WaitOn
    BY <1>1, <1>5, WaitsAsk
  <2>2. calls' = calls
    BY <1>1, <2>1, WaitWrites
  <2>3. /\ DurableInv' /\ FailedHasNoResult' /\ [Durable!Next]_(Durable!vars)
        /\ store'.s = "running"
    BY <1>1, <2>1, WaitKeepsDurable
  <2>4. CallsApart'
    BY <1>1, <1>2, <1>5, <2>2, WorkerRuns, CallsStayApart
  <2>5. WaitsOpen'
    BY <1>1, <2>1, <2>3, WaitKeepsOpen
  <2>. QED
    BY <1>1, <2>3, <2>4, <2>5 DEF OrderlyInv
<1>6. CASE \/ Due \/ \E k \in Wait : Elapse(k)
           \/ Ended /\ UNCHANGED signalVars
           \/ UNCHANGED allVars
  <2>1. UNCHANGED vars /\ calls' = calls
    BY <1>6 DEF Due, Elapse, Ended, allVars, signalVars
  <2>2. UNCHANGED <<store, mem, resultQ, pc, context, failures, err, outcome>>
    BY <2>1 DEF vars, context
  <2>3. CallsApart'
    BY <1>1, <2>1, <2>2, CallsStayApart
  <2>. QED
    BY <1>1, <2>2, <2>3, OthersKeepDurable
<1>7. CASE (\E c \in Call : Read(c)) \/ ClientStep
  BY <1>7, ClientKeepsDurable, WriteKeepsDurable DEF ClientStep
<1>. QED
  BY <1>3, <1>4, <1>5, <1>6, <1>7 DEF SignalNext

LEMMA OrderlyInit == SignalInit => OrderlyInv
<1>. SUFFICES ASSUME SignalInit
              PROVE  OrderlyInv
  OBVIOUS
<1>1. /\ SInv /\ IInv /\ Init /\ \A c \in Call : calls[c].at = "new"
  BY SignalInitInv, InitInv DEF SignalInit
<1>2. /\ store = InitialState /\ mem = InitialState /\ pc = "idle" /\ probing = FALSE
      /\ outcome = "none" /\ resultQ = NoResultJob
  BY <1>1 DEF Init
<1>3. /\ InitialState.s = "pending" /\ InitialState.r = Undefined
      /\ \A n \in Signal : InitialState.ps[n] = Absent
      /\ NoResultJob.status = "none" /\ NoResultJob.result = Undefined
  BY DEF InitialState, NoResultJob
<1>4. ReplayInv /\ RunStatus /\ ResultInv /\ ResultStatus
  BY <1>2, <1>3 DEF ReplayInv, RunStatus, ResultInv, ResultKept, ResultStatus
<1>5. CallsApart
  BY <1>1, <1>2 DEF CallsApart, UnderWay
<1>6. WaitsOpen /\ FailedHasNoResult
  BY <1>2, <1>3 DEF WaitsOpen, Unanswered, FailedHasNoResult
<1>. QED
  BY <1>1, <1>4, <1>5, <1>6 DEF OrderlyInv, DurableInv

(* Where clients write to the state of a job while no run is under way, a  *)
(* job that waits for signals is the same durable execution as one that    *)
(* does not: a signal decides its wait once, and a cancellation comes      *)
(* before the first run.  (A wait that timed out keeps its entry when the  *)
(* worker stops between its two writes, and a signal that comes then puts  *)
(* its payload in place of the null that was decided: no deadlines here.)  *)
THEOREM SignalledJobIsDurable ==
  ASSUME Orderly, Timed = {}, ResultsSerialize
  PROVE  SignalSpec => DurableJob
<1>1. SignalInit => OrderlyInv /\ Durable!Init
  BY OrderlyInit, InitRefines DEF SignalInit
<1>2. OrderlyInv /\ [SignalNext]_allVars => OrderlyInv' /\ [Durable!Next]_(Durable!vars)
  BY OrderlyNext
<1>. QED
  BY <1>1, <1>2, PTL DEF SignalSpec, DurableJob, Durable!Spec

(* No code of such a job acts on an answer or a result that a crash could  *)
(* undo.                                                                   *)
THEOREM SignalledValuesAreDurable ==
  ASSUME Orderly, Timed = {}, ResultsSerialize
  PROVE  SignalSpec => []ObservedIsDurable
<1>1. SignalInit => OrderlyInv
  BY OrderlyInit
<1>2. OrderlyInv /\ [SignalNext]_allVars => OrderlyInv'
  BY OrderlyNext
<1>3. OrderlyInv => ObservedIsDurable
  BY ReplayIsDurable DEF OrderlyInv, DurableInv
<1>. QED
  BY <1>1, <1>2, <1>3, PTL DEF SignalSpec
=============================================================================
