------------------------- MODULE StepTimeoutProofs --------------------------
(***************************************************************************)
(* Theorems about StepTimeout for every plan of calls, any set of timed    *)
(* and of failing steps, any numbers of attempts and of crashes, and any   *)
(* number of bodies that go on after their step timed out.                 *)
(***************************************************************************)
EXTENDS StepTimeout, WorkflowStateStoreProofs

(* The keys are those that calls can get: nothing bounds the numbers of    *)
(* the calls that bodies of different attempts make in one context.        *)
EveryKey == Key = [path : Seq(Nat) \ {<<>>}, name : Name \ {"run"}]

(* A fiber with a body at the bottom and steps on top of it, one of which  *)
(* waits for a write.                                                      *)
Proper(g) ==
  /\ g \in Fiber
  /\ g.stack # <<>>
  /\ \A i \in 2 .. Len(g.stack) : g.stack[i].key \in Key
  /\ g.at \in {"enter", "save", "charge"} => Len(g.stack) >= 2

(* The frames of context c are those of the bodies s.                      *)
Mirrors(c, s) ==
  /\ Len(c.frames) = Len(s)
  /\ \A i \in 1 .. Len(s) : c.frames[i] = [path |-> s[i].key.path, next |-> s[i].calls]

OwnFrames(g, c) ==
  IF g.at = "enter" THEN Mirrors(c, Front(g.stack)) /\ Last(g.stack).calls = 0
  ELSE Mirrors(c, g.stack)

(* run() and the steps it waits for, as long as nothing went wrong.        *)
OnCourse(g) == g.main /\ g.at \in {"body", "enter", "save"}

(* An attempt that is on course shares its context with nobody: the body   *)
(* that goes on without its wrapper leaves the attempt failing.            *)
Threads(fs, cs) ==
  /\ cs \in Seq(Context) /\ \A c \in DOMAIN cs : cs[c].frames # <<>>
  /\ fs \in Seq(Fiber)
  /\ \A f \in DOMAIN fs : Proper(fs[f]) /\ fs[f].ctx \in DOMAIN cs
  /\ \A f \in DOMAIN fs : OnCourse(fs[f]) =>
       /\ OwnFrames(fs[f], cs[fs[f].ctx])
       /\ \A g \in DOMAIN fs \ {f} : fs[g].ctx # fs[f].ctx

WithinBudget(d) == \A k \in Key : d.a[k] < Attempts[k.name]

StatesInv ==
  /\ store \in State /\ mem \in State
  /\ WithinBudget(store) /\ WithinBudget(mem)

CountersInv ==
  /\ failures \in 0 .. WorkflowAttempts - 1
  /\ outcome \in {"none", "running", "resolved", "rejected", "crashed"}
  /\ crashes \in 0 .. MaxCrashes

IInv == StatesInv /\ Threads(fibers, contexts) /\ CountersInv

-----------------------------------------------------------------------------
(* Frames that mirror bodies *)

(* What the provers need of sequences that are not empty.                  *)
LEMMA FrontFacts ==
  ASSUME NEW S, NEW s \in Seq(S), s # <<>>
  PROVE  /\ Len(s) \in Nat /\ Len(s) >= 1 /\ Last(s) = s[Len(s)] /\ Last(s) \in S
         /\ Front(s) \in Seq(S) /\ Len(Front(s)) = Len(s) - 1
         /\ \A i \in 1 .. Len(s) - 1 : Front(s)[i] = s[i]
<1>1. Len(s) \in Nat /\ Len(s) >= 1 /\ \A i \in 1 .. Len(s) : s[i] \in S
  BY EmptySeq
<1>2. Last(s) = s[Len(s)] /\ Last(s) \in S
  BY <1>1 DEF Last
<1>3. PICK n \in Nat : n = Len(s) - 1
  BY <1>1
<1>4. 1 \in Int /\ n \in Int /\ \A i \in 1 .. n : s[i] \in S
  BY <1>1, <1>3
<1>5. PICK t : t = SubSeq(s, 1, n)
  OBVIOUS
<1>6. /\ t \in Seq(S) /\ Len(t) = IF 1 <= n THEN n - 1 + 1 ELSE 0
      /\ \A i \in 1 .. n - 1 + 1 : t[i] = s[1 + i - 1]
  BY <1>4, <1>5, SubSeqProperties
<1>7. Len(t) = n
  BY <1>6
<1>8. ASSUME NEW i \in 1 .. n
      PROVE  t[i] = s[i]
  <2>1. i \in 1 .. n - 1 + 1 /\ 1 + i - 1 = i
    OBVIOUS
  <2>. QED
    BY <1>6, <2>1
<1>9. Front(s) = t
  BY <1>3, <1>5 DEF Front
<1>. QED
  BY <1>1, <1>2, <1>3, <1>6, <1>7, <1>8, <1>9

(* The stack after its top body called a step with key k.                  *)
LEMMA CalledStack ==
  ASSUME NEW s \in Seq(Call), s # <<>>, NEW k \in Key
  PROVE  LET r == Called(s, k) IN
         /\ r \in Seq(Call) /\ r # <<>> /\ Len(r) = Len(s) + 1
         /\ Last(r) = [key |-> k, calls |-> 0]
         /\ \A i \in 1 .. Len(s) - 1 : r[i] = s[i]
         /\ r[Len(s)] = [key |-> Last(s).key, calls |-> Last(s).calls + 1]
<1>. DEFINE n == Len(s)
            b == [key |-> s[n].key, calls |-> s[n].calls + 1]
            t == [s EXCEPT ![n] = b]
            e == [key |-> k, calls |-> 0]
            r == Append(t, e)
<1>1. n \in Nat /\ n >= 1 /\ \A i \in 1 .. n : s[i] \in Call
  BY EmptySeq
<1>2. s[n] \in Call /\ b \in Call /\ e \in Call /\ Last(s) = s[n]
  BY <1>1 DEF Call, Last
<1>3. [s EXCEPT ![Len(s)].calls = @ + 1] = t
  <2>1. [s[n] EXCEPT !.calls = s[n].calls + 1] = b
    BY <1>2 DEF Call
  <2>2. [s EXCEPT ![n].calls = @ + 1] = [s EXCEPT ![n] = [s[n] EXCEPT !.calls = s[n].calls + 1]]
    OBVIOUS
  <2>. QED
    BY <2>1, <2>2
<1>4. /\ t \in Seq(Call) /\ Len(t) = n /\ t[n] = b
      /\ \A i \in 1 .. n - 1 : t[i] = s[i]
  BY <1>1, <1>2
<1>. HIDE DEF t, b, e
<1>5. /\ r \in Seq(Call) /\ Len(r) = n + 1 /\ r[n + 1] = e
      /\ \A i \in 1 .. n : r[i] = t[i]
  BY <1>2, <1>4, AppendProperties
<1>6. r # <<>> /\ Last(r) = e
  BY <1>1, <1>5 DEF Last
<1>7. r[n] = b /\ \A i \in 1 .. n - 1 : r[i] = s[i]
  BY <1>1, <1>4, <1>5
<1>. QED
  BY <1>2, <1>3, <1>5, <1>6, <1>7 DEF Called, b, e

(* The call is numbered in the frame of the body that makes it.            *)
LEMMA NumberedFrames ==
  ASSUME NEW c \in Context, c.frames # <<>>
  PROVE  LET d == Numbered(c) IN
         /\ d \in Context /\ d.frames # <<>> /\ Len(d.frames) = Len(c.frames)
         /\ \A i \in 1 .. Len(c.frames) - 1 : d.frames[i] = c.frames[i]
         /\ d.frames[Len(c.frames)] = [path |-> Last(c.frames).path, next |-> Last(c.frames).next + 1]
<1>. DEFINE n == Len(c.frames)
            b == [path |-> c.frames[n].path, next |-> c.frames[n].next + 1]
            t == [c.frames EXCEPT ![n] = b]
<1>1. c.frames \in Seq(Frame)
  BY DEF Context
<1>2. n \in Nat /\ n >= 1 /\ \A i \in 1 .. n : c.frames[i] \in Frame
  BY <1>1, EmptySeq
<1>3. c.frames[n] \in Frame /\ b \in Frame /\ Last(c.frames) = c.frames[n]
  BY <1>2 DEF Frame, Last
<1>4. /\ t \in Seq(Frame) /\ Len(t) = n /\ t[n] = b
      /\ \A i \in 1 .. n - 1 : t[i] = c.frames[i]
  BY <1>1, <1>2, <1>3
<1>5. Numbered(c) = [c EXCEPT !.frames = t]
  <2>1. [c.frames[n] EXCEPT !.next = c.frames[n].next + 1] = b
    BY <1>3 DEF Frame
  <2>2. Numbered(c) = [c EXCEPT !.frames =
                        [c.frames EXCEPT ![n] = [c.frames[n] EXCEPT !.next = c.frames[n].next + 1]]]
    BY DEF Numbered, Context
  <2>. QED
    BY <2>1, <2>2
<1>6. t # <<>>
  BY <1>2, <1>4
<1>. HIDE DEF t
<1>7. Numbered(c) \in Context /\ Numbered(c).frames = t
  BY <1>4, <1>5 DEF Context
<1>. QED
  BY <1>3, <1>4, <1>6, <1>7

LEMMA ExitFrames ==
  ASSUME NEW c \in Context, c.frames # <<>>
  PROVE  LET d == ExitStep(c) IN
         /\ d \in Context /\ d.frames # <<>>
         /\ d.frames = IF Len(c.frames) = 1 THEN c.frames ELSE Front(c.frames)
<1>1. c.frames \in Seq(Frame)
  BY DEF Context
<1>2. /\ Len(c.frames) \in Nat /\ Len(c.frames) >= 1
      /\ Front(c.frames) \in Seq(Frame) /\ Len(Front(c.frames)) = Len(c.frames) - 1
  BY <1>1, FrontFacts
<1>3. Len(c.frames) # 1 => Front(c.frames) # <<>>
  <2>1. \A n \in Nat : n >= 1 /\ n # 1 => n - 1 # 0
    OBVIOUS
  <2>2. Len(<<>>) = 0
    OBVIOUS
  <2>. QED
    BY <1>2, <2>1, <2>2
<1>. QED
  BY <1>2, <1>3 DEF ExitStep, Context

(* enterStep pushes a frame for the called step, and takes it off again    *)
(* when the step is cached.                                                *)
LEMMA EnteredFrames ==
  ASSUME mem \in State, NEW c \in Context, c.frames # <<>>, NEW k \in Key
  PROVE  LET d == Entered(c, k) IN
         /\ d \in Context /\ d.frames # <<>>
         /\ Cached(mem, k) => d.frames = c.frames
         /\ ~Cached(mem, k) => d.frames = Append(c.frames, [path |-> k.path, next |-> 0])
<1>. DEFINE e == [path |-> k.path, next |-> 0]
            i == c.cursor + 1
            m == Max({i, Len(mem.t)})
            S == {j \in i .. m : j >= Len(mem.t) \/ ~Below(k.path, mem.t[j + 1].path)}
            p == Append(c.frames, e)
<1>1. c.frames \in Seq(Frame) /\ i \in Nat /\ Len(mem.t) \in Nat /\ e \in Frame
  BY PathOfKey DEF Context, State, Frame
<1>2. p \in Seq(Frame) /\ Len(p) = Len(c.frames) + 1 /\ Front(p) = c.frames
  <2>1. /\ p \in Seq(Frame) /\ Len(p) = Len(c.frames) + 1
        /\ \A j \in 1 .. Len(c.frames) : p[j] = c.frames[j]
    BY <1>1, AppendProperties
  <2>. HIDE DEF p
  <2>2. Len(c.frames) \in Nat /\ p # <<>> /\ Len(p) - 1 = Len(c.frames)
    BY <1>1, <2>1
  <2>3. /\ Front(p) \in Seq(Frame) /\ Len(Front(p)) = Len(c.frames)
        /\ \A j \in 1 .. Len(c.frames) : Front(p)[j] = p[j]
    BY <2>1, <2>2, FrontFacts
  <2>4. Front(p) = c.frames
    BY <1>1, <2>1, <2>2, <2>3, SeqEqual
  <2>. QED
    BY <2>1, <2>4
<1>3. Min(S) \in Nat
  <2>1. \E x \in {i, Len(mem.t)} : \A y \in {i, Len(mem.t)} : x >= y
    BY <1>1
  <2>2. m \in {i, Len(mem.t)} /\ \A y \in {i, Len(mem.t)} : m >= y
    BY <2>1 DEF Max
  <2>3. m \in S /\ S \subseteq Nat
    <3>. HIDE DEF m
    <3>1. m \in Nat /\ m >= Len(mem.t) /\ m >= i
      BY <1>1, <2>2
    <3>2. m \in i .. m
      BY <1>1, <3>1
    <3>. QED
      BY <1>1, <3>1, <3>2
  <2>4. \E x \in S : \A y \in S : x <= y
    BY <2>3, LeastNatural
  <2>5. Min(S) \in S
    BY <2>4 DEF Min
  <2>. QED
    BY <2>3, <2>5
<1>4. Len(c.frames) \in Nat /\ Len(c.frames) >= 1
  BY <1>1, EmptySeq
<1>5. CASE Cached(mem, k)
  <2>. DEFINE f == [c EXCEPT !.frames = p, !.cursor = Min(S)]
  <2>1. Entered(c, k) = ExitStep(f)
    BY <1>5 DEF Entered, Context
  <2>. HIDE DEF p, S
  <2>2. f \in Context /\ f.frames = p
    BY <1>2, <1>3 DEF Context
  <2>3. p # <<>> /\ Len(p) # 1
    BY <1>2, <1>4
  <2>. HIDE DEF f
  <2>. QED
    BY <1>2, <1>5, <2>1, <2>2, <2>3, ExitFrames
<1>6. CASE ~Cached(mem, k)
  <2>1. Entered(c, k) = [c EXCEPT !.frames = p, !.cursor = i]
    BY <1>6 DEF Entered, Context
  <2>2. p # <<>>
    BY <1>2, <1>4
  <2>. HIDE DEF p
  <2>. QED
    BY <1>1, <1>2, <1>6, <2>1, <2>2 DEF Context, p
<1>. QED
  BY <1>5, <1>6

LEMMA MirrorCalled ==
  ASSUME NEW c \in Context, c.frames # <<>>, NEW s \in Seq(Call), s # <<>>, Mirrors(c, s),
         NEW k \in Key
  PROVE  Mirrors(Numbered(c), Front(Called(s, k)))
<1>1. PICK n \in Nat : n = Len(s) /\ n >= 1 /\ Last(s) = s[n]
  BY FrontFacts
<1>2. PICK d : d = Numbered(c)
  OBVIOUS
<1>3. PICK r : r = Called(s, k)
  OBVIOUS
<1>4. /\ r \in Seq(Call) /\ r # <<>> /\ Len(r) = n + 1 /\ Len(r) - 1 = n
      /\ \A i \in 1 .. n - 1 : r[i] = s[i]
      /\ r[n] = [key |-> s[n].key, calls |-> s[n].calls + 1]
  <2>1. /\ r \in Seq(Call) /\ r # <<>> /\ Len(r) = Len(s) + 1
        /\ \A i \in 1 .. Len(s) - 1 : r[i] = s[i]
        /\ r[Len(s)] = [key |-> Last(s).key, calls |-> Last(s).calls + 1]
    BY <1>3, CalledStack
  <2>. QED
    BY <1>1, <2>1
<1>5. PICK q : q = Front(r)
  OBVIOUS
<1>6. Len(q) = n /\ \A i \in 1 .. n : q[i] = r[i]
  BY <1>4, <1>5, FrontFacts
<1>7. Len(c.frames) = n /\ \A i \in 1 .. n : c.frames[i] = [path |-> s[i].key.path, next |-> s[i].calls]
  BY <1>1 DEF Mirrors
<1>8. /\ Len(d.frames) = n
      /\ \A i \in 1 .. n - 1 : d.frames[i] = c.frames[i]
      /\ d.frames[n] = [path |-> c.frames[n].path, next |-> c.frames[n].next + 1]
  <2>1. /\ Len(d.frames) = Len(c.frames)
        /\ \A i \in 1 .. Len(c.frames) - 1 : d.frames[i] = c.frames[i]
        /\ d.frames[Len(c.frames)]
             = [path |-> Last(c.frames).path, next |-> Last(c.frames).next + 1]
    BY <1>2, NumberedFrames
  <2>2. Last(c.frames) = c.frames[n]
    BY <1>7 DEF Last
  <2>. QED
    BY <1>7, <2>1, <2>2
<1>9. ASSUME NEW i \in 1 .. n
      PROVE  d.frames[i] = [path |-> q[i].key.path, next |-> q[i].calls]
  <2>1. CASE i = n
    <3>1. /\ q[n] = [key |-> s[n].key, calls |-> s[n].calls + 1]
          /\ c.frames[n] = [path |-> s[n].key.path, next |-> s[n].calls]
      BY <1>1, <1>4, <1>6, <1>7
    <3>2. d.frames[n] = [path |-> s[n].key.path, next |-> s[n].calls + 1]
      BY <1>8, <3>1
    <3>. QED
      BY <2>1, <3>1, <3>2
  <2>2. CASE i # n
    <3>1. i \in 1 .. n - 1
      BY <2>2
    <3>. QED
      BY <1>4, <1>6, <1>7, <1>8, <3>1
  <2>. QED
    BY <2>1, <2>2
<1>. QED
  BY <1>2, <1>3, <1>5, <1>6, <1>8, <1>9 DEF Mirrors

LEMMA MirrorEntered ==
  ASSUME mem \in State, NEW c \in Context, c.frames # <<>>, NEW s \in Seq(Call), s # <<>>,
         Last(s).key \in Key, Last(s).calls = 0, Mirrors(c, Front(s))
  PROVE  Mirrors(Entered(c, Last(s).key), IF Cached(mem, Last(s).key) THEN Front(s) ELSE s)
<1>1. PICK k \in Key : k = Last(s).key
  OBVIOUS
<1>2. PICK d : d = Entered(c, k)
  OBVIOUS
<1>3. CASE Cached(mem, k)
  <2>1. d.frames = c.frames
    BY <1>2, <1>3, EnteredFrames
  <2>. QED
    BY <1>1, <1>2, <1>3, <2>1 DEF Mirrors
<1>4. CASE ~Cached(mem, k)
  <2>1. d.frames = Append(c.frames, [path |-> k.path, next |-> 0])
    BY <1>2, <1>4, EnteredFrames
  <2>2. PICK n \in Nat : n = Len(s) /\ n >= 1 /\ Last(s) = s[n]
    BY FrontFacts
  <2>3. Len(Front(s)) = n - 1 /\ \A i \in 1 .. n - 1 : Front(s)[i] = s[i]
    BY <2>2, FrontFacts
  <2>4. /\ Len(c.frames) = n - 1
        /\ \A i \in 1 .. n - 1 : c.frames[i] = [path |-> s[i].key.path, next |-> s[i].calls]
    BY <2>3 DEF Mirrors
  <2>5. c.frames \in Seq(Frame) /\ [path |-> k.path, next |-> 0] \in Frame
    BY PathOfKey DEF Context, Frame
  <2>6. PICK m \in Nat : m = n - 1
    BY <2>2
  <2>7. /\ Len(d.frames) = m + 1
        /\ \A i \in 1 .. m : d.frames[i] = c.frames[i]
        /\ d.frames[m + 1] = [path |-> k.path, next |-> 0]
    BY <2>1, <2>4, <2>5, <2>6, AppendProperties
  <2>8. ASSUME NEW i \in 1 .. n
        PROVE  d.frames[i] = [path |-> s[i].key.path, next |-> s[i].calls]
    <3>1. CASE i = n
      BY <1>1, <2>2, <2>6, <2>7, <3>1
    <3>2. CASE i # n
      <4>1. i \in 1 .. n - 1 /\ i \in 1 .. m
        BY <2>6, <3>2
      <4>. QED
        BY <2>4, <2>7, <4>1
    <3>. QED
      BY <3>1, <3>2
  <2>9. Len(d.frames) = Len(s)
    BY <2>2, <2>6, <2>7
  <2>. QED
    BY <1>1, <1>2, <1>4, <2>2, <2>8, <2>9 DEF Mirrors
<1>. QED
  BY <1>3, <1>4

LEMMA MirrorExit ==
  ASSUME NEW c \in Context, c.frames # <<>>, NEW s \in Seq(Call), Len(s) >= 2, Mirrors(c, s)
  PROVE  Mirrors(ExitStep(c), Front(s))
<1>1. s # <<>> /\ c.frames \in Seq(Frame)
  BY DEF Context
<1>2. PICK n \in Nat : n = Len(s)
  BY <1>1, FrontFacts
<1>3. Len(c.frames) = n /\ n # 1
  BY <1>2 DEF Mirrors
<1>4. ExitStep(c).frames = Front(c.frames)
  BY <1>3, ExitFrames
<1>5. /\ Len(Front(s)) = n - 1 /\ \A i \in 1 .. n - 1 : Front(s)[i] = s[i]
  BY <1>1, <1>2, FrontFacts
<1>6. Len(Front(c.frames)) = n - 1 /\ \A i \in 1 .. n - 1 : Front(c.frames)[i] = c.frames[i]
  BY <1>1, <1>3, FrontFacts
<1>7. \A i \in 1 .. n - 1 : i \in 1 .. n
  BY <1>2
<1>. QED
  BY <1>2, <1>3, <1>4, <1>5, <1>6, <1>7 DEF Mirrors

-----------------------------------------------------------------------------
(* Steps of one fiber among the others *)

(* Fiber f goes on as g, with c as the context of its attempt.             *)
LEMMA ThreadGoesOn ==
  ASSUME NEW fs, NEW cs, Threads(fs, cs), NEW f \in DOMAIN fs,
         NEW g, Proper(g), g.ctx = fs[f].ctx,
         NEW c \in Context, c.frames # <<>>,
         OnCourse(g) => /\ OnCourse(fs[f])
                        /\ OwnFrames(fs[f], cs[fs[f].ctx]) => OwnFrames(g, c)
  PROVE  Threads([fs EXCEPT ![f] = g], [cs EXCEPT ![fs[f].ctx] = c])
<1>. DEFINE x == fs[f].ctx
            ds == [cs EXCEPT ![x] = c]
            gs == [fs EXCEPT ![f] = g]
<1>1. /\ cs \in Seq(Context) /\ fs \in Seq(Fiber) /\ g \in Fiber
      /\ x \in DOMAIN cs /\ \A h \in DOMAIN fs : Proper(fs[h]) /\ fs[h].ctx \in DOMAIN cs
      /\ \A i \in DOMAIN cs : cs[i].frames # <<>>
  BY DEF Threads, Proper
<1>2. /\ ds \in Seq(Context) /\ DOMAIN ds = DOMAIN cs /\ ds[x] = c
      /\ \A i \in DOMAIN cs \ {x} : ds[i] = cs[i]
  BY <1>1
<1>3. /\ gs \in Seq(Fiber) /\ DOMAIN gs = DOMAIN fs /\ gs[f] = g
      /\ \A h \in DOMAIN fs \ {f} : gs[h] = fs[h]
  BY <1>1
<1>4. \A h \in DOMAIN fs : gs[h].ctx = fs[h].ctx
  BY <1>3
<1>. HIDE DEF ds, gs
<1>5. \A h \in DOMAIN gs : Proper(gs[h]) /\ gs[h].ctx \in DOMAIN ds
  BY <1>1, <1>2, <1>3, <1>4
<1>6. \A i \in DOMAIN ds : ds[i].frames # <<>>
  BY <1>1, <1>2
<1>7. ASSUME NEW h \in DOMAIN gs, OnCourse(gs[h])
      PROVE  /\ OwnFrames(gs[h], ds[gs[h].ctx])
             /\ \A e \in DOMAIN gs \ {h} : gs[e].ctx # gs[h].ctx
  <2>1. OnCourse(fs[h]) /\ h \in DOMAIN fs
    BY <1>3, <1>7
  <2>2. OwnFrames(fs[h], cs[fs[h].ctx]) /\ \A e \in DOMAIN fs \ {h} : fs[e].ctx # fs[h].ctx
    BY <2>1 DEF Threads
  <2>3. \A e \in DOMAIN gs \ {h} : gs[e].ctx # gs[h].ctx
    BY <1>3, <1>4, <2>1, <2>2
  <2>4. CASE h = f
    BY <1>2, <1>3, <1>7, <2>2, <2>3, <2>4
  <2>5. CASE h # f
    <3>1. gs[h] = fs[h] /\ fs[h].ctx # x /\ fs[h].ctx \in DOMAIN cs
      BY <1>1, <1>3, <2>1, <2>2, <2>5
    <3>. QED
      BY <1>2, <2>2, <2>3, <3>1
  <2>. QED
    BY <2>4, <2>5
<1>8. Threads(gs, ds)
  BY <1>2, <1>3, <1>5, <1>6, <1>7 DEF Threads
<1>. QED
  BY <1>8 DEF gs, ds

LEMMA RemoveAtFacts ==
  ASSUME NEW S, NEW s \in Seq(S), NEW i \in DOMAIN s
  PROVE  /\ RemoveAt(s, i) \in Seq(S) /\ Len(RemoveAt(s, i)) = Len(s) - 1
         /\ \A j \in 1 .. Len(s) - 1 : RemoveAt(s, i)[j] = IF j < i THEN s[j] ELSE s[j + 1]
<1>1. PICK n \in Nat : n = Len(s)
  OBVIOUS
<1>2. i \in 1 .. n /\ \A j \in 1 .. n : s[j] \in S
  BY <1>1
<1>3. PICK p : p = SubSeq(s, 1, i - 1)
  OBVIOUS
<1>4. PICK q : q = SubSeq(s, i + 1, n)
  OBVIOUS
<1>5. p \in Seq(S) /\ Len(p) = i - 1 /\ \A j \in 1 .. i - 1 : p[j] = s[j]
  <2>1. PICK m \in Nat : m = i - 1
    BY <1>2
  <2>2. 1 \in Int /\ m \in Int /\ \A j \in 1 .. m : s[j] \in S
    BY <1>2, <2>1
  <2>3. /\ p \in Seq(S) /\ Len(p) = IF 1 <= m THEN m - 1 + 1 ELSE 0
        /\ \A j \in 1 .. m - 1 + 1 : p[j] = s[1 + j - 1]
    BY <1>3, <2>1, <2>2, SubSeqProperties
  <2>4. \A j \in 1 .. m : j \in 1 .. m - 1 + 1 /\ 1 + j - 1 = j
    BY <2>1
  <2>5. \A j \in 1 .. m : p[j] = s[j]
    BY <2>3, <2>4
  <2>. QED
    BY <2>1, <2>3, <2>5
<1>6. q \in Seq(S) /\ Len(q) = n - i /\ \A j \in 1 .. n - i : q[j] = s[i + j]
  <2>1. PICK m \in Nat : m = i + 1
    BY <1>2
  <2>2. m \in Int /\ n \in Int /\ \A j \in m .. n : s[j] \in S
    BY <1>2, <2>1
  <2>3. /\ q \in Seq(S) /\ Len(q) = IF m <= n THEN n - m + 1 ELSE 0
        /\ \A j \in 1 .. n - m + 1 : q[j] = s[m + j - 1]
    BY <1>4, <2>1, <2>2, SubSeqProperties
  <2>4. \A j \in 1 .. n - i : j \in 1 .. n - m + 1 /\ m + j - 1 = i + j
    <3>1. i \in 1 .. n
      BY <1>2
    <3>2. n - m + 1 = n - i
      BY <2>1, <3>1
    <3>3. \A j \in 1 .. n - i : m + j - 1 = i + j
      BY <2>1, <3>1
    <3>. QED
      BY <3>2, <3>3
  <2>5. \A j \in 1 .. n - i : q[j] = s[i + j]
    BY <2>3, <2>4
  <2>6. Len(q) = n - i
    BY <1>2, <2>1, <2>3
  <2>. QED
    BY <2>3, <2>5, <2>6
<1>7. PICK r : r = p \o q
  OBVIOUS
<1>8. /\ r \in Seq(S) /\ Len(r) = Len(p) + Len(q)
      /\ \A j \in 1 .. Len(p) + Len(q) : r[j] = IF j <= Len(p) THEN p[j] ELSE q[j - Len(p)]
  BY <1>5, <1>6, <1>7, ConcatProperties
<1>9. Len(r) = n - 1
  BY <1>2, <1>5, <1>6, <1>8
<1>10. ASSUME NEW j \in 1 .. n - 1
       PROVE  r[j] = IF j < i THEN s[j] ELSE s[j + 1]
  <2>1. CASE j < i
    <3>1. j \in 1 .. i - 1 /\ j <= Len(p) /\ j \in 1 .. Len(p) + Len(q)
      BY <1>2, <1>5, <1>6, <2>1
    <3>. QED
      BY <1>5, <1>8, <2>1, <3>1
  <2>2. CASE ~(j < i)
    <3>1. PICK m \in 1 .. n - i : m = j - (i - 1)
      BY <1>2, <2>2
    <3>2. ~(j <= Len(p)) /\ j \in 1 .. Len(p) + Len(q) /\ j - Len(p) = m /\ i + m = j + 1
      <4>1. Len(p) = i - 1 /\ Len(p) + Len(q) = n - 1
        BY <1>2, <1>5, <1>8, <1>9
      <4>2. ~(j <= i - 1) /\ i + m = j + 1
        BY <1>2, <2>2, <3>1
      <4>. QED
        BY <3>1, <4>1, <4>2
    <3>3. r[j] = q[m] /\ q[m] = s[i + m]
      BY <1>6, <1>8, <3>2
    <3>. QED
      BY <2>2, <3>2, <3>3
  <2>. QED
    BY <2>1, <2>2
<1>11. RemoveAt(s, i) = r
  BY <1>1, <1>3, <1>4, <1>7 DEF RemoveAt
<1>. QED
  BY <1>1, <1>8, <1>9, <1>10, <1>11

(* A fiber that ends leaves the others as they are.                        *)
LEMMA ThreadEnds ==
  ASSUME NEW fs, NEW cs, Threads(fs, cs), NEW f \in DOMAIN fs
  PROVE  Threads(RemoveAt(fs, f), cs)
<1>1. PICK n \in Nat : n = Len(fs)
  BY DEF Threads
<1>2. PICK r : r = RemoveAt(fs, f)
  OBVIOUS
<1>3. fs \in Seq(Fiber) /\ DOMAIN fs = 1 .. n /\ f \in 1 .. n
  BY <1>1 DEF Threads
<1>4. /\ r \in Seq(Fiber) /\ Len(r) = n - 1
      /\ \A j \in 1 .. n - 1 : r[j] = IF j < f THEN fs[j] ELSE fs[j + 1]
  BY <1>1, <1>2, <1>3, RemoveAtFacts
<1>5. DOMAIN r = 1 .. n - 1
  BY <1>4
<1>. DEFINE At1(j) == IF j < f THEN j ELSE j + 1
<1>6. \A j \in 1 .. n - 1 : At1(j) \in 1 .. n /\ r[j] = fs[At1(j)]
  BY <1>3, <1>4
<1>7. \A i, j \in 1 .. n - 1 : i # j => At1(i) # At1(j)
  BY <1>3
<1>. HIDE DEF At1
<1>8. \A j \in DOMAIN r : Proper(r[j]) /\ r[j].ctx \in DOMAIN cs
  BY <1>3, <1>5, <1>6 DEF Threads
<1>9. ASSUME NEW j \in DOMAIN r, OnCourse(r[j])
      PROVE  OwnFrames(r[j], cs[r[j].ctx]) /\ \A i \in DOMAIN r \ {j} : r[i].ctx # r[j].ctx
  <2>1. /\ At1(j) \in DOMAIN fs /\ r[j] = fs[At1(j)]
        /\ \A i \in DOMAIN r \ {j} : At1(i) \in DOMAIN fs \ {At1(j)} /\ r[i] = fs[At1(i)]
    BY <1>3, <1>5, <1>6, <1>7
  <2>2. /\ OwnFrames(fs[At1(j)], cs[fs[At1(j)].ctx])
        /\ \A i \in DOMAIN fs \ {At1(j)} : fs[i].ctx # fs[At1(j)].ctx
    BY <1>9, <2>1 DEF Threads
  <2>. QED
    BY <2>1, <2>2
<1>. QED
  BY <1>2, <1>4, <1>8, <1>9 DEF Threads

(* The body whose wrapper gives it up goes on as h, in the same context.   *)
LEMMA ThreadSplits ==
  ASSUME NEW fs, NEW cs, Threads(fs, cs), NEW f \in DOMAIN fs,
         NEW g, Proper(g), g.ctx = fs[f].ctx, ~OnCourse(g),
         NEW h, Proper(h), h.ctx = fs[f].ctx, ~OnCourse(h)
  PROVE  Threads([fs EXCEPT ![f] = g] \o <<h>>, cs)
<1>1. PICK n \in Nat : n = Len(fs)
  BY DEF Threads
<1>2. fs \in Seq(Fiber) /\ DOMAIN fs = 1 .. n /\ f \in 1 .. n /\ g \in Fiber /\ h \in Fiber
  BY <1>1 DEF Threads, Proper
<1>3. PICK gs : gs = [fs EXCEPT ![f] = g]
  OBVIOUS
<1>4. gs \in Seq(Fiber) /\ Len(gs) = n /\ gs[f] = g /\ \A i \in 1 .. n \ {f} : gs[i] = fs[i]
  BY <1>2, <1>3
<1>5. PICK r : r = gs \o <<h>>
  OBVIOUS
<1>6. /\ r \in Seq(Fiber) /\ Len(r) = n + 1 /\ r[n + 1] = h /\ \A i \in 1 .. n : r[i] = gs[i]
  <2>1. r = Append(gs, h)
    BY <1>2, <1>4, <1>5, AppendIsConcat
  <2>2. /\ Append(gs, h) \in Seq(Fiber) /\ Len(Append(gs, h)) = Len(gs) + 1
        /\ \A i \in 1 .. Len(gs) : Append(gs, h)[i] = gs[i]
        /\ Append(gs, h)[Len(gs) + 1] = h
    BY <1>2, <1>4, AppendProperties
  <2>. QED
    BY <1>4, <2>1, <2>2
<1>7. DOMAIN r = 1 .. n + 1
  BY <1>6
<1>8. ASSUME NEW i \in 1 .. n + 1
      PROVE  /\ Proper(r[i]) /\ r[i].ctx \in DOMAIN cs
             /\ OnCourse(r[i]) => i \in 1 .. n \ {f} /\ r[i] = fs[i]
  <2>1. fs[f].ctx \in DOMAIN cs
    BY DEF Threads
  <2>2. CASE i = n + 1
    BY <1>6, <2>1, <2>2
  <2>3. CASE i = f
    BY <1>2, <1>4, <1>6, <2>1, <2>3
  <2>4. CASE i \in 1 .. n \ {f}
    <3>1. r[i] = fs[i] /\ i \in DOMAIN fs
      BY <1>2, <1>4, <1>6, <2>4
    <3>. QED
      BY <2>4, <3>1 DEF Threads
  <2>. QED
    BY <2>2, <2>3, <2>4
<1>9. ASSUME NEW i \in 1 .. n + 1
      PROVE  \/ i \in 1 .. n /\ r[i].ctx = fs[i].ctx
             \/ i = n + 1 /\ r[i].ctx = fs[f].ctx
  BY <1>4, <1>6
<1>10. ASSUME NEW i \in DOMAIN r, OnCourse(r[i])
       PROVE  OwnFrames(r[i], cs[r[i].ctx]) /\ \A j \in DOMAIN r \ {i} : r[j].ctx # r[i].ctx
  <2>1. i \in DOMAIN fs /\ i # f /\ r[i] = fs[i]
    BY <1>2, <1>7, <1>8, <1>10
  <2>2. OwnFrames(fs[i], cs[fs[i].ctx]) /\ \A j \in DOMAIN fs \ {i} : fs[j].ctx # fs[i].ctx
    BY <1>10, <2>1 DEF Threads
  <2>3. ASSUME NEW j \in DOMAIN r \ {i}
        PROVE  r[j].ctx # r[i].ctx
    BY <1>2, <1>7, <1>9, <2>1, <2>2
  <2>. QED
    BY <2>1, <2>2, <2>3
<1>. QED
  BY <1>3, <1>5, <1>6, <1>7, <1>8, <1>10 DEF Threads

(* A new attempt gets a context that no fiber is in.                       *)
LEMMA ThreadBegins ==
  ASSUME NEW fs, Threads(fs, contexts), Attempt(fs)
  PROVE  Threads(fibers', contexts')
<1>1. PICK n \in Nat : n = Len(contexts)
  BY DEF Threads
<1>2. PICK m \in Nat : m = Len(fs)
  BY DEF Threads
<1>3. /\ contexts \in Seq(Context) /\ DOMAIN contexts = 1 .. n
      /\ fs \in Seq(Fiber) /\ DOMAIN fs = 1 .. m
      /\ \A f \in 1 .. m : Proper(fs[f]) /\ fs[f].ctx \in 1 .. n
      /\ \A c \in 1 .. n : contexts[c].frames # <<>>
  BY <1>1, <1>2 DEF Threads
<1>. DEFINE S == 1 .. n + 1 \ {fs[i].ctx : i \in DOMAIN fs}
            N == FreshContext
<1>4. PICK c : c = Min(S)
  OBVIOUS
<1>5. c \in S
  <2>1. n + 1 \in S /\ S \subseteq Nat
    BY <1>3
  <2>2. \E x \in S : \A y \in S : x <= y
    BY <2>1, LeastNatural
  <2>. QED
    BY <1>4, <2>2 DEF Min
<1>6. c \in 1 .. n + 1 /\ \A i \in 1 .. m : fs[i].ctx # c
  BY <1>3, <1>5
<1>7. N \in Context /\ N.frames = << [path |-> <<>>, next |-> 0] >> /\ N.frames # <<>>
  BY DEF FreshContext, Context, Frame
<1>. DEFINE b == [key |-> RootKey, calls |-> 0]
            g == [main |-> TRUE, ctx |-> c, stack |-> <<b>>, at |-> "body", err |-> "none"]
<1>8. /\ contexts' = IF c \in DOMAIN contexts THEN [contexts EXCEPT ![c] = N]
                     ELSE Append(contexts, N)
      /\ fibers' = Append(fs, g)
  BY <1>1, <1>4 DEF Attempt, NextContext
<1>9. Proper(g) /\ g.ctx = c /\ OwnFrames(g, N)
  <2>1. b \in Call /\ <<b>> \in Seq(Call) /\ Len(<<b>>) = 1 /\ <<b>>[1] = b /\ <<b>> # <<>>
    BY DEF Call
  <2>2. g \in Fiber
    BY <1>6, <2>1 DEF Fiber, At
  <2>3. Mirrors(N, <<b>>)
    BY <1>7, <2>1 DEF Mirrors, RootKey
  <2>. QED
    BY <2>1, <2>2, <2>3 DEF Proper, OwnFrames
<1>. HIDE DEF N, g, S
<1>10. /\ contexts' \in Seq(Context) /\ c \in DOMAIN contexts' /\ contexts'[c] = N
       /\ 1 .. n \subseteq DOMAIN contexts' /\ DOMAIN contexts' \subseteq 1 .. n \cup {c}
       /\ \A i \in 1 .. n \ {c} : contexts'[i] = contexts[i]
  <2>1. CASE c \in 1 .. n
    BY <1>3, <1>7, <1>8, <2>1
  <2>2. CASE c \notin 1 .. n
    <3>1. c = n + 1
      BY <1>6, <2>2
    <3>2. contexts' = Append(contexts, N)
      BY <1>3, <1>8, <2>2
    <3>3. /\ contexts' \in Seq(Context) /\ Len(contexts') = n + 1
          /\ contexts'[n + 1] = N /\ \A i \in 1 .. n : contexts'[i] = contexts[i]
      BY <1>1, <1>3, <1>7, <3>2, AppendProperties
    <3>4. DOMAIN contexts' = 1 .. n + 1
      BY <3>3
    <3>. QED
      BY <3>1, <3>3, <3>4
  <2>. QED
    BY <2>1, <2>2
<1>11. /\ fibers' \in Seq(Fiber) /\ DOMAIN fibers' = 1 .. m + 1
       /\ fibers'[m + 1] = g /\ \A i \in 1 .. m : fibers'[i] = fs[i]
  <2>1. g \in Fiber
    BY <1>9 DEF Proper
  <2>2. /\ fibers' \in Seq(Fiber) /\ Len(fibers') = m + 1
        /\ fibers'[m + 1] = g /\ \A i \in 1 .. m : fibers'[i] = fs[i]
    BY <1>2, <1>3, <1>8, <2>1, AppendProperties
  <2>. QED
    BY <2>2
<1>12. \A i \in DOMAIN contexts' : contexts'[i].frames # <<>>
  BY <1>3, <1>7, <1>10
<1>13. ASSUME NEW f \in DOMAIN fibers'
       PROVE  Proper(fibers'[f]) /\ fibers'[f].ctx \in DOMAIN contexts'
  BY <1>3, <1>9, <1>10, <1>11
<1>14. ASSUME NEW f \in DOMAIN fibers', OnCourse(fibers'[f])
       PROVE  /\ OwnFrames(fibers'[f], contexts'[fibers'[f].ctx])
              /\ \A e \in DOMAIN fibers' \ {f} : fibers'[e].ctx # fibers'[f].ctx
  <2>1. CASE f = m + 1
    <3>1. \A e \in DOMAIN fibers' \ {f} : e \in 1 .. m
      BY <1>11, <2>1
    <3>. QED
      BY <1>6, <1>9, <1>10, <1>11, <2>1, <3>1
  <2>2. CASE f # m + 1
    <3>1. f \in 1 .. m /\ fibers'[f] = fs[f] /\ f \in DOMAIN fs
      BY <1>3, <1>11, <2>2
    <3>2. /\ OwnFrames(fs[f], contexts[fs[f].ctx])
          /\ \A e \in DOMAIN fs \ {f} : fs[e].ctx # fs[f].ctx
      BY <1>14, <3>1 DEF Threads
    <3>3. fs[f].ctx \in 1 .. n \ {c}
      BY <1>3, <1>6, <3>1
    <3>4. \A e \in DOMAIN fibers' \ {f} : fibers'[e].ctx # fs[f].ctx
      <4>. SUFFICES ASSUME NEW e \in DOMAIN fibers' \ {f}
                    PROVE  fibers'[e].ctx # fs[f].ctx
        OBVIOUS
      <4>1. CASE e = m + 1
        BY <1>9, <1>11, <3>3, <4>1
      <4>2. CASE e \in 1 .. m
        BY <1>3, <1>11, <3>2, <4>2
      <4>. QED
        BY <1>11, <4>1, <4>2
    <3>. QED
      BY <1>10, <3>1, <3>2, <3>3, <3>4
  <2>. QED
    BY <2>1, <2>2
<1>. QED
  BY <1>10, <1>11, <1>12, <1>13, <1>14 DEF Threads

-----------------------------------------------------------------------------
(* The fiber that a step leaves *)

LEMMA PauseFiber ==
  ASSUME NEW g, Proper(g), NEW a \in At, a \in {"enter", "save", "charge"} => Len(g.stack) >= 2
  PROVE  LET h == [g EXCEPT !.at = a] IN
         /\ Proper(h) /\ h.at = a /\ h.main = g.main /\ h.ctx = g.ctx /\ h.stack = g.stack
  BY DEF Proper, Fiber, At

LEMMA ThrowFiber ==
  ASSUME NEW g, Proper(g),
         NEW kind \in {"none", "error", "retry", "conflict", "nondeterminism"}
  PROVE  LET h == Throws(g, kind) IN Proper(h) /\ ~OnCourse(h) /\ h.ctx = g.ctx /\ h.stack = g.stack
  BY DEF Proper, Fiber, At, Throws, OnCourse

LEMMA ReturnFiber ==
  ASSUME NEW g, Proper(g), Len(g.stack) >= 2
  PROVE  LET h == Returns(g) IN
         /\ Proper(h) /\ h.at = "body" /\ h.main = g.main /\ h.ctx = g.ctx
         /\ h.stack = Front(g.stack)
<1>1. PICK s \in Seq(Call) : s = g.stack /\ s # <<>> /\ \A i \in 2 .. Len(s) : s[i].key \in Key
  BY DEF Proper, Fiber
<1>2. PICK q : q = Front(s)
  OBVIOUS
<1>3. /\ Len(s) \in Nat /\ Len(s) >= 2 /\ q \in Seq(Call) /\ Len(q) = Len(s) - 1
      /\ \A i \in 1 .. Len(s) - 1 : q[i] = s[i]
  BY <1>1, <1>2, FrontFacts
<1>4. q # <<>> /\ \A i \in 2 .. Len(q) : q[i].key \in Key
  BY <1>1, <1>3
<1>5. /\ Returns(g) \in Fiber /\ Returns(g).stack = q /\ Returns(g).at = "body"
      /\ Returns(g).main = g.main /\ Returns(g).ctx = g.ctx
  BY <1>1, <1>2, <1>3 DEF Proper, Fiber, At, Returns
<1>. QED
  BY <1>1, <1>2, <1>4, <1>5 DEF Proper

LEMMA CallFiber ==
  ASSUME NEW f, Proper(fibers[f]), NEW k \in Key, NEW a \in {"body", "enter"}
  PROVE  LET h == [Calls(f, k) EXCEPT !.at = a] IN
         /\ Proper(h) /\ h.at = a /\ h.main = fibers[f].main /\ h.ctx = fibers[f].ctx
         /\ h.stack = Called(fibers[f].stack, k) /\ Len(h.stack) >= 2
<1>1. PICK s \in Seq(Call) :
        s = fibers[f].stack /\ s # <<>> /\ \A i \in 2 .. Len(s) : s[i].key \in Key
  BY DEF Proper, Fiber
<1>2. PICK r : r = Called(s, k)
  OBVIOUS
<1>3. /\ r \in Seq(Call) /\ r # <<>> /\ Len(r) = Len(s) + 1
      /\ Last(r) = [key |-> k, calls |-> 0]
      /\ \A i \in 1 .. Len(s) - 1 : r[i] = s[i]
      /\ r[Len(s)] = [key |-> Last(s).key, calls |-> Last(s).calls + 1]
  BY <1>1, <1>2, CalledStack
<1>4. Len(s) \in Nat /\ Len(s) >= 1 /\ Last(s) = s[Len(s)] /\ Last(r) = r[Len(s) + 1]
  BY <1>1, <1>3, FrontFacts DEF Last
<1>5. ASSUME NEW i \in 2 .. Len(r)
      PROVE  r[i].key \in Key
  <2>1. CASE i = Len(s) + 1
    <3>1. r[i] = [key |-> k, calls |-> 0]
      BY <1>3, <1>4, <2>1
    <3>. QED
      BY <3>1
  <2>2. CASE i = Len(s)
    <3>1. i \in 2 .. Len(s)
      BY <1>4, <2>2
    <3>2. r[i].key = s[i].key
      BY <1>3, <1>4, <2>2
    <3>. QED
      BY <1>1, <3>1, <3>2
  <2>3. CASE i \in 2 .. Len(s) - 1
    <3>1. i \in 2 .. Len(s) /\ i \in 1 .. Len(s) - 1
      BY <1>4, <2>3
    <3>2. r[i] = s[i]
      BY <1>3, <3>1
    <3>. QED
      BY <1>1, <3>1, <3>2
  <2>. QED
    BY <1>3, <1>4, <2>1, <2>2, <2>3
<1>6. PICK h : h = [Calls(f, k) EXCEPT !.at = a]
  OBVIOUS
<1>7. /\ h \in Fiber /\ h.stack = r /\ h.at = a /\ h.main = fibers[f].main
      /\ h.ctx = fibers[f].ctx
  <2>1. PICK g : g = fibers[f] /\ g \in Fiber
    BY DEF Proper
  <2>2. Calls(f, k) = [g EXCEPT !.stack = Called(g.stack, k)]
    <3>1. Calls(f, k) = [fibers[f] EXCEPT !.stack = Called(fibers[f].stack, k)]
      BY DEF Calls, Called
    <3>. QED
      BY <2>1, <3>1
  <2>3. Calls(f, k) = [g EXCEPT !.stack = r]
    BY <1>1, <1>2, <2>1, <2>2
  <2>4. h = [g EXCEPT !.stack = r, !.at = a]
    BY <1>6, <2>1, <2>3 DEF Fiber
  <2>. QED
    BY <1>3, <2>1, <2>4 DEF Fiber, At
<1>8. Len(r) >= 2
  BY <1>3, <1>4
<1>. QED
  BY <1>1, <1>2, <1>3, <1>5, <1>6, <1>7, <1>8 DEF Proper

(* The two parts of a fiber whose i-th body is given up.                   *)
LEMMA SplitFiber ==
  ASSUME NEW f, Proper(fibers[f]), NEW i \in 2 .. Len(fibers[f].stack),
         i < Len(fibers[f].stack) \/ fibers[f].at = "body"
  PROVE  LET g == [Throws(fibers[f], "error") EXCEPT !.stack = SubSeq(@, 1, i)]
             h == [fibers[f] EXCEPT !.main = FALSE, !.stack = SubSeq(@, i, Len(@))] IN
         /\ Proper(g) /\ g.ctx = fibers[f].ctx /\ ~OnCourse(g)
         /\ Proper(h) /\ h.ctx = fibers[f].ctx /\ ~OnCourse(h)
<1>1. PICK s \in Seq(Call) :
        s = fibers[f].stack /\ s # <<>> /\ \A j \in 2 .. Len(s) : s[j].key \in Key
  BY DEF Proper, Fiber
<1>2. PICK n \in Nat : n = Len(s) /\ i \in 2 .. n /\ \A j \in 1 .. n : s[j] \in Call
  BY <1>1
<1>3. PICK p : p = SubSeq(s, 1, i)
  OBVIOUS
<1>4. PICK q : q = SubSeq(s, i, n)
  OBVIOUS
<1>5. p \in Seq(Call) /\ p # <<>> /\ \A j \in 2 .. Len(p) : p[j].key \in Key
  <2>1. 1 \in Int /\ i \in Int /\ \A j \in 1 .. i : s[j] \in Call
    BY <1>2
  <2>2. /\ p \in Seq(Call) /\ Len(p) = IF 1 <= i THEN i - 1 + 1 ELSE 0
        /\ \A j \in 1 .. i - 1 + 1 : p[j] = s[1 + j - 1]
    BY <1>3, <2>1, SubSeqProperties
  <2>3. Len(p) = i /\ \A j \in 1 .. i : p[j] = s[j]
    BY <1>2, <2>2
  <2>. QED
    BY <1>1, <1>2, <2>2, <2>3
<1>6. /\ q \in Seq(Call) /\ q # <<>> /\ \A j \in 2 .. Len(q) : q[j].key \in Key
      /\ i < n => Len(q) >= 2
  <2>1. i \in Int /\ n \in Int /\ \A j \in i .. n : s[j] \in Call
    BY <1>2
  <2>2. /\ q \in Seq(Call) /\ Len(q) = IF i <= n THEN n - i + 1 ELSE 0
        /\ \A j \in 1 .. n - i + 1 : q[j] = s[i + j - 1]
    BY <1>4, <2>1, SubSeqProperties
  <2>3. Len(q) = n - i + 1
    BY <1>2, <2>2
  <2>4. ASSUME NEW j \in 2 .. Len(q)
        PROVE  q[j].key \in Key
    <3>1. j \in 1 .. n - i + 1 /\ i + j - 1 \in 2 .. n
      BY <1>2, <2>3
    <3>. QED
      BY <1>1, <1>2, <2>2, <3>1
  <2>. QED
    BY <1>2, <2>2, <2>3, <2>4
<1>7. PICK g : g = [Throws(fibers[f], "error") EXCEPT !.stack = SubSeq(@, 1, i)]
  OBVIOUS
<1>8. PICK h : h = [fibers[f] EXCEPT !.main = FALSE, !.stack = SubSeq(@, i, Len(@))]
  OBVIOUS
<1>9. g \in Fiber /\ g.stack = p /\ g.at = "throw" /\ g.ctx = fibers[f].ctx
  BY <1>1, <1>3, <1>5, <1>7 DEF Throws, Proper, Fiber, At
<1>10. /\ h \in Fiber /\ h.stack = q /\ h.at = fibers[f].at /\ h.ctx = fibers[f].ctx
       /\ h.main = FALSE
  BY <1>1, <1>2, <1>4, <1>6, <1>8 DEF Proper, Fiber
<1>11. Proper(g) /\ ~OnCourse(g)
  BY <1>5, <1>9 DEF Proper, OnCourse
<1>12. Proper(h) /\ ~OnCourse(h)
  BY <1>1, <1>2, <1>6, <1>10 DEF Proper, OnCourse
<1>. QED
  BY <1>7, <1>8, <1>9, <1>10, <1>11, <1>12

-----------------------------------------------------------------------------
(* The states that steps write *)

LEMMA AttemptsOfKey == ASSUME EveryKey PROVE \A k \in Key : k.name \in Name /\ 0 < Attempts[k.name]
  BY TimeoutAssumption DEF EveryKey

LEMMA WriteOps ==
  ASSUME EveryKey, mem \in State, WithinBudget(mem)
  PROVE  /\ MarkRunning(mem) \in State /\ WithinBudget(MarkRunning(mem))
         /\ \A kind \in ErrorKind \cup {"none"} :
              MarkFailed(mem, kind) \in State /\ WithinBudget(MarkFailed(mem, kind))
         /\ MarkCompleted(mem, <<>>) \in State /\ WithinBudget(MarkCompleted(mem, <<>>))
         /\ \A k \in Key : RecordStep(mem, k) \in State /\ WithinBudget(RecordStep(mem, k))
         /\ \A k \in Key : mem.a[k] + 1 < Attempts[k.name] =>
              /\ IncrementStepRetryCount(mem, k) \in State
              /\ WithinBudget(IncrementStepRetryCount(mem, k))
         /\ \A k \in Key, v \in Value :
              SaveStepResult(mem, k, v) \in State /\ WithinBudget(SaveStepResult(mem, k, v))
<1>1. /\ MarkRunning(mem).a = mem.a
      /\ \A kind : MarkFailed(mem, kind).a = mem.a
      /\ \A k : RecordStep(mem, k).a = mem.a
  BY DEF State, MarkRunning, MarkFailed, RecordStep
<1>2. ASSUME NEW d \in State, d.a = mem.a
      PROVE  WithinBudget(d)
  BY <1>2 DEF WithinBudget
<1>3. ASSUME NEW d \in State, WithinBudget(d), NEW K
      PROVE  WithinBudget(Drop(d, K))
  <2>1. \A k \in Key : Drop(d, K).a[k] \in {0, d.a[k]}
    BY DEF State, Drop
  <2>. QED
    BY <1>3, <2>1, AttemptsOfKey DEF WithinBudget
<1>4. MarkRunning(mem) \in State /\ WithinBudget(MarkRunning(mem))
  BY <1>1, <1>2, StatusOpsType
<1>5. ASSUME NEW kind \in ErrorKind \cup {"none"}
      PROVE  MarkFailed(mem, kind) \in State /\ WithinBudget(MarkFailed(mem, kind))
  BY <1>1, <1>2, StatusOpsType
<1>6. ASSUME NEW k \in Key
      PROVE  RecordStep(mem, k) \in State /\ WithinBudget(RecordStep(mem, k))
  BY <1>1, <1>2, CacheOpsType
<1>7. ASSUME NEW k \in Key, mem.a[k] + 1 < Attempts[k.name]
      PROVE  /\ IncrementStepRetryCount(mem, k) \in State
             /\ WithinBudget(IncrementStepRetryCount(mem, k))
  <2>1. \A j \in Key : IncrementStepRetryCount(mem, k).a[j] = IF j = k THEN mem.a[k] + 1 ELSE mem.a[j]
    BY DEF State, IncrementStepRetryCount
  <2>2. WithinBudget(IncrementStepRetryCount(mem, k))
    BY <1>7, <2>1 DEF WithinBudget
  <2>. QED
    BY <2>2, CacheOpsType
<1>8. ASSUME NEW k \in Key, NEW v \in Value
      PROVE  SaveStepResult(mem, k, v) \in State /\ WithinBudget(SaveStepResult(mem, k, v))
  <2>1. Cache(mem, k, v) \in State
    BY DEF State, Cache
  <2>2. \A j \in Key : Cache(mem, k, v).a[j] = IF j = k THEN 0 ELSE mem.a[j]
    BY DEF State, Cache
  <2>3. WithinBudget(Cache(mem, k, v))
    BY <2>2, AttemptsOfKey DEF WithinBudget
  <2>4. WithinBudget(SaveStepResult(mem, k, v))
    BY <1>3, <2>1, <2>3 DEF SaveStepResult
  <2>. QED
    BY <2>4, CacheOpsType
<1>9. MarkCompleted(mem, <<>>) \in State /\ WithinBudget(MarkCompleted(mem, <<>>))
  <2>1. <<>> \in Seq(Observation)
    OBVIOUS
  <2>2. PICK d : d = [mem EXCEPT !.s = "completed", !.r = <<>>, !.e = "none"]
    OBVIOUS
  <2>3. d \in State /\ d.a = mem.a
    BY <2>1, <2>2 DEF State, Status
  <2>4. WithinBudget(Compact(d))
    BY <1>2, <1>3, <2>3 DEF Compact
  <2>. QED
    BY <2>1, <2>2, <2>4, CompletionType DEF MarkCompleted
<1>. QED
  BY <1>4, <1>5, <1>6, <1>7, <1>8, <1>9

(* The key that a call gets, whichever body makes it.                      *)
LEMMA CalledKeys ==
  ASSUME EveryKey, Threads(fibers, contexts), NEW f \in DOMAIN fibers, MayCall(f)
  PROVE  CalledKey(f) \in Key
<1>1. PICK c : c = ContextOf(f)
  OBVIOUS
<1>2. c \in Context /\ c.frames # <<>>
  BY <1>1 DEF Threads, ContextOf
<1>3. PICK t \in Frame : t = Last(c.frames)
  BY <1>2, FrontFacts DEF Context
<1>4. PICK b \in Call : b = Body(f)
  BY FrontFacts DEF Threads, Proper, Fiber, Body
<1>5. PICK n \in Name \ {"run"} : n = Plan[b.key.name][b.calls + 1]
  <2>1. b.key.name \in Name /\ b.calls \in Nat
    BY <1>4, TimeoutAssumption DEF Call, EveryKey, RootKey
  <2>2. b.calls + 1 \in 1 .. Len(Plan[b.key.name])
    BY <1>4, <2>1, TimeoutAssumption DEF MayCall
  <2>. QED
    BY <2>1, <2>2, TimeoutAssumption
<1>6. PICK p : p = Append(t.path, t.next)
  OBVIOUS
<1>7. p \in Seq(Nat) /\ p # <<>>
  <2>1. t.path \in Seq(Nat) /\ t.next \in Nat
    BY DEF Frame
  <2>2. p \in Seq(Nat) /\ Len(p) = Len(t.path) + 1 /\ Len(t.path) \in Nat
    BY <1>6, <2>1, AppendProperties
  <2>. QED
    BY <2>2
<1>8. CalledKey(f) = [path |-> p, name |-> n]
  BY <1>1, <1>3, <1>4, <1>5, <1>6 DEF CalledKey, NextKey, TopFrame
<1>. QED
  BY <1>7, <1>8 DEF EveryKey

(* The body on top is a step's, unless it is alone in its fiber.           *)
LEMMA BodyKeys ==
  ASSUME NEW f, Proper(fibers[f]), Len(fibers[f].stack) >= 2
  PROVE  Body(f).key \in Key
<1>1. PICK s \in Seq(Call) : s = fibers[f].stack /\ s # <<>> /\ \A i \in 2 .. Len(s) : s[i].key \in Key
  BY DEF Proper, Fiber
<1>2. PICK n \in Nat : n = Len(s) /\ n >= 2 /\ Last(s) = s[n]
  BY <1>1, FrontFacts
<1>3. n \in 2 .. n
  BY <1>2
<1>. QED
  BY <1>1, <1>2, <1>3 DEF Body

-----------------------------------------------------------------------------
(* Every step keeps the threads apart *)

LEMMA FiberFacts ==
  ASSUME Threads(fibers, contexts), NEW f \in DOMAIN fibers
  PROVE  /\ Proper(fibers[f]) /\ Len(fibers[f].stack) \in Nat /\ Len(fibers[f].stack) >= 1
         /\ fibers[f].stack \in Seq(Call) /\ fibers[f].stack # <<>>
         /\ ContextOf(f) \in Context /\ ContextOf(f).frames # <<>>
         /\ [contexts EXCEPT ![fibers[f].ctx] = ContextOf(f)] = contexts
<1>1. /\ Proper(fibers[f]) /\ contexts \in Seq(Context) /\ fibers[f].ctx \in DOMAIN contexts
      /\ contexts[fibers[f].ctx].frames # <<>>
  BY DEF Threads
<1>2. fibers[f].stack \in Seq(Call) /\ fibers[f].stack # <<>>
  BY <1>1 DEF Proper, Fiber
<1>3. Len(fibers[f].stack) \in Nat /\ Len(fibers[f].stack) >= 1
  BY <1>2, EmptySeq
<1>. QED
  BY <1>1, <1>2, <1>3 DEF ContextOf

LEMMA GoesOn ==
  ASSUME Threads(fibers, contexts), NEW f \in DOMAIN fibers,
         NEW g, Proper(g), g.ctx = fibers[f].ctx, Goes(f, g),
         NEW c \in Context, c.frames # <<>>, InContext(f, c),
         OnCourse(g) => /\ OnCourse(fibers[f])
                        /\ OwnFrames(fibers[f], ContextOf(f)) => OwnFrames(g, c)
  PROVE  Threads(fibers', contexts')
<1>1. Threads([fibers EXCEPT ![f] = g], [contexts EXCEPT ![fibers[f].ctx] = c])
  BY ThreadGoesOn DEF ContextOf
<1>. QED
  BY <1>1 DEF Goes, InContext

LEMMA GoesOnInPlace ==
  ASSUME Threads(fibers, contexts), NEW f \in DOMAIN fibers,
         NEW g, Proper(g), g.ctx = fibers[f].ctx, Goes(f, g), UNCHANGED contexts,
         OnCourse(g) => /\ OnCourse(fibers[f])
                        /\ OwnFrames(fibers[f], ContextOf(f)) => OwnFrames(g, ContextOf(f))
  PROVE  Threads(fibers', contexts')
<1>1. InContext(f, ContextOf(f)) /\ ContextOf(f) \in Context /\ ContextOf(f).frames # <<>>
  BY FiberFacts DEF InContext
<1>. QED
  BY <1>1, GoesOn

(* A step is entered whose fiber is h and whose frames are those below it. *)
LEMMA StepEntered ==
  ASSUME mem \in State, Threads(fibers, contexts), NEW f \in DOMAIN fibers,
         NEW h, Proper(h), h.ctx = fibers[f].ctx, h.main = fibers[f].main,
         h.at \in {"body", "enter"}, Len(h.stack) >= 2, OnCourse(fibers[f]) \/ ~h.main,
         NEW k \in Key, k = Last(h.stack).key,
         NEW c \in Context, c.frames # <<>>,
         OwnFrames(fibers[f], ContextOf(f)) => Mirrors(c, Front(h.stack)) /\ Last(h.stack).calls = 0,
         InContext(f, Entered(c, k)), Goes(f, EnteredFiber(h, k))
  PROVE  Threads(fibers', contexts')
<1>1. PICK d : d = Entered(c, k)
  OBVIOUS
<1>2. d \in Context /\ d.frames # <<>>
  BY <1>1, EnteredFrames
<1>3. PICK g : g = EnteredFiber(h, k)
  OBVIOUS
<1>4. /\ Proper(g) /\ g.at = "body" /\ g.main = h.main /\ g.ctx = h.ctx
      /\ g.stack = IF Cached(mem, k) THEN Front(h.stack) ELSE h.stack
  <2>1. CASE Cached(mem, k)
    <3>1. g = Returns(h)
      BY <1>3, <2>1 DEF EnteredFiber
    <3>. QED
      BY <2>1, <3>1, ReturnFiber
  <2>2. CASE ~Cached(mem, k)
    <3>1. g = [h EXCEPT !.at = "body"]
      BY <1>3, <2>2 DEF EnteredFiber
    <3>2. "body" \in At
      BY DEF At
    <3>. QED
      BY <2>2, <3>1, <3>2, PauseFiber
  <2>. QED
    BY <2>1, <2>2
<1>5. ASSUME OwnFrames(fibers[f], ContextOf(f))
      PROVE  OwnFrames(g, d)
  <2>1. h.stack \in Seq(Call) /\ h.stack # <<>>
    BY DEF Proper, Fiber
  <2>2. Mirrors(d, IF Cached(mem, k) THEN Front(h.stack) ELSE h.stack)
    BY <1>1, <1>5, <2>1, MirrorEntered
  <2>. QED
    BY <1>4, <2>2 DEF OwnFrames
<1>6. OnCourse(g) => OnCourse(fibers[f])
  BY <1>4 DEF OnCourse
<1>. QED
  BY <1>1, <1>2, <1>3, <1>4, <1>5, <1>6, GoesOn

LEMMA ReplayKeeps ==
  ASSUME EveryKey, mem \in State, Threads(fibers, contexts), NEW f \in DOMAIN fibers, ReplayStep(f)
  PROVE  Threads(fibers', contexts')
<1>1. PICK k \in Key : k = CalledKey(f)
  BY CalledKeys DEF ReplayStep
<1>2. fibers[f].at = "body" /\ Proper(fibers[f])
  BY FiberFacts DEF ReplayStep, MayCall
<1>3. PICK h : h = [Calls(f, k) EXCEPT !.at = "body"]
  OBVIOUS
<1>4. /\ Proper(h) /\ h.at = "body" /\ h.main = fibers[f].main /\ h.ctx = fibers[f].ctx
      /\ h.stack = Called(fibers[f].stack, k) /\ Len(h.stack) >= 2
  BY <1>2, <1>3, CallFiber
<1>5. Calls(f, k) = h
  BY <1>2, <1>3 DEF Calls, Proper, Fiber
<1>6. PICK c : c = Numbered(ContextOf(f))
  OBVIOUS
<1>7. c \in Context /\ c.frames # <<>>
  BY <1>6, FiberFacts, NumberedFrames
<1>8. InContext(f, Entered(c, k)) /\ Goes(f, EnteredFiber(h, k))
  BY <1>1, <1>5, <1>6 DEF ReplayStep
<1>9. Last(h.stack) = [key |-> k, calls |-> 0]
  <2>1. PICK s \in Seq(Call) : s = fibers[f].stack /\ s # <<>>
    BY FiberFacts
  <2>2. Last(Called(s, k)) = [key |-> k, calls |-> 0]
    BY <2>1, CalledStack
  <2>. QED
    BY <1>4, <2>1, <2>2
<1>10. OwnFrames(fibers[f], ContextOf(f)) => Mirrors(c, Front(h.stack))
  BY <1>2, <1>4, <1>6, FiberFacts, MirrorCalled DEF OwnFrames
<1>11. OnCourse(fibers[f]) \/ ~h.main
  BY <1>2, <1>4 DEF OnCourse, Proper, Fiber
<1>. QED
  BY <1>4, <1>7, <1>8, <1>9, <1>10, <1>11, StepEntered

LEMMA EnterKeeps ==
  ASSUME mem \in State, Threads(fibers, contexts), NEW f \in DOMAIN fibers, EnterStep(f)
  PROVE  Threads(fibers', contexts')
<1>1. PICK h : h = fibers[f]
  OBVIOUS
<1>2. Proper(h) /\ h.at = "enter" /\ Len(h.stack) >= 2
  BY <1>1, FiberFacts DEF EnterStep, Proper
<1>3. PICK k \in Key : k = Body(f).key
  BY <1>1, <1>2, BodyKeys
<1>4. k = Last(h.stack).key
  BY <1>1, <1>3 DEF Body
<1>5. ContextOf(f) \in Context /\ ContextOf(f).frames # <<>>
  BY FiberFacts
<1>6. InContext(f, Entered(ContextOf(f), k)) /\ Goes(f, EnteredFiber(h, k))
  BY <1>1, <1>3 DEF EnterStep
<1>7. OwnFrames(fibers[f], ContextOf(f)) =>
        Mirrors(ContextOf(f), Front(h.stack)) /\ Last(h.stack).calls = 0
  BY <1>1, <1>2 DEF OwnFrames
<1>8. OnCourse(fibers[f]) \/ ~h.main
  BY <1>1, <1>2 DEF OnCourse, Proper, Fiber
<1>. QED
  BY <1>1, <1>2, <1>4, <1>5, <1>6, <1>7, <1>8, StepEntered

LEMMA TraceKeeps ==
  ASSUME EveryKey, Threads(fibers, contexts), NEW f \in DOMAIN fibers, TraceStep(f)
  PROVE  Threads(fibers', contexts')
<1>1. PICK k \in Key : k = CalledKey(f)
  BY CalledKeys DEF TraceStep
<1>2. fibers[f].at = "body" /\ Proper(fibers[f])
  BY FiberFacts DEF TraceStep, MayCall
<1>3. PICK h : h = [Calls(f, k) EXCEPT !.at = "enter"]
  OBVIOUS
<1>4. /\ Proper(h) /\ h.at = "enter" /\ h.main = fibers[f].main /\ h.ctx = fibers[f].ctx
      /\ h.stack = Called(fibers[f].stack, k)
  BY <1>2, <1>3, CallFiber
<1>5. PICK c : c = Numbered(ContextOf(f))
  OBVIOUS
<1>6. c \in Context /\ c.frames # <<>>
  BY <1>5, FiberFacts, NumberedFrames
<1>7. InContext(f, c) /\ Goes(f, h)
  BY <1>1, <1>3, <1>5 DEF TraceStep
<1>8. Last(h.stack) = [key |-> k, calls |-> 0]
  <2>1. PICK s \in Seq(Call) : s = fibers[f].stack /\ s # <<>>
    BY FiberFacts
  <2>2. Last(Called(s, k)) = [key |-> k, calls |-> 0]
    BY <2>1, CalledStack
  <2>. QED
    BY <1>4, <2>1, <2>2
<1>9. OwnFrames(fibers[f], ContextOf(f)) => Mirrors(c, Front(h.stack))
  BY <1>2, <1>4, <1>5, FiberFacts, MirrorCalled DEF OwnFrames
<1>10. OnCourse(h) => OnCourse(fibers[f])
  BY <1>2, <1>4 DEF OnCourse
<1>11. OwnFrames(fibers[f], ContextOf(f)) => OwnFrames(h, c)
  BY <1>4, <1>8, <1>9 DEF OwnFrames
<1>. QED
  BY <1>4, <1>6, <1>7, <1>10, <1>11, GoesOn

LEMMA CompleteKeeps ==
  ASSUME Threads(fibers, contexts), NEW f \in DOMAIN fibers, CompleteStep(f)
  PROVE  Threads(fibers', contexts')
<1>1. PICK h : h = [fibers[f] EXCEPT !.at = "save"]
  OBVIOUS
<1>2. Proper(fibers[f]) /\ Len(fibers[f].stack) >= 2 /\ fibers[f].at = "body"
  BY FiberFacts DEF CompleteStep, HasReturned, Wrapped
<1>3. /\ Proper(h) /\ h.at = "save" /\ h.main = fibers[f].main /\ h.ctx = fibers[f].ctx
      /\ h.stack = fibers[f].stack
  BY <1>1, <1>2, PauseFiber DEF At
<1>4. Goes(f, h) /\ UNCHANGED contexts
  BY <1>1 DEF CompleteStep
<1>5. /\ OnCourse(h) => OnCourse(fibers[f])
      /\ OwnFrames(fibers[f], ContextOf(f)) => OwnFrames(h, ContextOf(f))
  BY <1>2, <1>3 DEF OnCourse, OwnFrames
<1>. QED
  BY <1>3, <1>4, <1>5, GoesOnInPlace

LEMMA CompletedKeeps ==
  ASSUME Threads(fibers, contexts), NEW f \in DOMAIN fibers, StepCompleted(f)
  PROVE  Threads(fibers', contexts')
<1>1. PICK h : h = Returns(fibers[f])
  OBVIOUS
<1>2. fibers[f].at = "save" /\ Proper(fibers[f]) /\ Len(fibers[f].stack) >= 2
  BY FiberFacts DEF StepCompleted, Proper
<1>3. /\ Proper(h) /\ h.at = "body" /\ h.main = fibers[f].main /\ h.ctx = fibers[f].ctx
      /\ h.stack = Front(fibers[f].stack)
  BY <1>1, <1>2, ReturnFiber
<1>4. PICK c : c = ExitStep(ContextOf(f))
  OBVIOUS
<1>5. c \in Context /\ c.frames # <<>>
  BY <1>4, FiberFacts, ExitFrames
<1>6. InContext(f, c) /\ Goes(f, h)
  BY <1>1, <1>4 DEF StepCompleted
<1>7. OwnFrames(fibers[f], ContextOf(f)) => OwnFrames(h, c)
  BY <1>2, <1>3, <1>4, FiberFacts, MirrorExit DEF OwnFrames
<1>8. OnCourse(h) => OnCourse(fibers[f])
  BY <1>2, <1>3 DEF OnCourse
<1>. QED
  BY <1>3, <1>5, <1>6, <1>7, <1>8, GoesOn

(* Steps that leave a fiber throwing, or have it wait to.                  *)
LEMMA FailingKeeps ==
  ASSUME Threads(fibers, contexts), NEW f \in DOMAIN fibers,
         \/ DivergeStep(f) \/ BodyThrows(f) \/ ReturnDiverged(f)
         \/ ChargeFailure(f) \/ FailureCharged(f) \/ Rethrow(f)
  PROVE  Threads(fibers', contexts')
<1>1. Proper(fibers[f]) /\ ContextOf(f) \in Context /\ ContextOf(f).frames # <<>>
  BY FiberFacts
<1>2. CASE DivergeStep(f)
  <2>1. PICK h : h = Throws(fibers[f], "conflict")
    OBVIOUS
  <2>2. Proper(h) /\ ~OnCourse(h) /\ h.ctx = fibers[f].ctx
    BY <1>1, <2>1, ThrowFiber
  <2>3. PICK c : c = Numbered(ContextOf(f))
    OBVIOUS
  <2>4. c \in Context /\ c.frames # <<>>
    BY <1>1, <2>3, NumberedFrames
  <2>5. InContext(f, c) /\ Goes(f, h)
    BY <1>2, <2>1, <2>3 DEF DivergeStep
  <2>. QED
    BY <2>2, <2>4, <2>5, GoesOn
<1>3. ASSUME NEW kind \in {"error", "nondeterminism"},
             Goes(f, Throws(fibers[f], kind)), UNCHANGED contexts
      PROVE  Threads(fibers', contexts')
  <2>1. PICK h : h = Throws(fibers[f], kind)
    OBVIOUS
  <2>2. Proper(h) /\ ~OnCourse(h) /\ h.ctx = fibers[f].ctx
    BY <1>1, <2>1, ThrowFiber
  <2>. QED
    BY <1>3, <2>1, <2>2, GoesOnInPlace
<1>4. CASE BodyThrows(f)
  BY <1>3, <1>4 DEF BodyThrows
<1>5. CASE ReturnDiverged(f)
  BY <1>3, <1>5 DEF ReturnDiverged
<1>6. CASE ChargeFailure(f)
  <2>1. PICK h : h = [fibers[f] EXCEPT !.at = "charge"]
    OBVIOUS
  <2>2. Len(fibers[f].stack) >= 2
    BY <1>6, FiberFacts DEF ChargeFailure, Wrapped
  <2>3. Proper(h) /\ h.at = "charge" /\ h.ctx = fibers[f].ctx
    BY <1>1, <2>1, <2>2, PauseFiber DEF At
  <2>4. ~OnCourse(h)
    BY <2>3 DEF OnCourse
  <2>5. Goes(f, h) /\ UNCHANGED contexts
    BY <1>6, <2>1 DEF ChargeFailure
  <2>. QED
    BY <2>3, <2>4, <2>5, GoesOnInPlace
<1>7. ASSUME NEW kind \in {"none", "error", "retry", "conflict", "nondeterminism"},
             Len(fibers[f].stack) >= 2,
             Goes(f, Throws(Returns(fibers[f]), kind)), InContext(f, ExitStep(ContextOf(f)))
      PROVE  Threads(fibers', contexts')
  <2>1. PICK g : g = Returns(fibers[f])
    OBVIOUS
  <2>2. Proper(g) /\ g.ctx = fibers[f].ctx
    BY <1>1, <1>7, <2>1, ReturnFiber
  <2>3. PICK h : h = Throws(g, kind)
    OBVIOUS
  <2>4. Proper(h) /\ ~OnCourse(h) /\ h.ctx = fibers[f].ctx
    BY <2>2, <2>3, ThrowFiber
  <2>5. PICK c : c = ExitStep(ContextOf(f))
    OBVIOUS
  <2>6. c \in Context /\ c.frames # <<>>
    BY <1>1, <2>5, ExitFrames
  <2>7. InContext(f, c) /\ Goes(f, h)
    BY <1>7, <2>1, <2>3, <2>5
  <2>. QED
    BY <2>4, <2>6, <2>7, GoesOn
<1>8. CASE FailureCharged(f)
  <2>1. Len(fibers[f].stack) >= 2
    BY <1>1, <1>8 DEF FailureCharged, Proper
  <2>. QED
    BY <1>7, <1>8, <2>1 DEF FailureCharged
<1>9. CASE Rethrow(f)
  <2>1. Len(fibers[f].stack) >= 2
    BY <1>9, FiberFacts DEF Rethrow, Wrapped
  <2>2. fibers[f].err \in {"none", "error", "retry", "conflict", "nondeterminism"}
    BY <1>1 DEF Proper, Fiber
  <2>. QED
    BY <1>7, <1>9, <2>1, <2>2 DEF Rethrow
<1>. QED
  BY <1>2, <1>4, <1>5, <1>6, <1>8, <1>9

LEMMA TimeOutKeeps ==
  ASSUME Threads(fibers, contexts), NEW f \in DOMAIN fibers, NEW i, TimeOut(f, i)
  PROVE  Threads(fibers', contexts')
<1>1. /\ Proper(fibers[f]) /\ i \in 2 .. Len(fibers[f].stack)
      /\ i < Len(fibers[f].stack) \/ fibers[f].at = "body"
  BY FiberFacts DEF TimeOut
<1>2. PICK g : g = TimedOut(f, i)
  OBVIOUS
<1>3. PICK h : h = [fibers[f] EXCEPT !.main = FALSE, !.stack = SubSeq(@, i, Len(@))]
  OBVIOUS
<1>4. /\ Proper(g) /\ g.ctx = fibers[f].ctx /\ ~OnCourse(g)
      /\ Proper(h) /\ h.ctx = fibers[f].ctx /\ ~OnCourse(h)
  BY <1>1, <1>2, <1>3, SplitFiber DEF TimedOut
<1>5. fibers' = [fibers EXCEPT ![f] = g] \o <<h>>
  BY <1>2, <1>3 DEF TimeOut, GivenUp
<1>6. Threads([fibers EXCEPT ![f] = g] \o <<h>>, contexts)
  BY <1>4, ThreadSplits
<1>. QED
  BY <1>5, <1>6 DEF TimeOut

LEMMA EndingKeeps ==
  ASSUME Threads(fibers, contexts), NEW f \in DOMAIN fibers,
         DropLateResult(f) \/ Complete(f) \/ Fail(f) \/ Retry(f)
  PROVE  Threads(fibers', contexts')
<1>1. Threads(RemoveAt(fibers, f), contexts)
  BY ThreadEnds
<1>2. CASE DropLateResult(f) \/ Complete(f) \/ Fail(f)
  BY <1>1, <1>2 DEF DropLateResult, Complete, Fail, Ends
<1>3. CASE Retry(f)
  BY <1>1, <1>3, ThreadBegins DEF Retry
<1>. QED
  BY <1>2, <1>3

-----------------------------------------------------------------------------
(* The inductive invariant *)

LEMMA WriteKeeps ==
  ASSUME NEW d \in State, WithinBudget(d), Write(d)
  PROVE  StatesInv'
<1>1. store' = d /\ mem' = d
  BY DEF Write
<1>. QED
  BY <1>1 DEF StatesInv, WithinBudget

LEMMA StepKeepsStates ==
  ASSUME EveryKey, StatesInv, Threads(fibers, contexts), NEW f \in DOMAIN fibers, Step(f)
  PROVE  StatesInv'
<1>. USE DEF Step
<1>1. ASSUME UNCHANGED <<store, mem>>
      PROVE  StatesInv'
  BY <1>1 DEF StatesInv, WithinBudget
<1>2. mem \in State /\ WithinBudget(mem)
  BY DEF StatesInv
<1>3. CASE \/ ReplayStep(f) \/ DivergeStep(f) \/ EnterStep(f) \/ StepCompleted(f)
           \/ BodyThrows(f) \/ \E i \in DOMAIN fibers[f].stack : TimeOut(f, i)
           \/ FailureCharged(f) \/ Rethrow(f) \/ DropLateResult(f) \/ ReturnDiverged(f)
  BY <1>1, <1>3 DEF ReplayStep, DivergeStep, EnterStep, StepCompleted, BodyThrows, TimeOut,
                    FailureCharged, Rethrow, DropLateResult, ReturnDiverged
<1>4. CASE TraceStep(f)
  <2>1. PICK k \in Key : k = CalledKey(f)
    BY <1>4, CalledKeys DEF TraceStep
  <2>2. Write(RecordStep(mem, k))
    BY <1>4, <2>1 DEF TraceStep
  <2>. QED
    BY <1>2, <2>2, WriteOps, WriteKeeps
<1>5. CASE CompleteStep(f)
  <2>1. PICK v \in Value : Write(SaveStepResult(mem, Body(f).key, v))
    BY <1>5 DEF CompleteStep
  <2>2. Len(fibers[f].stack) >= 2
    BY <1>5, FiberFacts DEF CompleteStep, Wrapped
  <2>3. PICK k \in Key : k = Body(f).key
    BY <2>2, FiberFacts, BodyKeys
  <2>. QED
    BY <1>2, <2>1, <2>3, WriteOps, WriteKeeps
<1>6. CASE ChargeFailure(f)
  <2>1. Len(fibers[f].stack) >= 2
    BY <1>6, FiberFacts DEF ChargeFailure, Wrapped
  <2>2. PICK k \in Key : k = Body(f).key
    BY <2>1, FiberFacts, BodyKeys
  <2>3. mem.a[k] + 1 < Attempts[k.name] /\ Write(IncrementStepRetryCount(mem, k))
    BY <1>6, <2>2 DEF ChargeFailure, MayRetry
  <2>. QED
    BY <1>2, <2>3, WriteOps, WriteKeeps
<1>7. CASE Complete(f)
  <2>1. Write(MarkCompleted(mem, <<>>))
    BY <1>7 DEF Complete
  <2>. QED
    BY <1>2, <2>1, WriteOps, WriteKeeps
<1>8. CASE Retry(f)
  <2>1. Write(MarkRunning(mem))
    BY <1>8 DEF Retry, Attempt
  <2>. QED
    BY <1>2, <2>1, WriteOps, WriteKeeps
<1>9. CASE Fail(f)
  <2>1. PICK kind \in ErrorKind \cup {"none"} : kind = fibers[f].err
    BY FiberFacts DEF Proper, Fiber, ErrorKind
  <2>2. Write(MarkFailed(mem, kind))
    BY <1>9, <2>1 DEF Fail
  <2>. QED
    BY <1>2, <2>1, <2>2, WriteOps, WriteKeeps
<1>. QED
  BY <1>3, <1>4, <1>5, <1>6, <1>7, <1>8, <1>9

LEMMA StepKeepsThreads ==
  ASSUME EveryKey, StatesInv, Threads(fibers, contexts), NEW f \in DOMAIN fibers, Step(f)
  PROVE  Threads(fibers', contexts')
<1>1. mem \in State
  BY DEF StatesInv
<1>2. CASE ReplayStep(f)
  BY <1>1, <1>2, ReplayKeeps
<1>3. CASE EnterStep(f)
  BY <1>1, <1>3, EnterKeeps
<1>4. CASE TraceStep(f)
  BY <1>4, TraceKeeps
<1>5. CASE CompleteStep(f)
  BY <1>5, CompleteKeeps
<1>6. CASE StepCompleted(f)
  BY <1>6, CompletedKeeps
<1>7. CASE \/ DivergeStep(f) \/ BodyThrows(f) \/ ReturnDiverged(f)
           \/ ChargeFailure(f) \/ FailureCharged(f) \/ Rethrow(f)
  BY <1>7, FailingKeeps
<1>8. CASE \E i \in DOMAIN fibers[f].stack : TimeOut(f, i)
  BY <1>8, TimeOutKeeps
<1>9. CASE DropLateResult(f) \/ Complete(f) \/ Fail(f) \/ Retry(f)
  BY <1>9, EndingKeeps
<1>. QED
  BY <1>2, <1>3, <1>4, <1>5, <1>6, <1>7, <1>8, <1>9 DEF Step

LEMMA StepKeepsCounters ==
  ASSUME CountersInv, NEW f \in DOMAIN fibers, Step(f)
  PROVE  CountersInv'
<1>1. CASE Proceeds
  BY <1>1 DEF CountersInv, Proceeds
<1>2. CASE Complete(f) \/ Fail(f)
  BY <1>2 DEF CountersInv, Complete, Fail
<1>3. CASE Retry(f)
  <2>1. fibers[f].err = "retry" \/ failures + 1 < WorkflowAttempts
    BY <1>3, TimeoutAssumption DEF Retry, Fatal, CountersInv
  <2>2. failures' \in 0 .. WorkflowAttempts - 1
    BY <1>3, <2>1, TimeoutAssumption DEF Retry, CountersInv
  <2>. QED
    BY <1>3, <2>2 DEF Retry, CountersInv
<1>. QED
  BY <1>1, <1>2, <1>3
     DEF Step, ReplayStep, DivergeStep, TraceStep, EnterStep, CompleteStep, StepCompleted,
         BodyThrows, TimeOut, ChargeFailure, FailureCharged, Rethrow, DropLateResult, ReturnDiverged

LEMMA NoThreads == Threads(<<>>, <<>>)
  BY DEF Threads

LEMMA InitIInv == ASSUME EveryKey, Init PROVE IInv
<1>1. WithinBudget(InitialState)
  BY AttemptsOfKey DEF WithinBudget, InitialState
<1>2. StatesInv
  BY <1>1, InitialStateType DEF Init, StatesInv
<1>3. CountersInv
  BY TimeoutAssumption DEF Init, CountersInv
<1>. QED
  BY <1>2, <1>3, NoThreads DEF Init, IInv

LEMMA NextIInv == ASSUME EveryKey, IInv, [Next]_vars PROVE IInv'
<1>1. StatesInv /\ Threads(fibers, contexts) /\ CountersInv
  BY DEF IInv
<1>2. ASSUME NEW f \in DOMAIN fibers, Step(f)
      PROVE  IInv'
  BY <1>1, <1>2, StepKeepsStates, StepKeepsThreads, StepKeepsCounters DEF IInv
<1>3. CASE Run
  <2>1. Threads(<<>>, contexts)
    BY <1>1 DEF Threads
  <2>2. Threads(fibers', contexts')
    BY <1>3, <2>1, ThreadBegins DEF Run
  <2>3. StatesInv'
    <3>1. Write(MarkRunning(mem)) /\ mem \in State /\ WithinBudget(mem)
      BY <1>1, <1>3 DEF Run, Attempt, StatesInv
    <3>. QED
      BY <3>1, WriteOps, WriteKeeps
  <2>4. CountersInv'
    BY <1>1, <1>3 DEF Run, CountersInv
  <2>. QED
    BY <2>2, <2>3, <2>4 DEF IInv
<1>4. CASE Crash
  <2>1. Threads(fibers', contexts')
    BY <1>4, NoThreads DEF Crash
  <2>2. StatesInv'
    BY <1>1, <1>4 DEF Crash, StatesInv, WithinBudget
  <2>3. CountersInv'
    BY <1>1, <1>4, TimeoutAssumption DEF Crash, CountersInv
  <2>. QED
    BY <2>1, <2>2, <2>3 DEF IInv
<1>5. CASE UNCHANGED vars
  BY <1>1, <1>5 DEF vars, IInv, StatesInv, CountersInv, WithinBudget
<1>. QED
  BY <1>2, <1>3, <1>4, <1>5 DEF Next, Ended

LEMMA Invariant == ASSUME EveryKey PROVE Spec => []IInv
  BY InitIInv, NextIInv, PTL DEF Spec

-----------------------------------------------------------------------------
(* Theorems *)

(* The states, contexts and fibers of a process keep their shape: every    *)
(* body that goes on, whoever gave it up, is in a context that is there.   *)
THEOREM TimeoutsAreTyped == ASSUME EveryKey PROVE Spec => []TimeoutTypeOK
<1>1. ASSUME IInv
      PROVE  TimeoutTypeOK
  BY <1>1 DEF IInv, StatesInv, Threads, Proper, CountersInv, TimeoutTypeOK
<1>. QED
  BY <1>1, Invariant, PTL

(* The wrappers of a step charge it no failure beyond its attempts, those  *)
(* of bodies that go on since an attempt that is over included.            *)
THEOREM StepsKeepTheirBudget == ASSUME EveryKey PROVE Spec => []RetryBudget
<1>1. ASSUME IInv
      PROVE  RetryBudget
  BY <1>1 DEF IInv, StatesInv, WithinBudget, RetryBudget
<1>. QED
  BY <1>1, Invariant, PTL

(* The frames of an attempt are those of its own open calls for as long as *)
(* none of its steps fails: no body of an earlier attempt is in its        *)
(* context.                                                                *)
THEOREM AttemptsDoNotMix == ASSUME EveryKey PROVE Spec => []AttemptsAreIsolated
<1>1. ASSUME IInv, NEW f \in DOMAIN fibers, fibers[f].main, fibers[f].at = "body"
      PROVE  ContextOf(f).frames =
               [i \in DOMAIN fibers[f].stack |->
                  [path |-> fibers[f].stack[i].key.path, next |-> fibers[f].stack[i].calls]]
  <2>1. PICK s \in Seq(Call) : s = fibers[f].stack
    BY <1>1 DEF IInv, Threads, Proper, Fiber
  <2>2. PICK q \in Seq(Frame) : q = ContextOf(f).frames
    <3>1. ContextOf(f) \in Context
      BY <1>1, FiberFacts DEF IInv
    <3>. QED
      BY <3>1 DEF Context
  <2>3. Mirrors(ContextOf(f), s)
    BY <1>1, <2>1 DEF IInv, Threads, OnCourse, OwnFrames, ContextOf
  <2>4. /\ DOMAIN q = DOMAIN s
        /\ \A i \in DOMAIN s : q[i] = [path |-> s[i].key.path, next |-> s[i].calls]
    BY <2>2, <2>3 DEF Mirrors
  <2>5. q = [i \in DOMAIN s |-> [path |-> s[i].key.path, next |-> s[i].calls]]
    BY <2>2, <2>4
  <2>. QED
    BY <2>1, <2>2, <2>5
<1>2. IInv => AttemptsAreIsolated
  BY <1>1 DEF AttemptsAreIsolated
<1>. QED
  BY <1>2, Invariant, PTL
=============================================================================
