---------------------------- MODULE InputsProofs ----------------------------
(***************************************************************************)
(* Of the retry options and of the workflow registry: that the functions   *)
(* do what is expected of them for all inputs, whatever their size.        *)
(*                                                                         *)
(* The functions that recurse do so over natural numbers.  Their equations *)
(* hold because a function with such an equation exists, up to each bound: *)
(* this is shown by induction, for which a set of the numbers that have a  *)
(* property stands for the property (Induction).                           *)
(***************************************************************************)
EXTENDS Inputs, WellFoundedInduction, TLAPS

(* A set of natural numbers that has 0 and is closed under the successor   *)
(* has them all.                                                           *)
LEMMA Induction ==
  ASSUME NEW S, 0 \in S, \A n \in Nat : n \in S => n + 1 \in S
  PROVE  \A n \in Nat : n \in S
<1>. DEFINE R == OpToRel(<, Nat)
            T == {n \in Nat : n \notin S}
<1>1. IsWellFoundedOn(R, Nat)
  BY NatLessThanWellFounded
<1>. SUFFICES ASSUME T # {} PROVE FALSE
  OBVIOUS
<1>2. PICK m \in T : \A n \in T : ~(<<n, m>> \in R)
  <2>1. T \subseteq Nat
    OBVIOUS
  <2>. HIDE DEF R, T
  <2>. QED
    BY <1>1, <2>1, WFMin
<1>3. m \in Nat /\ m \notin S /\ m # 0 /\ m - 1 \in Nat /\ m = (m - 1) + 1
  <2>. HIDE DEF R
  <2>. QED
    BY <1>2
<1>4. m - 1 \in T
  <2>. HIDE DEF R
  <2>. QED
    BY <1>3
<1>5. <<m - 1, m>> \in R
  BY <1>3 DEF OpToRel
<1>. QED
  BY <1>2, <1>4, <1>5

-----------------------------------------------------------------------------
(* Powers of two *)

IsPower(f, n) == f = [i \in 0 .. n |-> IF i = 0 THEN 1 ELSE 2 * f[i - 1]]

LEMMA PowersExist == \A n \in Nat : \E f : IsPower(f, n)
<1>. DEFINE S == {n \in Nat : \E f : IsPower(f, n)}
<1>1. 0 \in S
  <2>1. IsPower([i \in 0 .. 0 |-> 1], 0)
    BY DEF IsPower
  <2>. QED
    BY <2>1
<1>2. ASSUME NEW n \in Nat, n \in S
      PROVE  n + 1 \in S
  <2>1. PICK f : IsPower(f, n)
    BY <1>2
  <2>. DEFINE g == [i \in 0 .. n + 1 |-> IF i = n + 1 THEN 2 * f[n] ELSE f[i]]
  <2>2. \A i \in 0 .. n + 1 : g[i] = IF i = 0 THEN 1 ELSE 2 * g[i - 1]
    BY <2>1 DEF IsPower
  <2>3. IsPower(g, n + 1)
    BY <2>2 DEF IsPower
  <2>. QED
    BY <2>3
<1>. HIDE DEF S
<1>3. \A n \in Nat : n \in S
  BY <1>1, <1>2, Induction
<1>. QED
  BY <1>3 DEF S

LEMMA PowersAgree ==
  ASSUME NEW n \in Nat, NEW f, IsPower(f, n), NEW m \in Nat, NEW g, IsPower(g, m)
  PROVE  \A i \in Nat : i <= n /\ i <= m => f[i] = g[i]
<1>. DEFINE S == {i \in Nat : i <= n /\ i <= m => f[i] = g[i]}
<1>1. 0 \in S
  BY DEF IsPower
<1>2. ASSUME NEW i \in Nat, i \in S
      PROVE  i + 1 \in S
  BY <1>2 DEF IsPower
<1>. HIDE DEF S
<1>3. \A i \in Nat : i \in S
  BY <1>1, <1>2, Induction
<1>. QED
  BY <1>3 DEF S

LEMMA PowerEquation ==
  /\ PowerOfTwo[0] = 1
  /\ \A n \in Nat : PowerOfTwo[n + 1] = 2 * PowerOfTwo[n]
<1>. DEFINE upTo(n) == CHOOSE f : IsPower(f, n)
            power == [n \in Nat |-> upTo(n)[n]]
<1>1. \A n \in Nat : IsPower(upTo(n), n)
  BY PowersExist
<1>2. \A n \in Nat \ {0} : power[n] = 2 * power[n - 1]
  <2>. SUFFICES ASSUME NEW n \in Nat \ {0}
                PROVE  power[n] = 2 * power[n - 1]
    OBVIOUS
  <2>1. n - 1 \in Nat /\ IsPower(upTo(n), n) /\ IsPower(upTo(n - 1), n - 1)
    BY <1>1
  <2>2. upTo(n)[n - 1] = upTo(n - 1)[n - 1]
    <3>. HIDE DEF upTo
    <3>. QED
      BY <2>1, PowersAgree
  <2>3. upTo(n)[n] = 2 * upTo(n)[n - 1]
    <3>. HIDE DEF upTo
    <3>. QED
      BY <2>1 DEF IsPower
  <2>. QED
    BY <2>1, <2>2, <2>3
<1>3. power[0] = 1
  <2>. HIDE DEF upTo
  <2>. QED
    BY <1>1 DEF IsPower
<1>. DEFINE equation(f) == f = [n \in Nat |-> IF n = 0 THEN 1 ELSE 2 * f[n - 1]]
<1>4. equation(power)
  <2>1. \A n \in Nat : power[n] = IF n = 0 THEN 1 ELSE 2 * power[n - 1]
    BY <1>2, <1>3
  <2>2. power = [n \in Nat |-> power[n]]
    OBVIOUS
  <2>. HIDE DEF power
  <2>. QED
    BY <2>1, <2>2
<1>5. equation(PowerOfTwo)
  <2>. HIDE DEF power
  <2>. QED
    BY <1>4 DEF PowerOfTwo
<1>. QED
  BY <1>5

LEMMA PowersGrow ==
  /\ \A n \in Nat : PowerOfTwo[n] \in Nat \ {0}
  /\ \A m, n \in Nat : m <= n => PowerOfTwo[m] <= PowerOfTwo[n]
<1>. DEFINE P == {n \in Nat : PowerOfTwo[n] \in Nat \ {0}}
<1>1. \A n \in Nat : n \in P
  <2>1. 0 \in P
    BY PowerEquation
  <2>2. \A n \in Nat : n \in P => n + 1 \in P
    BY PowerEquation
  <2>. HIDE DEF P
  <2>. QED
    BY <2>1, <2>2, Induction
<1>. DEFINE M == {n \in Nat : \A m \in 0 .. n : PowerOfTwo[m] <= PowerOfTwo[n]}
<1>2. \A n \in Nat : n \in M
  <2>1. 0 \in M
    BY <1>1
  <2>2. ASSUME NEW n \in Nat, n \in M
        PROVE  n + 1 \in M
    <3>1. PowerOfTwo[n + 1] = 2 * PowerOfTwo[n] /\ PowerOfTwo[n] \in Nat
      BY <1>1, PowerEquation
    <3>2. ASSUME NEW m \in 0 .. n + 1
          PROVE  PowerOfTwo[m] <= PowerOfTwo[n + 1]
      <4>1. PowerOfTwo[m] \in Nat
        BY <1>1, <3>2
      <4>2. m # n + 1 => PowerOfTwo[m] <= PowerOfTwo[n]
        BY <2>2, <3>2
      <4>. QED
        BY <3>1, <4>1, <4>2
    <3>. QED
      BY <3>2
  <2>. HIDE DEF M
  <2>. QED
    BY <2>1, <2>2, Induction
<1>. QED
  BY <1>1, <1>2

-----------------------------------------------------------------------------
(* Pauses *)

LEMMA FactorsGrow ==
  ASSUME NEW strategy \in Strategy
  PROVE  /\ \A n \in Nat \ {0} : Factor(strategy, n) \in Nat \ {0}
         /\ \A m, n \in Nat \ {0} : m <= n => Factor(strategy, m) <= Factor(strategy, n)
  BY PowersGrow DEF Factor, Strategy

LEMMA Times ==
  ASSUME NEW b \in Nat, NEW m \in Nat, NEW n \in Nat, m <= n
  PROVE  /\ b * m \in Nat
         /\ b * m <= b * n
<1>1. PICK k \in Nat : n = m + k
  BY n - m \in Nat, n = m + (n - m)
<1>2. b * n = b * m + b * k /\ b * k \in Nat /\ b * m \in Nat
  BY <1>1
<1>. QED
  BY <1>2

(* A pause is the base times the factor, unless it is too long.            *)
LEMMA PauseIsProduct ==
  ASSUME NEW base \in Int, NEW strategy \in Strategy, NEW n \in Nat \ {0}
  PROVE  LET pause == Pause(ResolveRetryDelayMs(base, strategy, n))
             product == AtLeast(0, base * Factor(strategy, n))
         IN /\ product \in Nat
            /\ product <= MaxTimer => pause = product
            /\ product > MaxTimer => pause = 1
<1>. DEFINE b == AtLeast(0, base)
            f == Factor(strategy, n)
<1>1. b \in Nat /\ f \in Nat \ {0}
  BY FactorsGrow DEF AtLeast
<1>2. ResolveRetryDelayMs(base, strategy, n) = b * f
  <2>1. AtLeast(1, n) = n
    BY DEF AtLeast
  <2>. QED
    BY <1>1, <2>1 DEF ResolveRetryDelayMs, Factor, Strategy
<1>3. AtLeast(0, base * f) = b * f /\ b * f \in Nat
  <2>1. CASE base >= 0
    <3>1. b = base /\ base * f \in Nat
      BY <1>1, <2>1 DEF AtLeast
    <3>. QED
      BY <3>1 DEF AtLeast
  <2>2. CASE base < 0
    <3>1. b = 0
      BY <2>2 DEF AtLeast
    <3>2. PICK a \in Nat \ {0} : base = 0 - a
      BY <2>2, 0 - base \in Nat \ {0}, base = 0 - (0 - base)
    <3>3. a * f \in Nat \ {0} /\ base * f = 0 - a * f
      BY <1>1, <3>2
    <3>. QED
      BY <1>1, <3>1, <3>3 DEF AtLeast
  <2>. QED
    BY <2>1, <2>2
<1>4. MaxTimer \in Nat \ {0}
  BY MaxTimerAssumption
<1>. HIDE DEF b, f
<1>5. b * f > 0 => Pause(b * f) = IF b * f > MaxTimer THEN 1 ELSE b * f
  BY <1>3 DEF Pause, SetTimeout
<1>6. b * f = 0 => Pause(b * f) = 0
  BY <1>3 DEF Pause
<1>7. f = Factor(strategy, n)
  BY DEF f
<1>. QED
  BY <1>2, <1>3, <1>4, <1>5, <1>6, <1>7

(* Of an operation that fails for good: the pauses of a base, a strategy   *)
(* and a number of attempts.                                               *)
PausesWith(base, strategy, attempts) ==
  [n \in 1 .. attempts - 1 |-> Pause(ResolveRetryDelayMs(base, strategy, n))]

LEMMA PausesFollow ==
  ASSUME NEW base \in Int, NEW strategy \in Strategy, NEW attempts \in Nat \ {0}, NEW pauses,
         pauses = PausesWith(base, strategy, attempts)
  PROVE  /\ Len(pauses) + 1 = attempts
         /\ \A n \in DOMAIN pauses :
              base * Factor(strategy, n) <= MaxTimer =>
                pauses[n] = AtLeast(0, base * Factor(strategy, n))
         /\ \A m, n \in DOMAIN pauses :
              m < n /\ base * Factor(strategy, n) <= MaxTimer => pauses[m] <= pauses[n]
<1>. DEFINE f(n) == Factor(strategy, n)
<1>. USE DEF PausesWith
<1>1. attempts - 1 \in Nat /\ DOMAIN pauses = 1 .. attempts - 1 /\ Len(pauses) = attempts - 1
  OBVIOUS
<1>2. MaxTimer \in Nat
  BY MaxTimerAssumption
<1>3. ASSUME NEW n \in DOMAIN pauses
      PROVE  /\ n \in Nat \ {0} /\ f(n) \in Nat \ {0}
             /\ base * f(n) \in Int
             /\ base * f(n) <= MaxTimer => pauses[n] = AtLeast(0, base * f(n))
  <2>1. n \in Nat \ {0} /\ f(n) \in Nat \ {0}
    BY <1>1, FactorsGrow
  <2>2. base * f(n) \in Int
    BY <2>1
  <2>3. base * f(n) <= MaxTimer => AtLeast(0, base * f(n)) <= MaxTimer
    BY <1>2, <2>2 DEF AtLeast
  <2>4. pauses[n] = Pause(ResolveRetryDelayMs(base, strategy, n))
    BY <1>1
  <2>. QED
    BY <2>1, <2>2, <2>3, <2>4, PauseIsProduct
<1>4. ASSUME NEW m \in DOMAIN pauses, NEW n \in DOMAIN pauses, m < n, base * f(n) <= MaxTimer
      PROVE  pauses[m] <= pauses[n]
  <2>1. f(m) <= f(n) /\ {f(m), f(n)} \subseteq Nat \ {0}
    BY <1>3, <1>4, FactorsGrow
  <2>2. AtLeast(0, base * f(m)) <= AtLeast(0, base * f(n)) /\ base * f(m) <= MaxTimer
    <3>. HIDE DEF f
    <3>1. CASE base \in Nat
      <4>1. base * f(m) \in Nat /\ base * f(n) \in Nat /\ base * f(m) <= base * f(n)
        BY <2>1, <3>1, Times
      <4>. QED
        BY <1>2, <1>4, <4>1 DEF AtLeast
    <3>2. CASE base \notin Nat
      <4>1. PICK a \in Nat : base = 0 - a
        BY <3>2, 0 - base \in Nat, base = 0 - (0 - base)
      <4>2. /\ a * f(m) \in Nat /\ base * f(m) = 0 - a * f(m)
            /\ a * f(n) \in Nat /\ base * f(n) = 0 - a * f(n)
        BY <2>1, <4>1
      <4>. QED
        BY <1>2, <4>2 DEF AtLeast
    <3>. QED
      BY <3>1, <3>2
  <2>. QED
    BY <1>3, <1>4, <2>2
<1>. QED
  BY <1>1, <1>3, <1>4

-----------------------------------------------------------------------------
(* Merging *)

(* The least of up to four places. *)
LEMMA LeastPlace ==
  \A S : S \subseteq 1 .. 4 =>
    /\ 1 \in S => Min(S) = 1
    /\ 1 \notin S /\ 2 \in S => Min(S) = 2
    /\ 1 \notin S /\ 2 \notin S /\ 3 \in S => Min(S) = 3
    /\ 1 \notin S /\ 2 \notin S /\ 3 \notin S /\ 4 \in S => Min(S) = 4
<1>. SUFFICES ASSUME NEW S, S \subseteq 1 .. 4
              PROVE  /\ 1 \in S => Min(S) = 1
                     /\ 1 \notin S /\ 2 \in S => Min(S) = 2
                     /\ 1 \notin S /\ 2 \notin S /\ 3 \in S => Min(S) = 3
                     /\ 1 \notin S /\ 2 \notin S /\ 3 \notin S /\ 4 \in S => Min(S) = 4
  OBVIOUS
<1>1. ASSUME NEW i \in S, \A j \in S : i <= j
      PROVE  Min(S) = i
  <2>1. \A k \in S : (\A j \in S : k <= j) => k = i
    BY <1>1
  <2>. QED
    BY <1>1, <2>1 DEF Min
<1>2. 1 \in S => \A j \in S : 1 <= j
  OBVIOUS
<1>3. 1 \notin S /\ 2 \in S => \A j \in S : 2 <= j
  OBVIOUS
<1>4. 1 \notin S /\ 2 \notin S /\ 3 \in S => \A j \in S : 3 <= j
  OBVIOUS
<1>5. 1 \notin S /\ 2 \notin S /\ 3 \notin S /\ 4 \in S => \A j \in S : 4 <= j
  OBVIOUS
<1>. QED
  BY <1>1, <1>2, <1>3, <1>4, <1>5

LEMMA FirstOfTwo ==
  \A a, b : FirstGiven(<<a, b>>) = IF a # {} THEN a ELSE b
<1>. SUFFICES ASSUME NEW a, NEW b
              PROVE  FirstGiven(<<a, b>>) = IF a # {} THEN a ELSE b
  OBVIOUS
<1>. DEFINE given == {i \in DOMAIN <<a, b>> : <<a, b>>[i] # {}}
<1>1. /\ given \subseteq {1, 2} /\ given \subseteq 1 .. 4
      /\ (1 \in given <=> a # {}) /\ (2 \in given <=> b # {})
  OBVIOUS
<1>2. FirstGiven(<<a, b>>) = IF given = {} THEN {} ELSE <<a, b>>[Min(given)]
  BY DEF FirstGiven
<1>. HIDE DEF given
<1>3. /\ 1 \in given => Min(given) = 1
      /\ 1 \notin given /\ 2 \in given => Min(given) = 2
  BY <1>1, LeastPlace
<1>. QED
  BY <1>1, <1>2, <1>3

LEMMA FirstOfThree ==
  \A a, b, c :
    FirstGiven(<<a, b, c>>) = IF a # {} THEN a ELSE IF b # {} THEN b ELSE c
<1>. SUFFICES ASSUME NEW a, NEW b, NEW c
              PROVE  FirstGiven(<<a, b, c>>) = IF a # {} THEN a ELSE IF b # {} THEN b ELSE c
  OBVIOUS
<1>. DEFINE given == {i \in DOMAIN <<a, b, c>> : <<a, b, c>>[i] # {}}
<1>1. /\ given \subseteq {1, 2, 3} /\ given \subseteq 1 .. 4
      /\ (1 \in given <=> a # {}) /\ (2 \in given <=> b # {}) /\ (3 \in given <=> c # {})
  OBVIOUS
<1>2. FirstGiven(<<a, b, c>>) = IF given = {} THEN {} ELSE <<a, b, c>>[Min(given)]
  BY DEF FirstGiven
<1>. HIDE DEF given
<1>3. /\ 1 \in given => Min(given) = 1
      /\ 1 \notin given /\ 2 \in given => Min(given) = 2
      /\ 1 \notin given /\ 2 \notin given /\ 3 \in given => Min(given) = 3
  BY <1>1, LeastPlace
<1>. QED
  BY <1>1, <1>2, <1>3

LEMMA FirstOfFour ==
  \A a, b, c, d :
    FirstGiven(<<a, b, c, d>>) =
      IF a # {} THEN a ELSE IF b # {} THEN b ELSE IF c # {} THEN c ELSE d
<1>. SUFFICES ASSUME NEW a, NEW b, NEW c, NEW d
              PROVE  FirstGiven(<<a, b, c, d>>) =
                       IF a # {} THEN a ELSE IF b # {} THEN b ELSE IF c # {} THEN c ELSE d
  OBVIOUS
<1>. DEFINE given == {i \in DOMAIN <<a, b, c, d>> : <<a, b, c, d>>[i] # {}}
<1>1. /\ given \subseteq 1 .. 4
      /\ (1 \in given <=> a # {}) /\ (2 \in given <=> b # {})
      /\ (3 \in given <=> c # {}) /\ (4 \in given <=> d # {})
  OBVIOUS
<1>2. FirstGiven(<<a, b, c, d>>) = IF given = {} THEN {} ELSE <<a, b, c, d>>[Min(given)]
  BY DEF FirstGiven
<1>. HIDE DEF given
<1>3. /\ 1 \in given => Min(given) = 1
      /\ 1 \notin given /\ 2 \in given => Min(given) = 2
      /\ 1 \notin given /\ 2 \notin given /\ 3 \in given => Min(given) = 3
      /\ 1 \notin given /\ 2 \notin given /\ 3 \notin given /\ 4 \in given => Min(given) = 4
  BY <1>1, LeastPlace
<1>. QED
  BY <1>1, <1>2, <1>3

-----------------------------------------------------------------------------
(* What is given nearest to the step, or to the workflow. *)
LEMMA NearestOfTwo ==
  ASSUME NEW a, NEW b
  PROVE  /\ NearestDelay(<<a, b>>) = IF DelayOf(a) # {} THEN DelayOf(a) ELSE DelayOf(b)
         /\ NearestAttempts(<<a, b>>) = IF a.attempts # {} THEN a.attempts ELSE b.attempts
         /\ NearestStrategy(<<a, b>>) = IF a.strategy # {} THEN a.strategy ELSE b.strategy
<1>1. NearestDelay(<<a, b>>) = FirstGiven(<<DelayOf(a), DelayOf(b)>>)
  BY DEF NearestDelay
<1>2. NearestAttempts(<<a, b>>) = FirstGiven(<<a.attempts, b.attempts>>)
  <2>1. [i \in DOMAIN <<a, b>> |-> <<a, b>>[i].attempts] = <<a.attempts, b.attempts>>
    OBVIOUS
  <2>. QED
    BY <2>1 DEF NearestAttempts
<1>3. NearestStrategy(<<a, b>>) = FirstGiven(<<a.strategy, b.strategy>>)
  <2>1. [i \in DOMAIN <<a, b>> |-> <<a, b>>[i].strategy] = <<a.strategy, b.strategy>>
    OBVIOUS
  <2>. QED
    BY <2>1 DEF NearestStrategy
<1>. QED
  BY <1>1, <1>2, <1>3, FirstOfTwo

LEMMA NearestOfThree ==
  ASSUME NEW a, NEW b, NEW c
  PROVE  /\ NearestDelay(<<a, b, c>>) =
              IF DelayOf(a) # {} THEN DelayOf(a)
              ELSE IF DelayOf(b) # {} THEN DelayOf(b) ELSE DelayOf(c)
         /\ NearestAttempts(<<a, b, c>>) =
              IF a.attempts # {} THEN a.attempts
              ELSE IF b.attempts # {} THEN b.attempts ELSE c.attempts
         /\ NearestStrategy(<<a, b, c>>) =
              IF a.strategy # {} THEN a.strategy
              ELSE IF b.strategy # {} THEN b.strategy ELSE c.strategy
<1>1. NearestDelay(<<a, b, c>>) = FirstGiven(<<DelayOf(a), DelayOf(b), DelayOf(c)>>)
  BY DEF NearestDelay
<1>2. NearestAttempts(<<a, b, c>>) = FirstGiven(<<a.attempts, b.attempts, c.attempts>>)
  <2>1. [i \in DOMAIN <<a, b, c>> |-> <<a, b, c>>[i].attempts]
          = <<a.attempts, b.attempts, c.attempts>>
    OBVIOUS
  <2>. QED
    BY <2>1 DEF NearestAttempts
<1>3. NearestStrategy(<<a, b, c>>) = FirstGiven(<<a.strategy, b.strategy, c.strategy>>)
  <2>1. [i \in DOMAIN <<a, b, c>> |-> <<a, b, c>>[i].strategy]
          = <<a.strategy, b.strategy, c.strategy>>
    OBVIOUS
  <2>. QED
    BY <2>1 DEF NearestStrategy
<1>. QED
  BY <1>1, <1>2, <1>3, FirstOfThree

(* The wrapper and the engine make pauses of options that they merge step  *)
(* by step: these follow the nearest level if the merged ones do.          *)
LEMMA MergedFollow ==
  ASSUME NEW step, NEW default, NEW levels,
         FirstGiven(<<step.attempts, default.attempts>>) = NearestAttempts(levels),
         FirstGiven(<<step.delayMs, step.backoffMs, default.delayMs, default.backoffMs>>)
           = NearestDelay(levels),
         FirstGiven(<<step.strategy, default.strategy>>) = NearestStrategy(levels),
         IsOption(NearestAttempts(levels), Int), IsOption(NearestDelay(levels), Int),
         IsOption(NearestStrategy(levels), Strategy)
  PROVE  FollowsNearest(levels, PausesOf(step, default))
<1>. DEFINE attempts == AtLeast(1, GivenOr(NearestAttempts(levels), 1))
            base == GivenOr(NearestDelay(levels), 0)
            strategy == GivenOr(NearestStrategy(levels), "constant")
            pauses == PausesOf(step, default)
<1>1. attempts \in Nat \ {0} /\ base \in Int /\ strategy \in Strategy
  BY DEF IsOption, GivenOr, AtLeast, Strategy
<1>2. /\ MaxAttempts(step, default) = attempts
      /\ BackoffBaseMs(step, default) = base
      /\ BackoffStrategy(step, default) = strategy
  BY DEF MaxAttempts, BackoffBaseMs, BackoffStrategy
<1>3. pauses = PausesWith(base, strategy, attempts)
  <2>. HIDE DEF attempts, base, strategy
  <2>. QED
    BY <1>2 DEF PausesOf, PausesWith
<1>4. /\ Len(pauses) + 1 = attempts
      /\ \A n \in DOMAIN pauses :
           base * Factor(strategy, n) <= MaxTimer =>
             pauses[n] = AtLeast(0, base * Factor(strategy, n))
      /\ \A m, n \in DOMAIN pauses :
           m < n /\ base * Factor(strategy, n) <= MaxTimer => pauses[m] <= pauses[n]
  <2>. HIDE DEF attempts, base, strategy, pauses
  <2>. QED
    BY <1>1, <1>3, PausesFollow
<1>. QED
  BY <1>4 DEF FollowsNearest

(* For a step, and for its workflow. *)
LEMMA PoliciesFollow ==
  ASSUME NEW step, NEW workflow, NEW global,
         IsPolicy(step), IsPolicy(workflow), IsPolicy(global)
  PROVE  FollowsNearestPolicy(step, workflow, global)
<1>. DEFINE merged == MergeRetryOptions(global, workflow)
<1>1. /\ merged.attempts = IF workflow.attempts # {} THEN workflow.attempts ELSE global.attempts
      /\ merged.delayMs = IF DelayOf(workflow) # {} THEN DelayOf(workflow) ELSE DelayOf(global)
      /\ merged.backoffMs = {}
      /\ merged.strategy = IF workflow.strategy # {} THEN workflow.strategy ELSE global.strategy
  BY FirstOfTwo, FirstOfFour DEF MergeRetryOptions, DelayOf
<1>. HIDE DEF merged
<1>2. /\ IsOption(step.attempts, Int) /\ IsOption(merged.attempts, Int)
      /\ IsOption(DelayOf(step), Int) /\ IsOption(merged.delayMs, Int)
      /\ IsOption(step.strategy, Strategy) /\ IsOption(merged.strategy, Strategy)
  BY <1>1 DEF IsPolicy, DelayOf, Strategy
<1>3. FollowsNearest(<<step, workflow, global>>, PausesOf(step, merged))
  <2>. DEFINE levels == <<step, workflow, global>>
  <2>1. /\ NearestAttempts(levels) = IF step.attempts # {} THEN step.attempts ELSE merged.attempts
        /\ NearestDelay(levels) = IF DelayOf(step) # {} THEN DelayOf(step) ELSE merged.delayMs
        /\ NearestStrategy(levels) = IF step.strategy # {} THEN step.strategy ELSE merged.strategy
    BY <1>1, NearestOfThree
  <2>. HIDE DEF levels
  <2>2. /\ FirstGiven(<<step.attempts, merged.attempts>>) = NearestAttempts(levels)
        /\ FirstGiven(<<step.delayMs, step.backoffMs, merged.delayMs, merged.backoffMs>>)
             = NearestDelay(levels)
        /\ FirstGiven(<<step.strategy, merged.strategy>>) = NearestStrategy(levels)
    BY <1>1, <2>1, FirstOfTwo, FirstOfFour DEF DelayOf
  <2>3. /\ IsOption(NearestAttempts(levels), Int) /\ IsOption(NearestDelay(levels), Int)
        /\ IsOption(NearestStrategy(levels), Strategy)
    BY <1>2, <2>1
  <2>4. FollowsNearest(levels, PausesOf(step, merged))
    BY <2>2, <2>3, MergedFollow
  <2>. QED
    BY <2>4 DEF levels
<1>4. FollowsNearest(<<workflow, global>>, PausesOf(merged, NoPolicy))
  <2>. DEFINE levels == <<workflow, global>>
  <2>1. /\ NearestAttempts(levels) = merged.attempts
        /\ NearestDelay(levels) = merged.delayMs
        /\ NearestStrategy(levels) = merged.strategy
    BY <1>1, NearestOfTwo
  <2>. HIDE DEF levels
  <2>2. /\ FirstGiven(<<merged.attempts, NoPolicy.attempts>>) = NearestAttempts(levels)
        /\ FirstGiven(<<merged.delayMs, merged.backoffMs, NoPolicy.delayMs, NoPolicy.backoffMs>>)
             = NearestDelay(levels)
        /\ FirstGiven(<<merged.strategy, NoPolicy.strategy>>) = NearestStrategy(levels)
    BY <1>1, <2>1, FirstOfTwo, FirstOfFour DEF NoPolicy
  <2>3. /\ IsOption(NearestAttempts(levels), Int) /\ IsOption(NearestDelay(levels), Int)
        /\ IsOption(NearestStrategy(levels), Strategy)
    BY <1>2, <2>1
  <2>4. FollowsNearest(levels, PausesOf(merged, NoPolicy))
    BY <2>2, <2>3, MergedFollow
  <2>. QED
    BY <2>4 DEF levels
<1>. QED
  BY <1>3, <1>4 DEF FollowsNearestPolicy, Pauses, WorkflowPauses, merged

-----------------------------------------------------------------------------
(* For all retry options of a step, its workflow and the module: the       *)
(* pauses and attempts are those of the level nearest to what is retried,  *)
(* as long as they fit a timer, and never shorter than the ones before.    *)
THEOREM PoliciesAreMerged == InputsSpec => []PoliciesMerge
<1>. DEFINE Inv == Given("policies") =>
                     /\ input[2][1] \in Policy /\ input[2][2] \in Policy
                     /\ input[2][3] \in ModulePolicy
<1>1. InputsInit => Inv
  BY DEF InputsInit, Given, Nothing
<1>2. Inv /\ [InputsNext]_input => Inv'
  BY DEF InputsNext, PickValue, PickPolicies, PickApplication, PickSweep, PickSample, Compared,
         Pick, Given, Nothing
<1>3. Inv => PoliciesMerge
  BY PolicyAssumption, PoliciesFollow DEF PoliciesMerge
<1>. QED
  BY <1>1, <1>2, <1>3, PTL DEF InputsSpec

-----------------------------------------------------------------------------
(* The loops over classes and imports *)

IsRegistrar(f, registry, import, n) ==
  f = [i \in 0 .. n |->
         IF i = 0 THEN registry ELSE RegisterClass(f[i - 1], import, import[i])]

LEMMA RegistrarEquation ==
  ASSUME NEW registry, NEW import, Len(import) \in Nat
  PROVE  IsRegistrar(Registrar(registry, import), registry, import, Len(import))
<1>. DEFINE S == {n \in Nat : \E f : IsRegistrar(f, registry, import, n)}
<1>1. 0 \in S
  <2>1. IsRegistrar([i \in 0 .. 0 |-> registry], registry, import, 0)
    BY DEF IsRegistrar
  <2>. QED
    BY <2>1
<1>2. ASSUME NEW n \in Nat, n \in S
      PROVE  n + 1 \in S
  <2>1. PICK f : IsRegistrar(f, registry, import, n)
    BY <1>2
  <2>. DEFINE g == [i \in 0 .. n + 1 |->
                      IF i = n + 1 THEN RegisterClass(f[n], import, import[n + 1]) ELSE f[i]]
  <2>2. \A i \in 0 .. n + 1 :
          g[i] = IF i = 0 THEN registry ELSE RegisterClass(g[i - 1], import, import[i])
    BY <2>1 DEF IsRegistrar
  <2>3. IsRegistrar(g, registry, import, n + 1)
    BY <2>2 DEF IsRegistrar
  <2>. QED
    BY <2>3
<1>3. Len(import) \in S
  <2>. HIDE DEF S
  <2>. QED
    BY <1>1, <1>2, Induction
<1>. QED
  BY <1>3 DEF Registrar, IsRegistrar

IsInitialized(f, imports, n) ==
  f = [i \in 0 .. n |-> IF i = 0 THEN <<>> ELSE RegisterImport(f[i - 1], imports[i])]

LEMMA InitializedEquation ==
  ASSUME NEW imports, Len(imports) \in Nat
  PROVE  IsInitialized(Initialized(imports), imports, Len(imports))
<1>. DEFINE S == {n \in Nat : \E f : IsInitialized(f, imports, n)}
<1>1. 0 \in S
  <2>1. IsInitialized([i \in 0 .. 0 |-> <<>>], imports, 0)
    BY DEF IsInitialized
  <2>. QED
    BY <2>1
<1>2. ASSUME NEW n \in Nat, n \in S
      PROVE  n + 1 \in S
  <2>1. PICK f : IsInitialized(f, imports, n)
    BY <1>2
  <2>. DEFINE g == [i \in 0 .. n + 1 |->
                      IF i = n + 1 THEN RegisterImport(f[n], imports[n + 1]) ELSE f[i]]
  <2>2. \A i \in 0 .. n + 1 :
          g[i] = IF i = 0 THEN <<>> ELSE RegisterImport(g[i - 1], imports[i])
    BY <2>1 DEF IsInitialized
  <2>3. IsInitialized(g, imports, n + 1)
    BY <2>2 DEF IsInitialized
  <2>. QED
    BY <2>3
<1>3. Len(imports) \in S
  <2>. HIDE DEF S
  <2>. QED
    BY <1>1, <1>2, Induction
<1>. QED
  BY <1>3 DEF Initialized, IsInitialized

-----------------------------------------------------------------------------
(* What is registered of a set of classes *)

(* Classes that the registrars accept together. *)
Compatible(X) ==
  /\ \A c \in X : c.run /\ c.name # None
  /\ \A c, d \in X : c.name = d.name => c = d

Registered(r, X) ==
  IF Compatible(X)
    THEN /\ r \in [{c.name : c \in X} -> Entry]
         /\ \A c \in X : r[c.name] = [workflowClass |-> c, factory |-> c]
    ELSE r = None

LEMMA RegistriesExist ==
  ASSUME NEW X \in SUBSET Class, NEW r, Registered(r, X)
  PROVE  r # None <=> Compatible(X)
<1>1. {c.name : c \in X} \in SUBSET {c.name : c \in Class}
  OBVIOUS
<1>. QED
  BY <1>1, ClassAssumption DEF Registered

LEMMA ClassIsRegistered ==
  ASSUME NEW X \in SUBSET Class, NEW r, Registered(r, X), NEW import, NEW class \in Class,
         FactoryOf(import, class) = class
  PROVE  Registered(RegisterClass(r, import, class), X \cup {class})
<1>. DEFINE Y == X \cup {class}
            entry == [workflowClass |-> class, factory |-> class]
            q == RegisterClass(r, import, class)
<1>1. r # None <=> Compatible(X)
  BY RegistriesExist
<1>2. Compatible(Y) => Compatible(X) /\ class.run /\ class.name # None
  BY DEF Compatible
<1>3. CASE r = None \/ class.name = None \/ ~class.run
  <2>1. q = None
    BY <1>3 DEF RegisterClass
  <2>. QED
    BY <1>1, <1>2, <1>3, <2>1 DEF Registered
<1>4. CASE ~(r = None \/ class.name = None \/ ~class.run)
  <2>1. q = Register(r, class.name, entry)
    BY <1>4 DEF RegisterClass
  <2>2. /\ Compatible(X)
        /\ r \in [{c.name : c \in X} -> Entry]
        /\ \A c \in X : r[c.name] = [workflowClass |-> c, factory |-> c]
    BY <1>1, <1>4 DEF Registered
  <2>3. ASSUME NEW c \in X, c.name = class.name
        PROVE  class.name \in DOMAIN r /\ r[class.name].workflowClass = c
    <3>1. r[c.name] = [workflowClass |-> c, factory |-> c] /\ c.name \in DOMAIN r
      BY <2>2
    <3>2. r[c.name].workflowClass = c
      BY <3>1
    <3>. QED
      BY <2>3, <3>1, <3>2
  <2>4. CASE class.name \in DOMAIN r /\ r[class.name].workflowClass # class
    <3>1. PICK c \in X : c.name = class.name
      BY <2>2, <2>4
    <3>2. c # class
      BY <2>4, <2>3, <3>1
    <3>3. ~Compatible(Y)
      BY <3>1, <3>2 DEF Compatible
    <3>4. q = None
      BY <2>1, <2>4 DEF Register
    <3>. QED
      BY <3>3, <3>4 DEF Registered
  <2>5. CASE ~(class.name \in DOMAIN r /\ r[class.name].workflowClass # class)
    <3>1. \A c \in X : c.name = class.name => c = class
      BY <2>5, <2>3
    <3>2. Compatible(Y)
      BY <1>4, <2>2, <3>1 DEF Compatible
    <3>3. q = [n \in DOMAIN r \cup {class.name} |-> IF n = class.name THEN entry ELSE r[n]]
      BY <2>1, <2>5 DEF Register
    <3>4. DOMAIN r \cup {class.name} = {c.name : c \in Y}
      BY <2>2
    <3>5. entry \in Entry
      BY DEF Entry
    <3>6. q \in [{c.name : c \in Y} -> Entry]
      <4>. HIDE DEF entry, q
      <4>. QED
        BY <2>2, <3>3, <3>4, <3>5
    <3>7. \A c \in Y : q[c.name] = [workflowClass |-> c, factory |-> c]
      <4>. HIDE DEF q
      <4>. QED
        BY <2>2, <3>1, <3>3, <3>4
    <3>. QED
      BY <3>2, <3>6, <3>7 DEF Registered
  <2>. QED
    BY <2>4, <2>5
<1>. QED
  BY <1>3, <1>4

(* The factory of a class is its own if the names of the declarations tell *)
(* the classes of the import apart.                                        *)
LEMMA FactoryIsOwn ==
  ASSUME NEW import \in Seq(Class),
         \A i, j \in 1 .. Len(import) :
           import[i].className = import[j].className => import[i] = import[j],
         NEW k \in 1 .. Len(import)
  PROVE  FactoryOf(import, import[k]) = import[k]
<1>. DEFINE same == {i \in DOMAIN import : import[i].className = import[k].className}
            S == {n \in Nat : same \cap (1 .. n) # {} =>
                                \E i \in same \cap (1 .. n) : \A j \in same \cap (1 .. n) : j <= i}
<1>1. \A n \in Nat : n \in S
  <2>1. 0 \in S
    OBVIOUS
  <2>2. ASSUME NEW n \in Nat, n \in S
        PROVE  n + 1 \in S
    <3>. HIDE DEF same
    <3>1. 1 .. n + 1 = (1 .. n) \cup {n + 1}
      OBVIOUS
    <3>2. CASE n + 1 \in same
      BY <3>1, <3>2
    <3>3. CASE n + 1 \notin same
      BY <2>2, <3>1, <3>3
    <3>. QED
      BY <3>2, <3>3
  <2>. HIDE DEF S
  <2>. QED
    BY <2>1, <2>2, Induction
<1>2. k \in same /\ same \subseteq 1 .. Len(import) /\ Len(import) \in Nat
  OBVIOUS
<1>3. \E i \in same : \A j \in same : j <= i
  <2>1. same \cap (1 .. Len(import)) = same
    BY <1>2
  <2>. HIDE DEF same
  <2>. QED
    BY <1>1, <1>2, <2>1
<1>4. (CHOOSE i \in same : \A j \in same : j <= i) \in same
  <2>. HIDE DEF same
  <2>. QED
    BY <1>3
<1>5. FactoryOf(import, import[k]) = import[CHOOSE i \in same : \A j \in same : j <= i]
  BY DEF FactoryOf
<1>. QED
  BY <1>4, <1>5

-----------------------------------------------------------------------------
(* What is registered of imports *)

ClassesUpTo(import, n) == {import[i] : i \in 1 .. n}

LEMMA ImportIsRegistered ==
  ASSUME NEW import \in Seq(Class),
         \A i, j \in 1 .. Len(import) :
           import[i].className = import[j].className => import[i] = import[j],
         NEW X \in SUBSET Class, NEW r, Registered(r, X)
  PROVE  Registered(RegisterImport(r, import), X \cup ToSet(import))
<1>. DEFINE R == Registrar(r, import)
            N == Len(import)
            S == {n \in Nat : n <= N => Registered(R[n], X \cup ClassesUpTo(import, n))}
<1>1. N \in Nat /\ IsRegistrar(R, r, import, N)
  BY RegistrarEquation
<1>2. 0 \in S
  <2>1. X \cup ClassesUpTo(import, 0) = X
    BY DEF ClassesUpTo
  <2>2. R[0] = r
    <3>. HIDE DEF R
    <3>. QED
      BY <1>1 DEF IsRegistrar
  <2>. HIDE DEF R
  <2>. QED
    BY <2>1, <2>2
<1>3. ASSUME NEW n \in Nat, n \in S
      PROVE  n + 1 \in S
  <2>. SUFFICES ASSUME n + 1 <= N
                PROVE  Registered(R[n + 1], X \cup ClassesUpTo(import, n + 1))
    OBVIOUS
  <2>. DEFINE class == import[n + 1]
              Y == X \cup ClassesUpTo(import, n)
  <2>1. n + 1 \in 1 .. N /\ class \in Class
    BY <1>1
  <2>2. R[n + 1] = RegisterClass(R[n], import, class)
    <3>. HIDE DEF R
    <3>. QED
      BY <1>1, <2>1 DEF IsRegistrar
  <2>3. Registered(R[n], Y)
    <3>. HIDE DEF R
    <3>. QED
      BY <1>1, <1>3
  <2>4. Y \in SUBSET Class
    BY <1>1 DEF ClassesUpTo
  <2>5. FactoryOf(import, class) = class
    BY <2>1, FactoryIsOwn
  <2>6. Y \cup {class} = X \cup ClassesUpTo(import, n + 1)
    <3>1. 1 .. n + 1 = (1 .. n) \cup {n + 1}
      OBVIOUS
    <3>. QED
      BY <3>1 DEF ClassesUpTo
  <2>. HIDE DEF R, Y, class
  <2>. QED
    BY <2>1, <2>2, <2>3, <2>4, <2>5, <2>6, ClassIsRegistered
<1>4. N \in S
  <2>. HIDE DEF S
  <2>. QED
    BY <1>1, <1>2, <1>3, Induction
<1>5. ClassesUpTo(import, N) = ToSet(import)
  BY <1>1 DEF ClassesUpTo, ToSet
<1>. QED
  BY <1>4, <1>5 DEF RegisterImport

LEMMA ImportsAreRegistered ==
  ASSUME NEW imports \in Seq(Seq(Class)), TellsClassesApart(imports)
  PROVE  Registered(Initialized(imports)[Len(imports)], Imported(imports))
<1>. DEFINE R == Initialized(imports)
            N == Len(imports)
            upTo(n) == UNION {ToSet(imports[i]) : i \in 1 .. n}
            S == {n \in Nat : n <= N => Registered(R[n], upTo(n))}
<1>1. N \in Nat /\ IsInitialized(R, imports, N)
  BY InitializedEquation
<1>2. 0 \in S
  <2>1. upTo(0) = {}
    OBVIOUS
  <2>2. R[0] = <<>>
    <3>. HIDE DEF R
    <3>. QED
      BY <1>1 DEF IsInitialized
  <2>3. Registered(<<>>, {})
    <3>1. Compatible({}) /\ {c.name : c \in {}} = {} /\ <<>> \in [{} -> Entry]
      BY DEF Compatible
    <3>. QED
      BY <3>1 DEF Registered
  <2>. HIDE DEF R, upTo
  <2>. QED
    BY <2>1, <2>2, <2>3
<1>3. ASSUME NEW n \in Nat, n \in S
      PROVE  n + 1 \in S
  <2>. SUFFICES ASSUME n + 1 <= N
                PROVE  Registered(R[n + 1], upTo(n + 1))
    OBVIOUS
  <2>. DEFINE import == imports[n + 1]
  <2>1. n + 1 \in 1 .. N /\ import \in Seq(Class)
    BY <1>1
  <2>2. R[n + 1] = RegisterImport(R[n], import)
    <3>. HIDE DEF R
    <3>. QED
      BY <1>1, <2>1 DEF IsInitialized
  <2>3. Registered(R[n], upTo(n))
    <3>. HIDE DEF R
    <3>. QED
      BY <1>1, <1>3
  <2>4. \A i \in 1 .. N : ToSet(imports[i]) \subseteq Class
    BY DEF ToSet
  <2>5. upTo(n) \in SUBSET Class
    <3>1. \A i \in 1 .. n : i \in 1 .. N
      BY <1>1
    <3>2. \A i \in 1 .. n : ToSet(imports[i]) \subseteq Class
      BY <2>4, <3>1
    <3>. HIDE DEF R
    <3>. QED
      BY <3>2
  <2>6. \A i, j \in 1 .. Len(import) :
          import[i].className = import[j].className => import[i] = import[j]
    <3>1. \A i \in 1 .. Len(import) : import[i] \in ToSet(import)
      BY <2>1 DEF ToSet
    <3>2. \A c, d \in ToSet(import) : c.className = d.className => c = d
      BY <2>1 DEF TellsClassesApart
    <3>. HIDE DEF import
    <3>. QED
      BY <3>1, <3>2
  <2>7. upTo(n + 1) = upTo(n) \cup ToSet(import)
    <3>1. 1 .. n + 1 = (1 .. n) \cup {n + 1}
      OBVIOUS
    <3>. QED
      BY <3>1
  <2>. HIDE DEF R, upTo, import
  <2>. QED
    BY <2>1, <2>2, <2>3, <2>5, <2>6, <2>7, ImportIsRegistered
<1>4. N \in S
  <2>. HIDE DEF S
  <2>. QED
    BY <1>1, <1>2, <1>3, Induction
<1>5. upTo(N) = Imported(imports)
  <2>1. DOMAIN imports = 1 .. N
    OBVIOUS
  <2>. QED
    BY <2>1 DEF Imported
<1>6. Registered(R[N], upTo(N))
  <2>. HIDE DEF R, upTo
  <2>. QED
    BY <1>1, <1>4
<1>. QED
  BY <1>5, <1>6

-----------------------------------------------------------------------------
(* What is looked up *)

LEMMA LookedUp ==
  ASSUME NEW X \in SUBSET Class, NEW r, Registered(r, X), Compatible(X), NEW c \in X
  PROVE  Instantiate(r, c.name) = c
<1>. DEFINE entry == [workflowClass |-> c, factory |-> c]
<1>1. c.name \in DOMAIN r /\ r[c.name] = entry /\ c.run
  BY DEF Registered, Compatible
<1>2. entry \in Entry /\ entry # None /\ entry.factory = c
  BY ClassAssumption DEF Entry
<1>3. Resolve(r, c.name) = entry
  BY <1>1 DEF Resolve
<1>. HIDE DEF entry
<1>. QED
  BY <1>1, <1>2, <1>3 DEF Instantiate

LEMMA NamesHaveClasses ==
  ASSUME NEW imports \in Seq(Seq(Class))
  PROVE  NamesTheirClasses(imports)
<1>. SUFFICES ASSUME TellsClassesApart(imports)
              PROVE  NamesTheirClasses(imports)
  BY DEF NamesTheirClasses
<1>. DEFINE X == Imported(imports)
            registry == Boot(imports)
            claimed(name) == {c \in X : c.name = name}
            names == {c.name : c \in X}
            wellFormed(c) == c.base /\ c.run /\ c.name # None
                             /\ \A m \in DOMAIN c.own : c.own[m] # "plain"
            claims == \A n \in names : \E c \in X : claimed(n) = {c}
<1>1. /\ X \in SUBSET Class
      /\ \A c \in X : \E i \in DOMAIN imports : \E k \in DOMAIN imports[i] : c = imports[i][k]
      /\ \A i \in DOMAIN imports : \A k \in DOMAIN imports[i] : imports[i][k] \in X
  BY DEF Imported, ToSet
<1>2. (\A c \in X : Accepted(c))
        <=> ~\E i \in DOMAIN imports : \E k \in DOMAIN imports[i] : ~Accepted(imports[i][k])
  <2>. HIDE DEF X
  <2>. QED
    BY <1>1
<1>3. \A c \in Class : Accepted(c) <=> c.base /\ \A m \in DOMAIN c.own : c.own[m] # "plain"
  BY ClassAssumption DEF Accepted
<1>4. claims <=> \A c, d \in X : c.name = d.name => c = d
  <2>1. ASSUME claims, NEW c \in X, NEW d \in X, c.name = d.name
        PROVE  c = d
    <3>1. PICK e \in X : claimed(c.name) = {e}
      BY <2>1
    <3>2. c \in claimed(c.name) /\ d \in claimed(c.name)
      BY <2>1
    <3>. QED
      BY <3>1, <3>2
  <2>2. ASSUME \A c, d \in X : c.name = d.name => c = d, NEW n \in names
        PROVE  \E c \in X : claimed(n) = {c}
    <3>1. PICK c \in X : c.name = n
      OBVIOUS
    <3>2. claimed(n) = {c}
      BY <2>2, <3>1
    <3>. QED
      BY <3>2
  <2>. HIDE DEF X, claimed, names
  <2>. QED
    BY <2>1, <2>2
<1>5. (\A c \in X : wellFormed(c)) /\ claims <=> (\A c \in X : Accepted(c)) /\ Compatible(X)
  <2>. HIDE DEF X, claims
  <2>. QED
    BY <1>1, <1>3, <1>4 DEF Compatible
<1>6. CASE \A c \in X : Accepted(c)
  <2>1. Registered(registry, X)
    <3>1. registry = Initialized(imports)[Len(imports)]
      BY <1>2, <1>6 DEF Boot
    <3>. QED
      BY <3>1, ImportsAreRegistered
  <2>2. registry # None <=> Compatible(X)
    <3>. HIDE DEF X, registry
    <3>. QED
      BY <1>1, <2>1, RegistriesExist
  <2>3. Compatible(X) => \A c \in X : Instantiate(registry, c.name) = c
    <3>. HIDE DEF X, registry
    <3>. QED
      BY <1>1, <2>1, LookedUp
  <2>. QED
    BY <1>5, <1>6, <2>2, <2>3 DEF NamesTheirClasses
<1>7. CASE ~\A c \in X : Accepted(c)
  <2>1. registry = None
    BY <1>2, <1>7 DEF Boot
  <2>. QED
    BY <1>5, <1>7, <2>1 DEF NamesTheirClasses
<1>. QED
  BY <1>6, <1>7

-----------------------------------------------------------------------------
(* For all imports of an application: it starts if each class is well      *)
(* formed and no two claim a name, and then the engine gets an instance of *)
(* the class that a name belongs to.                                       *)
THEOREM NamesBelongToClasses == InputsSpec => []RegistryNamesClasses
<1>. DEFINE Inv == Given("application") => input[2] \in Application
<1>1. InputsInit => Inv
  BY DEF InputsInit, Given, Nothing
<1>2. Inv /\ [InputsNext]_input => Inv'
  BY DEF InputsNext, PickValue, PickPolicies, PickApplication, PickSweep, PickSample, Compared,
         Pick, Given, Nothing
<1>3. Inv => RegistryNamesClasses
  <2>1. Application \subseteq Seq(Seq(Class))
    BY ClassAssumption
  <2>. QED
    BY <2>1, NamesHaveClasses DEF RegistryNamesClasses
<1>. QED
  BY <1>1, <1>2, <1>3, PTL DEF InputsSpec
=============================================================================
