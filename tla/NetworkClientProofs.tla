------------------------- MODULE NetworkClientProofs -------------------------
(* Theorems about NetworkClient, for every threshold, pause and backoff.   *)
EXTENDS NetworkClient, WellFoundedInduction, TLAPS

(* The breaker's part of TypeOK.                                           *)
BreakerType ==
    /\ failures \in 0..Threshold
    /\ openAge \in None..(Pause + MaxSetBack)
    /\ setBack \in 0..MaxSetBack
    /\ openAge # None => openAge >= -setBack
    /\ burst \in 0..Threshold
    /\ quiet \in 0..Pause

(* _consecutiveFailures counts the burst, until an expired circuit restarts*)
(* it; a full burst is either still under an open circuit, no older than   *)
(* the last failure, or a whole pause old; and a POST under way means that *)
(* the breaker has room for one more failure.                              *)
BreakerInv ==
    /\ BreakerType
    /\ failures = burst \/ (failures = 0 /\ burst = Threshold)
    /\ burst = Threshold => \/ openAge # None /\ openAge <= quiet
                            \/ quiet = Pause
    /\ sending = TRUE => failures < Threshold /\ openAge = None
    /\ failures = Threshold => openAge # None
    /\ openAge # None => burst = Threshold

LEMMA MinOfTwo ==
    ASSUME NEW a \in Int, NEW b \in Int
    PROVE  Min({a, b}) = IF a <= b THEN a ELSE b
<1>1. \E x \in {a, b} : \A y \in {a, b} : x <= y
  OBVIOUS
<1>2. Min({a, b}) \in {a, b} /\ \A y \in {a, b} : Min({a, b}) <= y
  BY <1>1 DEF Min
<1>. QED  BY <1>2

LEMMA AgedBounds ==
    ASSUME NEW most \in Nat \ {0}, NEW age \in None..most
    PROVE  /\ age = None => Aged(age, most) = None
           /\ age # None => Aged(age, most) = IF age + 1 <= most THEN age + 1
                                                                ELSE most
BY MinOfTwo, TransportAssumption DEF Aged, None

LEMMA BreakerInit == Init => BreakerInv
BY TransportAssumption DEF Init, BreakerInv, BreakerType, None

LEMMA BreakerNext == BreakerInv /\ [Next]_vars => BreakerInv'
<1>. SUFFICES ASSUME BreakerInv, [Next]_vars
              PROVE  BreakerInv'
  OBVIOUS
<1>. USE TransportAssumption DEF BreakerInv, BreakerType, None
<1>1. CASE Timer
  BY <1>1 DEF Timer, breaker, world, history
<1>2. ASSUME NEW cause \in waiting, StartFlush(cause)
      PROVE  BreakerInv'
  BY <1>2 DEF StartFlush, breaker, world, history
<1>3. CASE SendRefused
  <2>1. /\ UNCHANGED <<sending, setBack, burst, quiet>>
        /\ \/ UNCHANGED <<openAge, failures>>
           \/ /\ openAge = None \/ openAge >= Pause
              /\ openAge' = None
              /\ failures' = IF openAge = None THEN failures ELSE 0
    BY <1>3 DEF SendRefused, CloseExpiredCircuit, CircuitOpen, world, history
  <2>. QED  BY <2>1
<1>4. CASE SendPost
  <2>1. /\ UNCHANGED <<setBack, burst, quiet>>
        /\ openAge = None \/ openAge >= Pause
        /\ openAge' = None
        /\ failures' = IF openAge = None THEN failures ELSE 0
    BY <1>4 DEF SendPost, CloseExpiredCircuit, CircuitOpen, world, history
  <2>. QED  BY <2>1
<1>5. CASE AnswerFinal
  BY <1>5 DEF AnswerFinal, recordSuccess, world
<1>6. CASE AnswerFailed
  BY <1>6 DEF AnswerFailed, recordFailure, world
<1>7. ASSUME NEW satisfied \in BOOLEAN, PathUpdate(satisfied)
      PROVE  BreakerInv'
  BY <1>7 DEF PathUpdate, breaker, world, history
<1>8. CASE resetBackoff
  BY <1>8 DEF resetBackoff, flush, world
<1>9. CASE Tick
  <2>1. /\ openAge' = Aged(openAge, Pause + MaxSetBack)
        /\ quiet' = Aged(quiet, Pause)
        /\ UNCHANGED <<failures, burst, sending, setBack>>
    BY <1>9 DEF Tick, flush, world
  <2>2. quiet' = IF quiet + 1 <= Pause THEN quiet + 1 ELSE Pause
    BY <2>1, AgedBounds
  <2>3. openAge' = IF openAge = None THEN None
                   ELSE IF openAge + 1 <= Pause + MaxSetBack THEN openAge + 1
                   ELSE Pause + MaxSetBack
    BY <2>1, AgedBounds
  <2>. QED  BY <2>1, <2>2, <2>3
<1>10. CASE ClockSetBack
  <2>1. /\ openAge' = IF openAge = None THEN None ELSE openAge - 1
        /\ setBack < MaxSetBack /\ setBack' = setBack + 1
        /\ UNCHANGED <<failures, burst, quiet, sending>>
    BY <1>10 DEF ClockSetBack, Younger, flush, history
  <2>. QED  BY <2>1
<1>11. CASE ServerChanges
  BY <1>11 DEF ServerChanges, breaker, flush, history
<1>12. CASE UNCHANGED vars
  BY <1>12 DEF vars, breaker, flush, world, history
<1>. QED
  BY <1>1, <1>2, <1>3, <1>4, <1>5, <1>6, <1>7, <1>8, <1>9, <1>10, <1>11, <1>12
  DEF Next, WorkQueue, Answer

(* Whatever flushes, answers, path changes and resets interleave, after    *)
(* every Threshold-th failure in a row the transport stays silent for the  *)
(* whole pause: "5 consecutive failures -> pause 60s", also when the clock  *)
(* is set back meanwhile.                                                  *)
THEOREM PauseKept == Spec => PauseRespected
<1>1. BreakerInv /\ [Next]_vars
        => (Posted /\ burst = Threshold => quiet >= Pause)
  <2>. SUFFICES ASSUME BreakerInv, [Next]_vars, Posted, burst = Threshold
                PROVE  quiet >= Pause
    OBVIOUS
  <2>1. SendPost
    <3>1. ~sending /\ sending'
      BY DEF Posted
    <3>. QED
      BY <3>1 DEF Next, WorkQueue, Answer, Timer, StartFlush, SendRefused,
         AnswerFinal, AnswerFailed, PathUpdate, resetBackoff, Tick,
         ClockSetBack, ServerChanges, vars, flush
  <2>. QED
    BY <2>1, TransportAssumption
    DEF SendPost, CircuitOpen, BreakerInv, BreakerType, None
<1>2. BreakerInv /\ [Next]_vars
        => [Posted /\ burst = Threshold => quiet >= Pause]_vars
  BY <1>1
<1>. QED
  BY <1>2, BreakerInit, BreakerNext, PTL DEF Spec, PauseRespected

-----------------------------------------------------------------------------
(* The backoff.                                                            *)

(* What k failures in a row earn.                                          *)
Capped(k) == IF Earned[k] <= MaxBackoff THEN Earned[k] ELSE MaxBackoff

(* The provers have no induction for recursive functions; a least n up to  *)
(* which no function doubles stands for it.                                *)
Doubles(g, n) ==
    /\ g \in [1..MaxStreak -> Nat]
    /\ \A k \in 1..MaxStreak :
          k <= n => g[k] = IF k = 1 THEN MinBackoff ELSE 2 * g[k - 1]

LEMMA LeastNat ==
    ASSUME NEW T, T \subseteq Nat, T # {}
    PROVE  \E x \in T : \A y \in T : x <= y
<1>1. \E x \in T : \A y \in T : <<y, x>> \notin OpToRel(<, Nat)
  BY NatLessThanWellFounded, WFMin
<1>2. \A x, y \in Nat : <<y, x>> \notin OpToRel(<, Nat) => x <= y
  BY DEF OpToRel
<1>. QED  BY <1>1, <1>2

LEMMA DoublesTo == ASSUME NEW n \in Nat PROVE \E g : Doubles(g, n)
<1>. DEFINE Bad == {m \in Nat : ~ \E g : Doubles(g, m)}
<1>0. MinBackoff \in Nat /\ MaxStreak \in Nat
  BY TransportAssumption, StreakAssumption
<1>1. SUFFICES ASSUME Bad # {} PROVE FALSE
  OBVIOUS
<1>2. PICK m \in Bad : \A k \in Bad : m <= k
  BY <1>1, LeastNat
<1>3. CASE m = 0
  <2>1. Doubles([k \in 1..MaxStreak |-> 0], 0)
    BY DEF Doubles
  <2>. QED  BY <1>3, <2>1
<1>4. CASE m > 0
  <2>1. m - 1 \in Nat /\ m - 1 \notin Bad
    BY <1>2, <1>4
  <2>2. PICK h : Doubles(h, m - 1)
    BY <2>1
  <2>. DEFINE v == IF m = 1 THEN MinBackoff ELSE 2 * h[m - 1]
              g == [k \in 1..MaxStreak |-> IF k = m THEN v ELSE h[k]]
  <2>3. ASSUME m \in 1..MaxStreak PROVE v \in Nat
    BY <1>0, <2>2, <2>3 DEF Doubles
  <2>4. g \in [1..MaxStreak -> Nat]
    <3>. HIDE DEF v
    <3>. QED  BY <2>2, <2>3 DEF Doubles
  <2>5. ASSUME NEW k \in 1..MaxStreak, k <= m
        PROVE  g[k] = IF k = 1 THEN MinBackoff ELSE 2 * g[k - 1]
    <3>1. CASE k = m
      BY <1>0, <2>5, <3>1
    <3>2. CASE k # m
      <4>1. g[k] = h[k] /\ (k # 1 => g[k - 1] = h[k - 1])
        BY <1>0, <2>5, <3>2
      <4>2. h[k] = IF k = 1 THEN MinBackoff ELSE 2 * h[k - 1]
        BY <2>1, <2>2, <2>5, <3>2 DEF Doubles
      <4>. QED  BY <4>1, <4>2
    <3>. QED  BY <3>1, <3>2
  <2>6. Doubles(g, m)
    <3>. HIDE DEF g
    <3>. QED  BY <2>4, <2>5 DEF Doubles
  <2>. QED  BY <1>2, <2>6
<1>. QED  BY <1>2, <1>3, <1>4

LEMMA EarnedFacts ==
    /\ \A k \in 1..MaxStreak : Earned[k] \in Nat
    /\ Earned[1] = MinBackoff
    /\ \A k \in 1..MaxStreak : k < MaxStreak => Earned[k + 1] = 2 * Earned[k]
    /\ Earned[MaxStreak] >= MaxBackoff
<1>. DEFINE Eq(g) == g = [k \in 1..MaxStreak |->
                             IF k = 1 THEN MinBackoff ELSE 2 * g[k - 1]]
<1>1. MaxStreak \in Nat \ {0} /\ Earned[MaxStreak] >= MaxBackoff
  BY StreakAssumption
<1>2. PICK g : Doubles(g, MaxStreak)
  BY <1>1, DoublesTo
<1>3. Eq(g)
  <2>1. \A k \in 1..MaxStreak :
           g[k] = IF k = 1 THEN MinBackoff ELSE 2 * g[k - 1]
    BY <1>1, <1>2 DEF Doubles
  <2>2. g \in [1..MaxStreak -> Nat]
    BY <1>2 DEF Doubles
  <2>. QED  BY <2>1, <2>2
<1>4. Eq(Earned)
  BY <1>3 DEF Earned
<1>5. \A k \in 1..MaxStreak :
         Earned[k] = IF k = 1 THEN MinBackoff ELSE 2 * Earned[k - 1]
  BY <1>4
<1>. HIDE DEF Eq
<1>6. \A k \in 1..MaxStreak : Earned[k] \in Nat
  <2>. DEFINE Bad == {k \in 1..MaxStreak : Earned[k] \notin Nat}
  <2>1. SUFFICES ASSUME Bad # {} PROVE FALSE
    OBVIOUS
  <2>2. Bad \subseteq Nat
    BY <1>1
  <2>3. PICK k \in Bad : \A l \in Bad : k <= l
    <3>. HIDE DEF Bad
    <3>. QED  BY <2>1, <2>2, LeastNat
  <2>4. CASE k = 1
    BY <1>5, <2>3, <2>4, TransportAssumption
  <2>5. CASE k # 1
    <3>1. k - 1 \in 1..MaxStreak /\ k - 1 < k
      BY <1>1, <2>3, <2>5
    <3>2. Earned[k - 1] \in Nat
      <4>1. k - 1 \notin Bad
        BY <1>1, <2>3, <3>1
      <4>. QED  BY <3>1, <4>1
    <3>. QED  BY <1>5, <2>3, <2>5, <3>2
  <2>. QED  BY <2>4, <2>5
<1>7. \A k \in 1..MaxStreak : k < MaxStreak => Earned[k + 1] = 2 * Earned[k]
  <2>. SUFFICES ASSUME NEW k \in 1..MaxStreak, k < MaxStreak
                PROVE  Earned[k + 1] = 2 * Earned[k]
    OBVIOUS
  <2>1. k + 1 \in 1..MaxStreak /\ k + 1 # 1 /\ (k + 1) - 1 = k
    BY <1>1
  <2>. QED  BY <1>5, <2>1
<1>8. 1 \in 1..MaxStreak
  BY <1>1
<1>. QED  BY <1>1, <1>5, <1>6, <1>7, <1>8

(* The rest of TypeOK; the backoff, the date of the last failure and the   *)
(* streak start and end together, the backoff is what the streak earned,   *)
(* and a wall clock that is only set back never makes the failure older    *)
(* than it is.                                                             *)
BackoffInv ==
    /\ BreakerInv
    /\ TypeOK
    /\ failAge # None => failAge >= -setBack /\ (failAge <= quiet \/ quiet = Pause)
    /\ streak = 0 => failAge = None /\ backoff = 0
    /\ streak > 0 => failAge # None /\ backoff > 0 /\ backoff = Capped(streak)

LEMMA BackoffInit == Init => BackoffInv
<1>. SUFFICES ASSUME Init PROVE BackoffInv
  OBVIOUS
<1>1. BreakerInv
  BY BreakerInit
<1>2. /\ backoff \in 0..MaxBackoff /\ failAge \in None..(MaxBackoff + MaxSetBack)
      /\ streak \in 0..MaxStreak
  BY TransportAssumption, StreakAssumption DEF Init, None
<1>3. /\ connected \in BOOLEAN /\ wasDisconnected \in BOOLEAN /\ callback \in BOOLEAN
      /\ waiting \subseteq Causes /\ flushing \in Causes \cup {"none"}
      /\ resending \in BOOLEAN
      /\ resending => flushing # "none"
      /\ sending \in BOOLEAN /\ serverUp \in BOOLEAN
  BY Zenon DEF Init
<1>. QED
  BY <1>1, <1>2, <1>3 DEF Init, BackoffInv, TypeOK, BreakerInv, BreakerType

LEMMA BackoffNext == BackoffInv /\ [Next]_vars => BackoffInv'
<1>. SUFFICES ASSUME BackoffInv, [Next]_vars PROVE BackoffInv'
  OBVIOUS
<1>0. BreakerInv /\ BreakerInv' /\ BreakerType' /\ BreakerType
  BY BreakerNext DEF BackoffInv, BreakerInv
<1>. USE TransportAssumption, StreakAssumption
<1>. DEFINE Paths == /\ connected \in BOOLEAN /\ wasDisconnected \in BOOLEAN
                     /\ callback \in BOOLEAN /\ waiting \subseteq Causes
                     /\ flushing \in Causes \cup {"none"}
                     /\ resending \in BOOLEAN
                     /\ resending => flushing # "none"
                     /\ sending \in BOOLEAN /\ serverUp \in BOOLEAN
            Delays == /\ backoff \in 0..MaxBackoff
                      /\ failAge \in None..(MaxBackoff + MaxSetBack)
                      /\ streak \in 0..MaxStreak
                      /\ failAge # None => /\ failAge >= -setBack
                                           /\ failAge <= quiet \/ quiet = Pause
                      /\ streak = 0 => failAge = None /\ backoff = 0
                      /\ streak > 0 => /\ failAge # None /\ backoff > 0
                                       /\ backoff = Capped(streak)
<1>a. Paths /\ Delays
  BY DEF BackoffInv, TypeOK
<1>b. SUFFICES Paths' /\ Delays'
  <2>. SUFFICES ASSUME Paths', Delays' PROVE BackoffInv'
    OBVIOUS
  <2>1. TypeOK'
    BY <1>0 DEF TypeOK, BreakerType
  <2>. QED  BY <1>0, <2>1 DEF BackoffInv
<1>d. ASSUME UNCHANGED <<backoff, failAge, streak, quiet, setBack>> PROVE Delays'
  BY <1>a, <1>d DEF Capped, None
<1>1. CASE Timer
  BY <1>1, <1>a, <1>d DEF Timer, breaker, path, world, history, Causes
<1>2. ASSUME NEW cause \in waiting, StartFlush(cause) PROVE Paths' /\ Delays'
  <2>1. Delays'
    BY <1>2, <1>d DEF StartFlush, breaker, world, history
  <2>2. cause \in Causes /\ cause # "none"
    BY <1>a DEF Causes
  <2>. QED  BY <1>2, <1>a, <2>1, <2>2 DEF StartFlush, path, world
<1>3. CASE SendRefused
  BY <1>3, <1>a, <1>d DEF SendRefused, StopLoop, path, world, history, Causes
<1>4. CASE SendPost
  BY <1>4, <1>a, <1>d DEF SendPost, path, world, history
<1>5. CASE AnswerFinal
  <2>1. Paths'
    <3>1. /\ UNCHANGED <<connected, wasDisconnected, callback, waiting, serverUp>>
          /\ sending' = FALSE /\ resending' \in BOOLEAN
      BY <1>5, <1>a DEF AnswerFinal, path, world
    <3>2. CASE flushing' = flushing
      <4>1. resending' => resending
        BY <1>5 DEF AnswerFinal
      <4>. QED  BY <1>a, <3>1, <3>2, <4>1
    <3>3. CASE flushing' = "none" /\ ~resending'
      BY <1>a, <3>1, <3>3
    <3>. QED  BY <1>5, <3>2, <3>3 DEF AnswerFinal
  <2>. QED  BY <2>1, <1>5 DEF AnswerFinal, recordSuccess, None
<1>6. CASE AnswerFailed
  <2>1. Paths'
    BY <1>6, <1>a DEF AnswerFailed, StopLoop, path, world
  <2>2. /\ failAge' = 0 /\ quiet' = 0 /\ setBack' = setBack /\ setBack \in 0..MaxSetBack
        /\ backoff' = IF backoff = 0 THEN MinBackoff
                      ELSE IF backoff * 2 <= MaxBackoff THEN backoff * 2 ELSE MaxBackoff
        /\ streak' = IF streak + 1 <= MaxStreak THEN streak + 1 ELSE MaxStreak
    BY <1>6, <1>a, <1>0, MinOfTwo
    DEF AnswerFailed, recordFailure, world, BreakerType
  <2>3. /\ backoff' = Capped(streak') /\ backoff' > 0 /\ backoff' \in 0..MaxBackoff
        /\ streak' \in 1..MaxStreak
    <3>1. CASE streak = 0
      BY <1>a, <2>2, <3>1, EarnedFacts DEF Capped
    <3>2. CASE streak > 0 /\ streak < MaxStreak
      <4>1. Earned[streak + 1] = 2 * Earned[streak] /\ Earned[streak] \in Nat
        BY <1>a, <3>2, EarnedFacts
      <4>. QED  BY <1>a, <2>2, <3>2, <4>1 DEF Capped
    <3>3. CASE streak = MaxStreak
      BY <1>a, <2>2, <3>3, EarnedFacts DEF Capped
    <3>. QED  BY <1>a, <3>1, <3>2, <3>3
  <2>. QED  BY <2>1, <2>2, <2>3 DEF None
<1>7. ASSUME NEW satisfied \in BOOLEAN, PathUpdate(satisfied) PROVE Paths' /\ Delays'
  BY <1>7, <1>a, <1>d DEF PathUpdate, breaker, world, history, Causes
<1>8. CASE resetBackoff
  <2>1. Paths'
    BY <1>8, <1>a DEF resetBackoff, flush, world
  <2>. QED  BY <2>1, <1>8 DEF resetBackoff, None
<1>9. CASE Tick
  <2>1. /\ Paths' /\ UNCHANGED <<backoff, streak, setBack>>
        /\ failAge' = Aged(failAge, MaxBackoff + MaxSetBack)
        /\ quiet' = Aged(quiet, Pause)
    BY <1>9, <1>a DEF Tick, path, flush, world
  <2>2. quiet \in 0..Pause /\ setBack \in 0..MaxSetBack
    BY <1>0 DEF BreakerType
  <2>3. quiet' = IF quiet + 1 <= Pause THEN quiet + 1 ELSE Pause
    BY <2>1, <2>2, AgedBounds DEF None
  <2>4. failAge' = IF failAge = None THEN None
                   ELSE IF failAge + 1 <= MaxBackoff + MaxSetBack THEN failAge + 1
                   ELSE MaxBackoff + MaxSetBack
    BY <1>a, <2>1, AgedBounds
  <2>. QED  BY <1>a, <2>1, <2>2, <2>3, <2>4 DEF Capped, None
<1>10. CASE ClockSetBack
  <2>1. /\ Paths' /\ UNCHANGED <<backoff, streak, quiet>>
        /\ failAge' = IF failAge = None THEN None ELSE failAge - 1
        /\ setBack < MaxSetBack /\ setBack' = setBack + 1
    BY <1>10, <1>a DEF ClockSetBack, Younger, path, flush, history
  <2>2. setBack \in 0..MaxSetBack /\ quiet \in 0..Pause
    BY <1>0 DEF BreakerType
  <2>. QED  BY <1>a, <2>1, <2>2 DEF Capped, None
<1>11. CASE ServerChanges
  BY <1>11, <1>a, <1>d DEF ServerChanges, breaker, path, flush, history
<1>12. CASE UNCHANGED vars
  BY <1>12, <1>a, <1>d DEF vars, breaker, path, flush, world, history
<1>. HIDE DEF Paths, Delays
<1>. QED
  BY <1>1, <1>2, <1>3, <1>4, <1>5, <1>6, <1>7, <1>8, <1>9, <1>10, <1>11, <1>12
  DEF Next, WorkQueue, Answer

(* The breaker's count and the burst stay within the threshold, a date     *)
(* never reads as nil however far the clock is set back, and the backoff   *)
(* stays under its cap.                                                    *)
THEOREM TransportTypes == Spec => []TypeOK
<1>1. BackoffInv => TypeOK
  BY DEF BackoffInv
<1>. QED  BY <1>1, BackoffInit, BackoffNext, PTL DEF Spec

LEMMA MinOfThree ==
    ASSUME NEW a \in Int, NEW b \in Int, NEW c \in Int
    PROVE  /\ Min({a, b, c}) \in {a, b, c}
           /\ \A y \in {a, b, c} : Min({a, b, c}) <= y
<1>1. \E x \in {a, b, c} : \A y \in {a, b, c} : x <= y
  OBVIOUS
<1>. QED  BY <1>1 DEF Min

(* However successes, pauses of the circuit, restorations and corrections  *)
(* of the clock interleave, the k-th failure in a row keeps the transport  *)
(* silent for its doubled and capped delay, or for a whole pause.          *)
THEOREM BackoffKept == Spec => BackoffRespected
<1>. DEFINE Kept == (Posted /\ streak > 0)
                       => quiet >= Min({Earned[streak], MaxBackoff, Pause})
<1>1. BackoffInv /\ [Next]_vars => Kept
  <2>. SUFFICES ASSUME BackoffInv, [Next]_vars, Posted, streak > 0
                PROVE  quiet >= Min({Earned[streak], MaxBackoff, Pause})
    OBVIOUS
  <2>1. SendPost
    <3>1. ~sending /\ sending'
      BY DEF Posted
    <3>. QED
      BY <3>1 DEF Next, WorkQueue, Answer, Timer, StartFlush, SendRefused,
         AnswerFinal, AnswerFailed, PathUpdate, resetBackoff, Tick,
         ClockSetBack, ServerChanges, vars, flush
  <2>2. /\ failAge # None /\ backoff > 0 /\ backoff = Capped(streak)
        /\ failAge <= quiet \/ quiet = Pause
        /\ streak \in 1..MaxStreak /\ quiet \in 0..Pause
        /\ failAge \in None..(MaxBackoff + MaxSetBack) /\ backoff \in 0..MaxBackoff
    BY StreakAssumption DEF BackoffInv, TypeOK
  <2>3. failAge >= backoff
    <3>1. ~(failAge < backoff)
      BY <2>1, <2>2 DEF SendPost, InBackoff
    <3>. QED  BY <2>2, <3>1, TransportAssumption DEF None
  <2>4. Earned[streak] \in Int /\ MaxBackoff \in Int /\ Pause \in Int
    BY <2>2, EarnedFacts, TransportAssumption
  <2>5. \A y \in {Earned[streak], MaxBackoff, Pause} :
            Min({Earned[streak], MaxBackoff, Pause}) <= y
    BY <2>4, MinOfThree
  <2>6. Min({Earned[streak], MaxBackoff, Pause}) \in Int
    <3>1. Min({Earned[streak], MaxBackoff, Pause}) \in {Earned[streak], MaxBackoff, Pause}
      BY <2>4, MinOfThree
    <3>. QED  BY <2>4, <3>1
  <2>. QED
    BY <2>2, <2>3, <2>4, <2>5, <2>6, TransportAssumption DEF Capped, None
<1>2. BackoffInv /\ [Next]_vars => [Kept]_vars
  BY <1>1
<1>. QED
  BY <1>2, BackoffInit, BackoffNext, PTL DEF Spec, BackoffRespected

=============================================================================
