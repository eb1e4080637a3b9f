---------------------------- MODULE NetworkClient ----------------------------
(***************************************************************************)
(* When the SDK's transport lets a POST leave the device: the exponential  *)
(* backoff and the circuit breaker of NetworkClient, driven by flushes from*)
(* the work queue, by the answers of URLSession, and by the callback that  *)
(* ConnectivityMonitor makes when the path is restored.                    *)
(*                                                                         *)
(* Time is discrete, and a Date is kept as its age by the wall clock, up to*)
(* an age at which the code no longer looks.  The clock may be set back, so*)
(* that a Date lies in the future; it is not set forward.                  *)
(***************************************************************************)
EXTENDS Integers, FiniteSetsExt

CONSTANTS MinBackoff,   \* minBackoff, 1 second
          MaxBackoff,   \* maxBackoff, 60 seconds
          Threshold,    \* circuitBreakerThreshold, 5 failures
          Pause,        \* circuitBreakerPause, 60 seconds
          MaxSetBack,   \* bound: how far the clock is set back in all
          MaxStreak     \* bound: failures in a row that `streak` counts

(* What the k-th failure in a row earns, before the cap: twice as much as  *)
(* the failure before it.                                                  *)
Earned[k \in 1..MaxStreak] ==
    IF k = 1 THEN MinBackoff ELSE 2 * Earned[k - 1]

ASSUME TransportAssumption ==
    /\ MinBackoff \in Nat \ {0}
    /\ MaxBackoff \in Nat /\ MaxBackoff >= MinBackoff
    /\ Threshold \in Nat \ {0}
    /\ Pause \in Nat \ {0}
    /\ MaxSetBack \in Nat

(* A streak longer than MaxStreak no longer changes the expected backoff.  *)
ASSUME StreakAssumption ==
    /\ MaxStreak \in Nat \ {0}
    /\ Earned[MaxStreak] >= MaxBackoff

None == -1 - MaxSetBack  \* a nil Date

VARIABLES
    backoff,          \* _currentBackoff
    failAge,          \* age of _lastFailureTime
    failures,         \* _consecutiveFailures
    openAge,          \* age of _circuitOpenedAt
    connected,        \* ConnectivityMonitor._isConnected
    wasDisconnected,  \* ConnectivityMonitor._wasDisconnected
    callback,         \* the restoration callback has resetBackoff left to do
    waiting,          \* what asked for the flushes waiting on the work queue
    flushing,         \* what asked for the flush that runs, "none" if none does
    resending,        \* that flush is still at the batches left on disk
    sending,          \* sendSync waits for the answer to a POST
    serverUp,         \* the environment: the server answers
    setBack,          \* the environment: how far the clock was set back
    streak,           \* history: failed POSTs since a success or a reset
    burst,            \* history: failed POSTs since a success or a full pause
    quiet             \* history: true time since the last failed POST

breaker == <<backoff, failAge, failures, openAge>>
path    == <<connected, wasDisconnected, callback>>
flush   == <<waiting, flushing, resending, sending>>
world   == <<serverUp, setBack>>
history == <<streak, burst, quiet>>
vars    == <<breaker, path, flush, world, history>>

Init ==
    /\ backoff = 0 /\ failAge = None /\ failures = 0 /\ openAge = None
    /\ connected = TRUE /\ wasDisconnected = FALSE /\ callback = FALSE
    /\ waiting = {} /\ flushing = "none"
    /\ resending = FALSE /\ sending = FALSE
    /\ serverUp \in BOOLEAN /\ setBack = 0
    /\ streak = 0 /\ burst = 0 /\ quiet = Pause

-----------------------------------------------------------------------------
(* The work queue.                                                         *)

(* requestFlush from anywhere but the restoration callback.                *)
Timer ==
    /\ "timer" \notin waiting
    /\ waiting' = waiting \cup {"timer"}
    /\ UNCHANGED <<breaker, path, flushing, resending, sending, world,
                   history>>

(* Offline the flush ends; else it first sends what is on disk, if anything*)
(* is (sendPersistedBatches), then what is in memory.                      *)
StartFlush(cause) ==
    /\ flushing = "none" /\ cause \in waiting
    /\ waiting' = waiting \ {cause}
    /\ IF connected THEN flushing' = cause /\ resending' \in BOOLEAN
                    ELSE UNCHANGED <<flushing, resending>>
    /\ UNCHANGED <<breaker, path, sending, world, history>>

(* A deviation: an open circuit that never closes by itself.               *)
CircuitOpenForever == openAge # None

CircuitOpen == openAge # None /\ openAge < Pause
InBackoff   == failAge # None /\ backoff > 0 /\ failAge < backoff

(* The pause is over: sendSync closes the circuit before it goes on.       *)
CloseExpiredCircuit ==
    /\ openAge' = None
    /\ failures' = IF openAge = None THEN failures ELSE 0

(* What sendSync did not get through ends the loop it came from: that over *)
(* the batches on disk, after which there may be events in memory to send, *)
(* or that over the events, and with it the flush.                         *)
StopLoop ==
    /\ resending' = FALSE
    /\ \/ flushing' = "none"
       \/ resending /\ flushing' = flushing

(* sendSync answers for the network.                                       *)
SendRefused ==
    /\ flushing # "none" /\ ~sending
    /\ \/ CircuitOpen /\ UNCHANGED <<openAge, failures>>
       \/ ~CircuitOpen /\ InBackoff /\ CloseExpiredCircuit
    /\ StopLoop
    /\ UNCHANGED <<backoff, failAge, path, waiting, sending, world, history>>

SendPost ==
    /\ flushing # "none" /\ ~sending
    /\ ~CircuitOpen /\ ~InBackoff
    /\ CloseExpiredCircuit
    /\ sending' = TRUE
    /\ UNCHANGED <<backoff, failAge, path, waiting, flushing, resending,
                   world, history>>

-----------------------------------------------------------------------------
(* URLSession's completion handler, and flushSync's next step.             *)

recordSuccess ==
    /\ failures' = 0 /\ backoff' = 0 /\ failAge' = None /\ openAge' = None

(* Deviations: the backoff grows without a cap, or does not grow.          *)
recordFailureUncapped ==
    /\ failures' = failures + 1
    /\ failAge' = 0
    /\ backoff' = IF backoff = 0 THEN MinBackoff ELSE backoff * 2
    /\ openAge' = IF failures + 1 >= Threshold THEN 0 ELSE openAge

recordFailureFlat ==
    /\ failures' = failures + 1
    /\ failAge' = 0
    /\ backoff' = MinBackoff
    /\ openAge' = IF failures + 1 >= Threshold THEN 0 ELSE openAge

recordFailure ==
    /\ failures' = failures + 1
    /\ failAge' = 0
    /\ backoff' = IF backoff = 0 THEN MinBackoff
                                 ELSE Min({backoff * 2, MaxBackoff})
    /\ openAge' = IF failures + 1 >= Threshold THEN 0 ELSE openAge

(* 2xx or 4xx: the flush goes on with the next batch of the loop, from disk*)
(* to memory, or ends.                                                     *)
AnswerFinal ==
    /\ sending /\ serverUp
    /\ recordSuccess
    /\ sending' = FALSE
    /\ resending' \in {resending, FALSE}
    /\ \/ flushing' = flushing
       \/ flushing' = "none" /\ ~resending'
    /\ streak' = 0 /\ burst' = 0
    /\ UNCHANGED <<path, waiting, world, quiet>>

(* 5xx, timeout or connection error.                                       *)
AnswerFailed ==
    /\ sending /\ ~serverUp
    /\ recordFailure
    /\ sending' = FALSE
    /\ StopLoop
    /\ streak' = Min({streak + 1, MaxStreak})
    /\ burst' = IF burst = Threshold THEN 1 ELSE burst + 1
    /\ quiet' = 0
    /\ UNCHANGED <<path, waiting, world>>

-----------------------------------------------------------------------------
(* ConnectivityMonitor's queue.                                            *)

(* handlePathUpdate; NWPathMonitor also reports changes that leave the path*)
(* satisfied.  The callback it makes runs requestFlush first.              *)
PathUpdate(satisfied) ==
    /\ ~callback
    /\ LET restored == satisfied /\ wasDisconnected /\ ~connected
       IN  /\ connected' = satisfied
           /\ wasDisconnected' = IF satisfied
                                 THEN wasDisconnected /\ ~restored ELSE TRUE
           /\ callback' = restored
           /\ waiting' = IF restored THEN waiting \cup {"restored"}
                                     ELSE waiting
    /\ UNCHANGED <<breaker, flushing, resending, sending, world, history>>

(* A deviation: the circuit breaker is reset as well.                      *)
resetBackoffAndCircuit ==
    /\ callback
    /\ callback' = FALSE
    /\ backoff' = 0 /\ failAge' = None
    /\ failures' = 0 /\ openAge' = None
    /\ streak' = 0
    /\ UNCHANGED <<connected, wasDisconnected, flush, world, burst, quiet>>

(* ... and resetBackoff second.                                            *)
resetBackoff ==
    /\ callback
    /\ callback' = FALSE
    /\ backoff' = 0 /\ failAge' = None
    /\ streak' = 0
    /\ UNCHANGED <<failures, openAge, connected, wasDisconnected, flush,
                   world, burst, quiet>>

-----------------------------------------------------------------------------
(* Time, and the server.                                                   *)

Aged(age, most) == IF age = None THEN None ELSE Min({age + 1, most})

Tick ==
    /\ failAge' = Aged(failAge, MaxBackoff + MaxSetBack)
    /\ openAge' = Aged(openAge, Pause + MaxSetBack)
    /\ quiet' = Aged(quiet, Pause)
    /\ UNCHANGED <<backoff, failures, path, flush, world, streak, burst>>

Younger(age) == IF age = None THEN None ELSE age - 1

(* The user, or the network's time, corrects the clock.                    *)
ClockSetBack ==
    /\ setBack < MaxSetBack /\ setBack' = setBack + 1
    /\ failAge' = Younger(failAge) /\ openAge' = Younger(openAge)
    /\ UNCHANGED <<backoff, failures, path, flush, serverUp, history>>

ServerChanges ==
    /\ serverUp' = ~serverUp
    /\ UNCHANGED <<breaker, path, flush, setBack, history>>

-----------------------------------------------------------------------------

WorkQueue == (\E cause \in waiting : StartFlush(cause))
             \/ SendRefused \/ SendPost
Answer    == AnswerFinal \/ AnswerFailed

Next == \/ Timer \/ WorkQueue \/ Answer
        \/ \E satisfied \in BOOLEAN : PathUpdate(satisfied)
        \/ resetBackoff
        \/ Tick \/ ClockSetBack \/ ServerChanges

Spec == Init /\ [][Next]_vars

(* The timer fires, queued blocks run, URLSession completes every task (its*)
(* timeouts are 30 and 60 seconds), callbacks return and time passes.      *)
FairSpec == Spec /\ WF_vars(Timer) /\ WF_vars(WorkQueue) /\ WF_vars(Answer)
                 /\ WF_vars(resetBackoff) /\ WF_vars(Tick)

-----------------------------------------------------------------------------
(* Properties.                                                             *)

Causes == {"timer", "restored"}

(* The types; the breaker never counts past its threshold, because it then *)
(* lets no POST through that could fail.                                   *)
TypeOK ==
    /\ backoff \in 0..MaxBackoff /\ failures \in 0..Threshold
    /\ failAge \in None..(MaxBackoff + MaxSetBack)
    /\ openAge \in None..(Pause + MaxSetBack)
    /\ connected \in BOOLEAN /\ wasDisconnected \in BOOLEAN
    /\ callback \in BOOLEAN
    /\ waiting \subseteq Causes /\ flushing \in Causes \cup {"none"}
    /\ resending \in BOOLEAN
    /\ resending => flushing # "none"
    /\ sending \in BOOLEAN /\ serverUp \in BOOLEAN /\ setBack \in 0..MaxSetBack
    /\ streak \in 0..MaxStreak /\ burst \in 0..Threshold /\ quiet \in 0..Pause

Posted == ~sending /\ sending'

(* "5 consecutive failures -> pause 60s" (NetworkClient.swift:9): after    *)
(* every Threshold-th consecutive failure no POST leaves before the pause  *)
(* is over, even when the path is restored and backoff reset meanwhile, or *)
(* the clock set back.                                                     *)
PauseRespected == [][Posted /\ burst = Threshold => quiet >= Pause]_vars

(* "exponential backoff 1s -> 60s cap" (NetworkClient.swift:8): the k-th   *)
(* failure in a row keeps the next POST back for min(2^(k-1), cap), however*)
(* successes, circuit pauses and resets are interleaved.                   *)
BackoffRespected ==
    [][(Posted /\ streak > 0)
       => quiet >= Min({Earned[streak], MaxBackoff, Pause})]_vars

(* With the server and the path up for good, the transport recovers: the   *)
(* POSTs get through and neither backoff nor circuit holds one back again, *)
(* whatever the order in which a restoration's flush and its resetBackoff  *)
(* came, and however far in the future a date was left by the clock.       *)
Recovers ==
    <>[](serverUp /\ connected) => <>[](backoff = 0 /\ openAge = None)

=============================================================================
