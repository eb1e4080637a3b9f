------------------------------- MODULE Session -------------------------------
(***************************************************************************)
(* The SDK's sessions: Session.touch called by every track, the lifecycle  *)
(* notifications of UIKit, and the session.start event that an             *)
(* asynchronous block emits for every new session.                         *)
(*                                                                         *)
(* Time is discrete.  A Date is kept as its age, up to Timeout + 1, the    *)
(* first age that the code treats as expired; the wall clock is assumed    *)
(* not to jump.  A session's UUID is its number; 0 is no session.          *)
(***************************************************************************)
EXTENDS Integers, Sequences, FiniteSets

CONSTANTS Thread,       \* the threads that call track
          Timeout,      \* timeoutInterval, 5 minutes
          MaxSessions,  \* bound: sessions started
          MaxEvents     \* bound: events tracked

ASSUME SessionAssumption ==
    /\ Timeout \in Nat /\ MaxEvents \in Nat
    /\ MaxSessions \in Nat \ {0}

None == -1              \* a nil Date
Expired == Timeout + 1
Age == None..Expired

VARIABLES
    session,     \* _sessionId
    idle,        \* age of _lastActivityTime
    away,        \* age of _backgroundTime
    announcing,  \* sessions whose onNewSession block has not run
    touched,     \* per thread, the session that touch returned to trackEvent
    log,         \* what was given to EventQueue.enqueue
    foreground,  \* UIKit: the app is in the foreground
    quiet,       \* history: time since the last touch
    last,        \* history: the session of the last touch, 0 before any
    absent,      \* history: time since the app left the foreground
    left         \* history: the session it left in, None in the foreground

dates   == <<idle, away>>
history == <<quiet, last, absent, left>>
vars    == <<session, dates, announcing, touched, log, foreground, history>>

Init ==
    /\ session = 0 /\ idle = None /\ away = None
    /\ announcing = {}
    /\ touched = [t \in Thread |-> 0]
    /\ log = <<>>
    /\ foreground = TRUE
    /\ quiet = None /\ last = 0 /\ absent = None /\ left = None

-----------------------------------------------------------------------------

(* A deviation: >= in the place of >.                                      *)
LapsedEarly(age) == age >= Timeout

Lapsed(age) == age > Timeout

shouldStartNewSession == session = 0 \/ Lapsed(idle)

(* A deviation: the new session is not announced.                          *)
startNewSessionSilently ==
    /\ session' = session + 1
    /\ away' = None
    /\ UNCHANGED announcing

(* _lastActivityTime is set to now; every caller says so itself.           *)
startNewSessionLocked ==
    /\ session' = session + 1
    /\ away' = None
    /\ announcing' = announcing \cup {session + 1}

(* A deviation: every touch ends the stay in the background.               *)
touchForegrounding(t) ==
    /\ touched[t] = 0
    /\ IF shouldStartNewSession
         THEN startNewSessionLocked
         ELSE away' = None /\ UNCHANGED <<session, announcing>>
    /\ idle' = 0
    /\ touched' = [touched EXCEPT ![t] = session']
    /\ quiet' = 0 /\ last' = session'
    /\ UNCHANGED <<log, foreground, absent, left>>

(* trackEvent up to the point where it has its session id.                 *)
touch(t) ==
    /\ touched[t] = 0
    /\ IF shouldStartNewSession
         THEN startNewSessionLocked
         ELSE UNCHANGED <<session, away, announcing>>
    /\ idle' = 0
    /\ touched' = [touched EXCEPT ![t] = session']
    /\ quiet' = 0 /\ last' = session'
    /\ UNCHANGED <<log, foreground, absent, left>>

Tracks(e) == e.event = "tracked"

(* The bound on events.                                                    *)
MoreToTrack == Len(SelectSeq(log, Tracks)) < MaxEvents

(* The rest of trackEvent: the event is made and enqueued.                 *)
EnqueueEvent(t) ==
    /\ touched[t] # 0 /\ MoreToTrack
    /\ log' = Append(log, [event |-> "tracked", session |-> touched[t]])
    /\ touched' = [touched EXCEPT ![t] = 0]
    /\ UNCHANGED <<session, dates, announcing, foreground, history>>

trackEvent(t) == touch(t) \/ EnqueueEvent(t)

(* The blocks of a global queue run in any order.                          *)
emitSessionStart ==
    \E s \in announcing :
        /\ announcing' = announcing \ {s}
        /\ log' = Append(log, [event |-> "session.start", session |-> s])
        /\ UNCHANGED <<session, dates, touched, foreground, history>>

appDidEnterBackground ==
    /\ foreground /\ foreground' = FALSE
    /\ away' = 0
    /\ absent' = 0 /\ left' = session
    /\ UNCHANGED <<session, idle, announcing, touched, log, quiet, last>>

(* Deviations: coming back counts as activity, or the new session has no   *)
(* last activity.                                                          *)
appWillEnterForegroundActive ==
    /\ ~foreground /\ foreground' = TRUE
    /\ IF Lapsed(away)
         THEN startNewSessionLocked
         ELSE away' = None /\ UNCHANGED <<session, announcing>>
    /\ idle' = IF session = 0 THEN idle ELSE 0
    /\ absent' = None /\ left' = None
    /\ UNCHANGED <<touched, log, quiet, last>>

appWillEnterForegroundUndated ==
    /\ ~foreground /\ foreground' = TRUE
    /\ IF Lapsed(away)
         THEN startNewSessionLocked
         ELSE away' = None /\ UNCHANGED <<session, announcing>>
    /\ absent' = None /\ left' = None
    /\ UNCHANGED <<idle, touched, log, quiet, last>>

appWillEnterForeground ==
    /\ ~foreground /\ foreground' = TRUE
    /\ IF Lapsed(away)
         THEN startNewSessionLocked /\ idle' = 0
         ELSE away' = None /\ UNCHANGED <<session, idle, announcing>>
    /\ absent' = None /\ left' = None
    /\ UNCHANGED <<touched, log, quiet, last>>

Older(age) == IF age = None \/ age = Expired THEN age ELSE age + 1

(* The bound on sessions keeps the clock from making another one due.      *)
Tick ==
    /\ session = MaxSessions => idle < Timeout /\ away < Timeout
    /\ \E age \in {idle, away, quiet, absent} : Older(age) # age
    /\ idle' = Older(idle) /\ away' = Older(away)
    /\ quiet' = Older(quiet) /\ absent' = Older(absent)
    /\ UNCHANGED <<session, announcing, touched, log, foreground, last, left>>

Next ==
    \/ \E t \in Thread : trackEvent(t)
    \/ emitSessionStart
    \/ appDidEnterBackground
    \/ appWillEnterForeground
    \/ Tick

Spec == Init /\ [][Next]_vars

-----------------------------------------------------------------------------
(* Types, and what ties the dates to each other.                           *)
TypeOK ==
    /\ session \in 0..MaxSessions
    /\ idle \in Age /\ away \in Age
    /\ announcing \subseteq 1..session
    /\ touched \in [Thread -> 0..session]
    /\ log \in Seq([event : {"tracked", "session.start"}, session : 1..session])
    /\ foreground \in BOOLEAN
    /\ quiet \in Age /\ last \in 0..session /\ absent \in Age
    /\ left \in None..MaxSessions
    /\ session = 0 <=> idle = None

Starts(s) == {i \in DOMAIN log :
                  log[i].event = "session.start" /\ log[i].session = s}

(* Whatever order the asynchronous blocks run in, every session that any   *)
(* event may carry has exactly one session.start event, in the queue or    *)
(* still to come.                                                          *)
OneStartPerSession ==
    \A s \in 1..session :
        Cardinality(Starts(s)) + (IF s \in announcing THEN 1 ELSE 0) = 1

(* Events tracked more than the timeout apart never share a session, even  *)
(* when the app came and went between them.                                *)
SilenceEndsSession ==
    [][\A t \in Thread :
           touched[t] = 0 /\ touched'[t] # 0 /\ quiet > Timeout =>
               session' # last]_vars

(* An app that comes back after more than the timeout never goes on with   *)
(* the session it left in: a new one was started on return, or by an event *)
(* tracked in the background.                                              *)
AbsenceEndsSession ==
    [][foreground' /\ ~foreground /\ absent > Timeout => session' # left]_vars

(* A running session is replaced only for a documented reason: silence or  *)
(* absence of more than the timeout.                                       *)
SplitOnlyWithReason ==
    [][session' # session /\ session # 0 =>
           quiet > Timeout \/ absent > Timeout \/ last = 0]_vars

=============================================================================
