---------------------------- MODULE SessionProofs ----------------------------
(* Theorems about Session, for every set of threads and every timeout.     *)
EXTENDS Session, FiniteSetTheorems, TLAPS

(* What the dates say of each other.  In the background, either the time   *)
(* of going there is still known, or a session began since; a session that *)
(* was touched last is as idle as the app is quiet, and a newer one, which *)
(* a return began, is less.                                                *)
DatesInv ==
    /\ TypeOK
    /\ session = MaxSessions => ~Lapsed(idle) /\ ~Lapsed(away)
    /\ foreground = TRUE => away = None
    /\ foreground = FALSE => \/ away = absent /\ absent # None
                             \/ away = None /\ left < session
    /\ left <= session
    /\ last # 0 => idle <= quiet /\ (last = session => idle = quiet)

Entry(n) == [event : {"tracked", "session.start"}, session : 1..n]

LEMMA LogGrows ==
    ASSUME NEW n \in Nat, NEW l \in Seq(Entry(n))
    PROVE  l \in Seq(Entry(n + 1))
<1>1. Entry(n) \subseteq Entry(n + 1)
  BY DEF Entry
<1>2. l \in [1..Len(l) -> Entry(n + 1)]
  BY <1>1
<1>. QED  BY <1>2

LEMMA OlderBounds ==
    ASSUME NEW age \in Age
    PROVE  /\ Older(age) \in Age
           /\ age = None <=> Older(age) = None
           /\ age < Timeout => ~Lapsed(Older(age))
BY SessionAssumption DEF Older, Age, Expired, None, Lapsed

LEMMA OlderOrder ==
    ASSUME NEW x \in Age, NEW y \in Age, x <= y, x # None
    PROVE  Older(x) <= Older(y)
BY SessionAssumption DEF Older, Age, Expired, None

LEMMA DatesInit == Init => DatesInv
BY SessionAssumption DEF Init, DatesInv, TypeOK, Age, Expired, None, Lapsed

LEMMA DatesNext == DatesInv /\ [Next]_vars => DatesInv'
<1>. SUFFICES ASSUME DatesInv, [Next]_vars PROVE DatesInv'
  OBVIOUS
<1>. USE SessionAssumption
<1>0. TypeOK /\ log \in Seq(Entry(session)) /\ session \in Nat
  BY DEF DatesInv, TypeOK, Entry
<1>a. log \in Seq(Entry(session + 1))
  BY <1>0, LogGrows
<1>1. ASSUME NEW t \in Thread, touch(t) PROVE DatesInv'
  <2>1. CASE shouldStartNewSession
    <3>1. /\ session' = session + 1 /\ away' = None /\ idle' = 0 /\ quiet' = 0
          /\ announcing' = announcing \cup {session + 1}
          /\ touched' = [touched EXCEPT ![t] = session + 1]
          /\ last' = session + 1
          /\ UNCHANGED <<log, foreground, absent, left>>
      BY <1>1, <2>1 DEF touch, startNewSessionLocked
    <3>2. session < MaxSessions
      BY <2>1, <1>0 DEF shouldStartNewSession, DatesInv, TypeOK
    <3>3. TypeOK'
      BY <1>0, <1>a, <3>1, <3>2 DEF TypeOK, Age, Expired, None, Entry
    <3>. QED  BY <1>0, <3>1, <3>2, <3>3
              DEF DatesInv, TypeOK, Lapsed, None, Age, Expired
  <2>2. CASE ~shouldStartNewSession
    <3>1. /\ idle' = 0 /\ quiet' = 0
          /\ touched' = [touched EXCEPT ![t] = session]
          /\ last' = session
          /\ UNCHANGED <<session, away, announcing, log, foreground, absent,
                         left>>
      BY <1>1, <2>2 DEF touch
    <3>2. session # 0
      BY <2>2 DEF shouldStartNewSession
    <3>3. TypeOK'
      BY <1>0, <3>1, <3>2 DEF TypeOK, Age, Expired, None
    <3>. QED  BY <1>0, <3>1, <3>2, <3>3
              DEF DatesInv, TypeOK, Lapsed, None, Age, Expired
  <2>. QED  BY <2>1, <2>2
<1>2. ASSUME NEW t \in Thread, EnqueueEvent(t) PROVE DatesInv'
  <2>1. /\ log' = Append(log, [event |-> "tracked", session |-> touched[t]])
        /\ touched' = [touched EXCEPT ![t] = 0] /\ touched[t] # 0
        /\ UNCHANGED <<session, dates, announcing, foreground, history>>
    BY <1>2 DEF EnqueueEvent
  <2>2. log' \in Seq(Entry(session'))
    BY <1>0, <2>1 DEF TypeOK, Entry
  <2>. QED  BY <1>0, <2>1, <2>2
            DEF DatesInv, TypeOK, Entry, dates, history, Lapsed
<1>3. CASE emitSessionStart
  <2>1. PICK s \in announcing :
            /\ announcing' = announcing \ {s}
            /\ log' = Append(log, [event |-> "session.start", session |-> s])
            /\ UNCHANGED <<session, dates, touched, foreground, history>>
    BY <1>3 DEF emitSessionStart
  <2>2. log' \in Seq(Entry(session'))
    BY <1>0, <2>1 DEF TypeOK, Entry
  <2>. QED  BY <1>0, <2>1, <2>2
            DEF DatesInv, TypeOK, Entry, dates, history, Lapsed
<1>4. CASE appDidEnterBackground
  <2>1. /\ foreground' = FALSE /\ away' = 0 /\ absent' = 0 /\ left' = session
        /\ UNCHANGED <<session, idle, announcing, touched, log, quiet, last>>
    BY <1>4 DEF appDidEnterBackground
  <2>a. 0 \in Age /\ session \in None..MaxSessions
    BY <1>0 DEF TypeOK, None, Age, Expired
  <2>b. UNCHANGED <<log, session, idle, last, quiet, announcing, touched>>
    BY <2>1
  <2>2. TypeOK'
    BY <1>0, <2>1, <2>a, <2>b DEF TypeOK
  <2>. QED  BY <1>0, <2>1, <2>2 DEF DatesInv, TypeOK, Lapsed, None
<1>5. CASE appWillEnterForeground
  <2>1. CASE Lapsed(away)
    <3>1. /\ session' = session + 1 /\ away' = None /\ idle' = 0
          /\ announcing' = announcing \cup {session + 1}
          /\ absent' = None /\ left' = None /\ foreground' = TRUE
          /\ UNCHANGED <<touched, log, quiet, last>>
      BY <1>5, <2>1 DEF appWillEnterForeground, startNewSessionLocked
    <3>2. session < MaxSessions
      BY <2>1, <1>0 DEF DatesInv, TypeOK
    <3>3. TypeOK'
      BY <1>0, <1>a, <3>1, <3>2 DEF TypeOK, Age, Expired, None, Entry
    <3>4. last # 0 => quiet >= 0
      BY <1>0 DEF DatesInv, TypeOK, Age, Expired, None
    <3>. QED  BY <1>0, <3>1, <3>2, <3>3, <3>4
              DEF DatesInv, TypeOK, Lapsed, None, Age, Expired
  <2>2. CASE ~Lapsed(away)
    <3>1. /\ away' = None /\ absent' = None /\ left' = None
          /\ foreground' = TRUE
          /\ UNCHANGED <<session, idle, announcing, touched, log, quiet, last>>
      BY <1>5, <2>2 DEF appWillEnterForeground
    <3>2. TypeOK'
      BY <1>0, <3>1 DEF TypeOK, None, Age, Expired
    <3>. QED  BY <1>0, <3>1, <3>2 DEF DatesInv, TypeOK, Lapsed, None
  <2>. QED  BY <2>1, <2>2
<1>6. CASE Tick
  <2>1. /\ session = MaxSessions => idle < Timeout /\ away < Timeout
        /\ idle' = Older(idle) /\ away' = Older(away)
        /\ quiet' = Older(quiet) /\ absent' = Older(absent)
        /\ UNCHANGED <<session, announcing, touched, log, foreground, last,
                       left>>
    BY <1>6 DEF Tick
  <2>2. /\ idle \in Age /\ away \in Age /\ quiet \in Age /\ absent \in Age
        /\ last # 0 => idle # None
    BY <1>0 DEF TypeOK
  <2>3. TypeOK'
    BY <1>0, <2>1, <2>2, OlderBounds DEF TypeOK
  <2>4. session' = MaxSessions => ~Lapsed(idle') /\ ~Lapsed(away')
    BY <2>1, <2>2, OlderBounds
  <2>5. last' # 0 => idle' <= quiet' /\ (last' = session' => idle' = quiet')
    BY <2>1, <2>2, OlderOrder DEF DatesInv
  <2>6. /\ foreground' = TRUE => away' = None
        /\ foreground' = FALSE => \/ away' = absent' /\ absent' # None
                                  \/ away' = None /\ left' < session'
    BY <2>1, <2>2, OlderBounds DEF DatesInv
  <2>. QED  BY <2>1, <2>3, <2>4, <2>5, <2>6 DEF DatesInv, Lapsed
<1>7. CASE UNCHANGED vars
  BY <1>0, <1>7 DEF vars, dates, history, DatesInv, TypeOK, Lapsed
<1>. QED  BY <1>1, <1>2, <1>3, <1>4, <1>5, <1>6, <1>7 DEF Next, trackEvent

(* Every variable of a session keeps its type, and a session has a last    *)
(* activity as soon as it exists.                                          *)
THEOREM TypeCorrect == Spec => []TypeOK
<1>1. DatesInv => TypeOK
  BY DEF DatesInv
<1>. QED  BY DatesInit, DatesNext, <1>1, PTL DEF Spec

-----------------------------------------------------------------------------
(* The steps that start a session.                                         *)
LEMMA StartsOnly ==
    ASSUME DatesInv, [Next]_vars
    PROVE  \/ session' = session
           \/ /\ session' = session + 1 /\ session # 0
              /\ Lapsed(idle) \/ Lapsed(away)
           \/ session' = session + 1 /\ session = 0
<1>1. ASSUME NEW t \in Thread, touch(t)
      PROVE  \/ session' = session
             \/ session' = session + 1 /\ shouldStartNewSession
  BY <1>1 DEF touch, startNewSessionLocked
<1>2. CASE appWillEnterForeground
  BY <1>2 DEF appWillEnterForeground, startNewSessionLocked
<1>3. ASSUME NEW t \in Thread, EnqueueEvent(t) PROVE session' = session
  BY <1>3 DEF EnqueueEvent
<1>4. CASE emitSessionStart \/ appDidEnterBackground \/ Tick \/ UNCHANGED vars
  BY <1>4 DEF emitSessionStart, appDidEnterBackground, Tick, vars
<1>. QED  BY <1>1, <1>2, <1>3, <1>4
          DEF Next, trackEvent, shouldStartNewSession

(* However the app comes and goes, an absence longer than the timeout ends *)
(* the session that the app left in.                                       *)
THEOREM AbsenceEnds == Spec => AbsenceEndsSession
<1>1. ASSUME DatesInv, [Next]_vars
      PROVE  foreground' /\ ~foreground /\ absent > Timeout => session' # left
  <2>. SUFFICES ASSUME foreground', ~foreground, absent > Timeout
                PROVE  session' # left
    OBVIOUS
  <2>0. /\ session \in Nat /\ left \in Int /\ foreground = FALSE
        /\ left <= session
    BY <1>1, SessionAssumption DEF DatesInv, TypeOK, None
  <2>1. appWillEnterForeground
    BY <1>1 DEF Next, trackEvent, touch, EnqueueEvent, emitSessionStart,
                appDidEnterBackground, Tick, vars
  <2>2. CASE away = absent
    BY <2>0, <2>1, <2>2
    DEF appWillEnterForeground, startNewSessionLocked, Lapsed
  <2>3. CASE left < session
    BY <1>1, <2>0, <2>3, StartsOnly
  <2>. QED  BY <1>1, <2>0, <2>2, <2>3 DEF DatesInv
<1>. QED  BY DatesInit, DatesNext, <1>1, PTL DEF Spec, AbsenceEndsSession

(* Events tracked further apart than the timeout are never in one session. *)
THEOREM SilenceEnds == Spec => SilenceEndsSession
<1>1. ASSUME DatesInv, [Next]_vars
      PROVE  \A t \in Thread :
                 touched[t] = 0 /\ touched'[t] # 0 /\ quiet > Timeout =>
                     session' # last
  <2>. SUFFICES ASSUME NEW t \in Thread, touched[t] = 0, touched'[t] # 0,
                       quiet > Timeout
                PROVE  session' # last
    OBVIOUS
  <2>0. /\ session \in Nat /\ last \in 0..session
        /\ touched \in [Thread -> 0..session]
    BY <1>1, SessionAssumption DEF DatesInv, TypeOK
  <2>1. PICK u \in Thread : touch(u)
    BY <1>1, <2>0 DEF Next, trackEvent, EnqueueEvent, emitSessionStart,
        appDidEnterBackground, appWillEnterForeground, Tick, vars
  <2>2. CASE last = session /\ session # 0
    <3>1. Lapsed(idle)
      BY <1>1, <2>2 DEF DatesInv, Lapsed
    <3>. QED  BY <2>0, <2>1, <2>2, <3>1
              DEF touch, shouldStartNewSession, startNewSessionLocked
  <2>3. CASE session = 0
    BY <2>0, <2>1, <2>3
    DEF touch, shouldStartNewSession, startNewSessionLocked
  <2>4. CASE last < session
    BY <1>1, <2>0, <2>4, StartsOnly
  <2>. QED  BY <2>0, <2>2, <2>3, <2>4
<1>. QED  BY DatesInit, DatesNext, <1>1, PTL DEF Spec, SilenceEndsSession

(* Nothing but silence or absence ends a session that events were tracked  *)
(* in.                                                                     *)
THEOREM OnlyReasonsSplit == Spec => SplitOnlyWithReason
<1>1. ASSUME DatesInv, [Next]_vars
      PROVE  session' # session /\ session # 0 =>
                 quiet > Timeout \/ absent > Timeout \/ last = 0
  <2>0. /\ idle \in Int /\ quiet \in Int /\ away \in Int /\ absent \in Int
        /\ foreground \in BOOLEAN /\ Timeout \in Nat
    BY <1>1, SessionAssumption DEF DatesInv, TypeOK, Age, Expired, None
  <2>1. Lapsed(away) => absent > Timeout
    BY <1>1, <2>0 DEF DatesInv, Lapsed, None
  <2>2. last # 0 /\ Lapsed(idle) => quiet > Timeout
    BY <1>1, <2>0 DEF DatesInv, Lapsed
  <2>. QED  BY <1>1, <2>1, <2>2, StartsOnly
<1>. QED  BY DatesInit, DatesNext, <1>1, PTL DEF Spec, SplitOnlyWithReason

-----------------------------------------------------------------------------
(* The announcements, without counting: a session still to be announced is *)
(* nowhere in the log, any other is in it at one place.                    *)
StartsInv ==
    \A s \in 1..session :
        IF s \in announcing THEN Starts(s) = {}
                            ELSE \E i \in DOMAIN log : Starts(s) = {i}

LEMMA StartsAppend ==
    ASSUME NEW n \in Nat, log \in Seq(Entry(n)), NEW e \in Entry(n),
           log' = Append(log, e), NEW s
    PROVE  Starts(s)' = IF e.event = "session.start" /\ e.session = s
                          THEN Starts(s) \cup {Len(log) + 1}
                          ELSE Starts(s)
<1>1. /\ DOMAIN log = 1..Len(log) /\ DOMAIN log' = 1..(Len(log) + 1)
      /\ Len(log) \in Nat
      /\ \A i \in 1..Len(log) : log'[i] = log[i]
      /\ log'[Len(log) + 1] = e
  OBVIOUS
<1>. QED  BY <1>1 DEF Starts

LEMMA StartsNext ==
    DatesInv /\ StartsInv /\ [Next]_vars => StartsInv'
<1>. SUFFICES ASSUME DatesInv, StartsInv, [Next]_vars PROVE StartsInv'
  OBVIOUS
<1>0. /\ log \in Seq(Entry(session)) /\ session \in Nat
      /\ announcing \subseteq 1..session
      /\ touched \in [Thread -> 0..session]
  BY DEF DatesInv, TypeOK, Entry
<1>1. ASSUME session' = session + 1, announcing' = announcing \cup {session + 1},
             log' = log
      PROVE  StartsInv'
  <2>1. \A s : Starts(s)' = Starts(s)
    BY <1>1 DEF Starts
  <2>a. \A i \in DOMAIN log : log[i] \in Entry(session)
    BY <1>0
  <2>b. \A e \in Entry(session) : e.session \in 1..session
    BY DEF Entry
  <2>2. \A i \in DOMAIN log : log[i].session \in 1..session
    BY <2>a, <2>b
  <2>3. Starts(session + 1) = {}
    BY <1>0, <2>2 DEF Starts
  <2>. QED  BY <1>0, <1>1, <2>1, <2>3 DEF StartsInv
<1>2. ASSUME UNCHANGED <<session, announcing, log>> PROVE StartsInv'
  BY <1>2 DEF StartsInv, Starts
<1>3. ASSUME NEW t \in Thread, touch(t) PROVE StartsInv'
  BY <1>1, <1>2, <1>3 DEF touch, startNewSessionLocked
<1>4. ASSUME NEW t \in Thread, EnqueueEvent(t) PROVE StartsInv'
  <2>. DEFINE e == [event |-> "tracked", session |-> touched[t]]
  <2>1. /\ log' = Append(log, e) /\ touched[t] # 0
        /\ UNCHANGED <<session, announcing>>
    BY <1>4 DEF EnqueueEvent
  <2>2. e \in Entry(session) /\ e.event # "session.start"
    BY <1>0, <2>1 DEF Entry
  <2>. HIDE DEF e
  <2>3. \A s : Starts(s)' = Starts(s)
    BY <1>0, <2>1, <2>2, StartsAppend
  <2>4. DOMAIN log \subseteq DOMAIN log'
    BY <1>0, <2>1, <2>2
  <2>. QED  BY <2>1, <2>3, <2>4 DEF StartsInv
<1>5. CASE emitSessionStart
  <2>1. PICK s \in announcing :
            /\ announcing' = announcing \ {s}
            /\ log' = Append(log, [event |-> "session.start", session |-> s])
            /\ UNCHANGED session
    BY <1>5 DEF emitSessionStart
  <2>. DEFINE e == [event |-> "session.start", session |-> s]
  <2>2. e \in Entry(session) /\ e.event = "session.start" /\ e.session = s
    BY <1>0, <2>1 DEF Entry
  <2>3. log' = Append(log, e)
    BY <2>1
  <2>. HIDE DEF e
  <2>4. \A r : Starts(r)' = IF r = s THEN Starts(r) \cup {Len(log) + 1}
                                     ELSE Starts(r)
    BY <1>0, <2>2, <2>3, StartsAppend
  <2>5. DOMAIN log \subseteq DOMAIN log' /\ Len(log) + 1 \in DOMAIN log'
    BY <1>0, <2>2, <2>3
  <2>6. Starts(s) = {} /\ s \in 1..session
    BY <1>0 DEF StartsInv
  <2>. QED  BY <2>1, <2>4, <2>5, <2>6 DEF StartsInv
<1>6. CASE appDidEnterBackground \/ Tick \/ UNCHANGED vars
  BY <1>2, <1>6 DEF appDidEnterBackground, Tick, vars
<1>7. CASE appWillEnterForeground
  BY <1>1, <1>2, <1>7 DEF appWillEnterForeground, startNewSessionLocked
<1>. QED  BY <1>3, <1>4, <1>5, <1>6, <1>7 DEF Next, trackEvent

(* Every session is announced by exactly one session.start event, whatever *)
(* the order in which the asynchronous blocks run.                         *)
THEOREM AnnouncedOnce == Spec => []OneStartPerSession
<1>1. Init => StartsInv
  BY DEF Init, StartsInv
<1>2. DatesInv /\ StartsInv => OneStartPerSession
  <2>. SUFFICES ASSUME StartsInv, NEW s \in 1..session
                PROVE  Cardinality(Starts(s))
                           + (IF s \in announcing THEN 1 ELSE 0) = 1
    BY DEF OneStartPerSession
  <2>1. CASE s \in announcing
    BY <2>1, FS_EmptySet DEF StartsInv
  <2>2. CASE s \notin announcing
    <3>1. PICK i : Starts(s) = {i}
      BY <2>2 DEF StartsInv
    <3>2. Cardinality({i}) = 1
      BY FS_Singleton
    <3>. QED  BY <2>2, <3>1, <3>2
  <2>. QED  BY <2>1, <2>2
<1>. QED  BY DatesInit, DatesNext, StartsNext, <1>1, <1>2, PTL DEF Spec

=============================================================================
