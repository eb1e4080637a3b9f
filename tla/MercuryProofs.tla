---------------------------- MODULE MercuryProofs ----------------------------
(* Theorems about Mercury, for any number of agents, peers and channels,   *)
(* any number of messages and any number of launches.                      *)
EXTENDS Mercury, WellFoundedInduction, TLAPS

USE MercuryAssumption DEF None

-----------------------------------------------------------------------------
(* The queries.                                                            *)

(* A bounded set of rowids has a largest one.                              *)
LEMMA LargestId ==
    ASSUME NEW T, NEW m \in Nat, T \subseteq 0..m, T # {}
    PROVE  Max(T) \in T /\ \A y \in T : y <= Max(T)
<1>. DEFINE gaps == {k \in Nat : m - k \in T}
<1>1. gaps \subseteq Nat /\ gaps # {}
  <2>1. PICK t \in T : TRUE
    OBVIOUS
  <2>2. m - t \in Nat /\ m - (m - t) = t
    BY <2>1
  <2>. QED  BY <2>1, <2>2
<1>2. \E x \in gaps : \A y \in gaps : <<y, x>> \notin OpToRel(<, Nat)
  BY <1>1, NatLessThanWellFounded, WFMin
<1>3. \A x, y \in Nat : <<y, x>> \notin OpToRel(<, Nat) => x <= y
  BY DEF OpToRel
<1>4. PICK x \in gaps : \A y \in gaps : x <= y
  BY <1>1, <1>2, <1>3
<1>5. ASSUME NEW t \in T PROVE t <= m - x
  <2>1. m - t \in gaps
    <3>1. m - t \in Nat /\ m - (m - t) = t
      OBVIOUS
    <3>. QED  BY <3>1
  <2>. QED  BY <2>1, <1>4
<1>6. m - x \in T
  BY <1>4
<1>7. \E z \in T : \A y \in T : z >= y
  BY <1>5, <1>6
<1>. QED  BY <1>7 DEF Max

(* The types of what the queries read.                                     *)
MessagesOK ==
    /\ messages \in Seq([channel : Channel, sender : Agent \cup Peer])
    /\ Len(messages) <= MaxMessages

LEMMA OnFacts ==
    ASSUME MessagesOK
    PROVE  /\ Len(messages) \in 0..MaxMessages
           /\ DOMAIN messages = 1..Len(messages)
           /\ \A c : On(c) \subseteq 1..Len(messages) /\ On(c) \subseteq Ids
BY DEF MessagesOK, On, Ids

LEMMA LatestFacts ==
    ASSUME MessagesOK, NEW c
    PROVE  /\ LatestId(c) \in 0..Len(messages) /\ LatestId(c) \in Cursor
           /\ LatestId(c) \in On(c) \cup {0}
           /\ \A i \in On(c) : i <= LatestId(c)
<1>1. On(c) \cup {0} \subseteq 0..Len(messages)
  BY OnFacts
<1>2. Len(messages) \in Nat
  BY OnFacts
<1>3. /\ LatestId(c) \in On(c) \cup {0}
      /\ \A i \in On(c) \cup {0} : i <= LatestId(c)
  BY <1>1, <1>2, LargestId DEF LatestId
<1>. QED  BY <1>1, <1>3, OnFacts DEF Cursor

(* The largest id of a channel behind a cursor is the channel's latest.    *)
LEMMA NewFacts ==
    ASSUME MessagesOK, NEW c, NEW id \in Cursor, id # None
    PROVE  /\ NewOn(c, id) \subseteq Ids
           /\ Max(NewOn(c, id) \cup {id}) \in Cursor \ {None}
           /\ Max(NewOn(c, id) \cup {id}) \in NewOn(c, id) \cup {id}
           /\ \A i \in NewOn(c, id) \cup {id} : i <= Max(NewOn(c, id) \cup {id})
           /\ NewOn(c, id) # {} =>
                 /\ Max(NewOn(c, id)) \in NewOn(c, id)
                 /\ Max(NewOn(c, id)) \in Cursor
                 /\ \A i \in On(c) : i <= Max(NewOn(c, id))
<1>1. NewOn(c, id) \subseteq On(c) /\ NewOn(c, id) \subseteq Ids
  BY OnFacts DEF NewOn
<1>2. id \in 0..MaxMessages
  BY DEF Cursor
<1>3. NewOn(c, id) \cup {id} \subseteq 0..MaxMessages
  BY <1>1, <1>2 DEF Ids
<1>4. /\ Max(NewOn(c, id) \cup {id}) \in NewOn(c, id) \cup {id}
      /\ \A i \in NewOn(c, id) \cup {id} : i <= Max(NewOn(c, id) \cup {id})
  BY <1>3, LargestId
<1>5. ASSUME NewOn(c, id) # {}
      PROVE  /\ Max(NewOn(c, id)) \in NewOn(c, id)
             /\ \A i \in NewOn(c, id) : i <= Max(NewOn(c, id))
  BY <1>3, <1>5, LargestId
<1>6. ASSUME NewOn(c, id) # {}, NEW i \in On(c)
      PROVE  i <= Max(NewOn(c, id))
  <2>1. Max(NewOn(c, id)) \in Ids /\ Max(NewOn(c, id)) > id /\ i \in Ids
    BY <1>5, <1>6, OnFacts DEF NewOn
  <2>2. CASE i > id
    BY <2>2, <1>5, <1>6 DEF NewOn
  <2>3. CASE ~(i > id)
    BY <2>1, <2>3, <1>2 DEF Ids
  <2>. QED  BY <2>2, <2>3
<1>. QED  BY <1>1, <1>3, <1>4, <1>5, <1>6 DEF Cursor, Ids

(* A row once inserted stays as it is, and the new one is the last.        *)
LEMMA PostedFacts ==
    ASSUME MessagesOK, NEW a \in Agent \cup Peer, NEW c \in Channel,
           Len(messages) < MaxMessages, messages' = Posted(a, c)
    PROVE  /\ MessagesOK' /\ Len(messages') = Len(messages) + 1
           /\ \A i \in 1..Len(messages) : messages'[i] = messages[i]
           /\ \A d : /\ On(d) \subseteq On(d)'
                     /\ \A i \in On(d)' : i \in On(d) \/ i = Len(messages) + 1
<1>1. /\ messages' = Append(messages, [channel |-> c, sender |-> a])
      /\ [channel |-> c, sender |-> a] \in [channel : Channel, sender : Agent \cup Peer]
  BY DEF Posted
<1>2. /\ MessagesOK' /\ Len(messages') = Len(messages) + 1
      /\ \A i \in 1..Len(messages) : messages'[i] = messages[i]
  BY <1>1 DEF MessagesOK
<1>3. DOMAIN messages = 1..Len(messages) /\ DOMAIN messages' = 1..Len(messages)'
  BY <1>2 DEF MessagesOK
<1>. QED  BY <1>2, <1>3 DEF On, MessagesOK

-----------------------------------------------------------------------------
(* Types.                                                                  *)

Work == [call : {"none", "init", "poll", "read"},
         todo : SUBSET Channel, reply : SUBSET Ids]

(* What TypeOK says of one agent's callback w.                             *)
WellFormed(w) == w \in Work /\ (w.todo = {}) = (w = Idle)

LEMMA DoneFacts ==
    ASSUME TypeOK, NEW a \in Agent, NEW c \in work[a].todo
    PROVE  /\ alive[a] /\ WellFormed(Done(a, c)) /\ WellFormed(Idle)
           /\ Done(a, c).call \in {work[a].call, "none"}
           /\ Done(a, c).reply = {} \/ /\ Done(a, c).reply = work[a].reply
                                       /\ Done(a, c).call = work[a].call
<1>1. work[a] \in Work /\ WellFormed(Idle)
  BY DEF TypeOK, Work, WellFormed, Idle
<1>2. work[a] # Idle
  BY DEF Idle
<1>3. CASE work[a].todo = {c}
  BY <1>1, <1>2, <1>3 DEF Done, Idle, TypeOK
<1>4. CASE work[a].todo # {c}
  <2>. DEFINE w == [work[a] EXCEPT !.todo = @ \ {c}]
  <2>1. /\ w \in Work /\ w.todo = work[a].todo \ {c}
        /\ w.call = work[a].call /\ w.reply = work[a].reply
    BY <1>1 DEF Work
  <2>2. w.todo # {} /\ w # Idle
    BY <1>4, <2>1 DEF Idle
  <2>. QED  BY <1>1, <1>2, <1>4, <2>1, <2>2 DEF Done, TypeOK, WellFormed
<1>. QED  BY <1>3, <1>4

(* Updates of one agent's cursor and of one agent's history.               *)
LEMMA CursorSet ==
    ASSUME NEW f \in [Agent -> [Channel -> Cursor]],
           NEW a \in Agent, NEW c \in Channel, NEW id \in Cursor
    PROVE  /\ [f EXCEPT ![a][c] = id] \in [Agent -> [Channel -> Cursor]]
           /\ [f[a] EXCEPT ![c] = id] \in [Channel -> Cursor]
           /\ [f EXCEPT ![a][c] = id] = [f EXCEPT ![a] = [f[a] EXCEPT ![c] = id]]
           /\ \A b \in Agent, d \in Channel :
                 [f EXCEPT ![a][c] = id][b][d] = IF b = a /\ d = c THEN id ELSE f[b][d]
<1>1. f[a] \in [Channel -> Cursor]
  OBVIOUS
<1>2. [f[a] EXCEPT ![c] = id] \in [Channel -> Cursor]
  BY <1>1
<1>3. [f EXCEPT ![a][c] = id] = [f EXCEPT ![a] = [f[a] EXCEPT ![c] = id]]
  OBVIOUS
<1>4. \A b \in Agent, d \in Channel :
         [f EXCEPT ![a][c] = id][b][d] = IF b = a /\ d = c THEN id ELSE f[b][d]
  <2>. TAKE b \in Agent, d \in Channel
  <2>1. f[b] \in [Channel -> Cursor]
    OBVIOUS
  <2>. QED  BY <1>1, <2>1
<1>. QED  BY <1>2, <1>3, <1>4

LEMMA HistorySet ==
    ASSUME NEW h \in [Agent -> SUBSET Ids], NEW a \in Agent, NEW S \in SUBSET Ids
    PROVE  [h EXCEPT ![a] = @ \cup S] \in [Agent -> SUBSET Ids]
OBVIOUS

LEMMA TypeInit == Init => TypeOK
BY DEF Init, TypeOK, Idle, Cursor

(* A step of agent a's process that changes work, the cursors and the       *)
(* history of a alone.                                                     *)
LEMMA TypeOfStep ==
    ASSUME TypeOK, NEW a \in Agent, alive[a],
           UNCHANGED <<messages, subs, alive, starts>>,
           NEW w, WellFormed(w), work' = [work EXCEPT ![a] = w],
           cursors' \in [Agent -> [Channel -> Cursor]],
           NEW p \in [Channel -> Cursor],
           pollCursors' = [pollCursors EXCEPT ![a] = p],
           {pushed, read, missed, life}' \subseteq [Agent -> SUBSET Ids]
    PROVE  TypeOK'
<1>1. work' \in [Agent -> Work]
  BY DEF TypeOK, Work, WellFormed
<1>2. \A b \in Agent : /\ (work'[b].todo = {}) = (work'[b] = Idle)
                       /\ ~alive'[b] => work'[b] = Idle
                       /\ ~alive'[b] => \A c \in Channel : pollCursors'[b][c] = None
  <2>. TAKE b \in Agent
  <2>1. CASE b = a
    BY <2>1 DEF TypeOK, WellFormed
  <2>2. CASE b # a
    BY <2>2 DEF TypeOK
  <2>. QED  BY <2>1, <2>2
<1>. QED  BY <1>1, <1>2 DEF TypeOK, Work

LEMMA TypeNext == TypeOK /\ [Next]_vars => TypeOK'
<1>. SUFFICES ASSUME TypeOK, [Next]_vars PROVE TypeOK'
  OBVIOUS
<1>0. MessagesOK
  BY DEF TypeOK, MessagesOK
<1>1. ASSUME NEW a \in Agent, Start(a) PROVE TypeOK'
  <2>. DEFINE w == IF subs'[a] = {} THEN Idle
                   ELSE [call |-> "init", todo |-> subs'[a], reply |-> {}]
  <2>1. /\ messages' = Posted(a, Status) /\ Len(messages) < MaxMessages
        /\ starts' = starts + 1 /\ starts < MaxStarts
        /\ alive' = [alive EXCEPT ![a] = TRUE]
        /\ subs' = [subs EXCEPT ![a] = @ \cup AutoChannels[a]]
        /\ work' = [work EXCEPT ![a] = w]
        /\ UNCHANGED <<cursors, pollCursors, pushed, read, missed, life>>
    BY <1>1 DEF Start, session
  <2>2. MessagesOK'
    BY <1>0, <2>1, PostedFacts
  <2>3. subs' \in [Agent -> SUBSET Channel]
    BY <2>1 DEF TypeOK
  <2>4. WellFormed(w)
    BY <2>3 DEF WellFormed, Work, Idle
  <2>5. work' \in [Agent -> Work] /\ WellFormed(work'[a])
    BY <2>1, <2>4 DEF TypeOK, Work, WellFormed
  <2>. HIDE DEF w
  <2>6. \A b \in Agent : /\ (work'[b].todo = {}) = (work'[b] = Idle)
                         /\ ~alive'[b] => work'[b] = Idle
                         /\ ~alive'[b] => \A c \in Channel : pollCursors'[b][c] = None
    <3>. TAKE b \in Agent
    <3>1. CASE b = a
      BY <2>1, <2>5, <3>1 DEF TypeOK, WellFormed
    <3>2. CASE b # a
      BY <2>1, <3>2 DEF TypeOK
    <3>. QED  BY <3>1, <3>2
  <2>7. alive' \in [Agent -> BOOLEAN] /\ starts' \in 0..MaxStarts
    BY <2>1 DEF TypeOK
  <2>. QED  BY <2>1, <2>2, <2>3, <2>5, <2>6, <2>7 DEF TypeOK, Work, MessagesOK
<1>2. ASSUME NEW a \in Agent, Stop(a) PROVE TypeOK'
  <2>1. work[a].reply \in SUBSET Ids /\ {} \in SUBSET Ids
    BY DEF TypeOK
  <2>2. [c \in Channel |-> None] \in [Channel -> Cursor]
    BY DEF Cursor
  <2>3. /\ alive' = [alive EXCEPT ![a] = FALSE]
        /\ pollCursors' = [pollCursors EXCEPT ![a] = [c \in Channel |-> None]]
        /\ work' = [work EXCEPT ![a] = Idle]
        /\ missed' = [missed EXCEPT ![a] = @ \cup work[a].reply]
        /\ life' = [life EXCEPT ![a] = {}]
        /\ UNCHANGED <<messages, subs, cursors, starts, pushed, read>>
    BY <1>2 DEF Stop, database
  <2>4. work' \in [Agent -> Work] /\ WellFormed(Idle)
    BY <2>3 DEF TypeOK, WellFormed, Work, Idle
  <2>5. {pushed, read, missed, life}' \subseteq [Agent -> SUBSET Ids]
    BY <2>1, <2>3, HistorySet DEF TypeOK
  <2>6. \A b \in Agent : /\ (work'[b].todo = {}) = (work'[b] = Idle)
                         /\ ~alive'[b] => work'[b] = Idle
                         /\ ~alive'[b] => \A c \in Channel : pollCursors'[b][c] = None
    <3>. TAKE b \in Agent
    <3>1. CASE b = a
      BY <2>3, <2>4, <3>1 DEF TypeOK, WellFormed
    <3>2. CASE b # a
      BY <2>3, <3>2 DEF TypeOK
    <3>. QED  BY <3>1, <3>2
  <2>7. alive' \in [Agent -> BOOLEAN] /\ pollCursors' \in [Agent -> [Channel -> Cursor]]
    BY <2>2, <2>3 DEF TypeOK
  <2>. QED  BY <2>3, <2>4, <2>5, <2>6, <2>7 DEF TypeOK, Work
<1>3. ASSUME NEW a \in Agent, PollStart(a) PROVE TypeOK'
  <2>1. WellFormed([call |-> "poll", todo |-> subs[a], reply |-> {}])
    BY <1>3 DEF PollStart, WellFormed, Work, Idle, TypeOK
  <2>. QED
    BY <1>3, <2>1, TypeOfStep DEF PollStart, Ready, database, session, TypeOK
<1>4. ASSUME NEW a \in Agent, NEW c \in Channel, InitChannel(a, c) PROVE TypeOK'
  <2>. DEFINE id == IF cursors[a][c] = None THEN LatestId(c) ELSE cursors[a][c]
  <2>1. LatestId(c) \in Cursor /\ On(c) \in SUBSET Ids /\ id \in Cursor
    BY <1>0, LatestFacts, OnFacts DEF TypeOK
  <2>2. WellFormed(Done(a, c)) /\ alive[a]
    BY <1>4, DoneFacts DEF InitChannel, Doing
  <2>. HIDE DEF id
  <2>3. /\ pollCursors' = [pollCursors EXCEPT ![a] = [pollCursors[a] EXCEPT ![c] = id]]
        /\ [pollCursors[a] EXCEPT ![c] = id] \in [Channel -> Cursor]
    BY <1>4, <2>1, CursorSet DEF InitChannel, TypeOK, id
  <2>4. cursors' \in [Agent -> [Channel -> Cursor]]
    BY <1>4, <2>1, CursorSet DEF InitChannel, TypeOK
  <2>5. {pushed, read, missed, life}' \subseteq [Agent -> SUBSET Ids]
    BY <1>4, <2>1, HistorySet DEF InitChannel, TypeOK
  <2>6. /\ work' = [work EXCEPT ![a] = Done(a, c)]
        /\ UNCHANGED <<messages, subs, alive, starts>>
    BY <1>4 DEF InitChannel
  <2>. QED  BY <2>2, <2>3, <2>4, <2>5, <2>6, TypeOfStep
<1>5. ASSUME NEW a \in Agent, NEW c \in Channel, PollNewChannel(a, c) PROVE TypeOK'
  <2>1. LatestId(c) \in Cursor /\ On(c) \in SUBSET Ids
    BY <1>0, LatestFacts, OnFacts
  <2>2. WellFormed(Done(a, c)) /\ WellFormed(Idle) /\ alive[a]
    BY <1>5, DoneFacts DEF PollNewChannel, Doing
  <2>3. /\ pollCursors' = [pollCursors EXCEPT ![a] = [pollCursors[a] EXCEPT ![c] = LatestId(c)]]
        /\ [pollCursors[a] EXCEPT ![c] = LatestId(c)] \in [Channel -> Cursor]
    BY <1>5, <2>1, CursorSet DEF PollNewChannel, TypeOK
  <2>4. cursors' \in [Agent -> [Channel -> Cursor]]
    <3>1. cursors' = cursors \/ cursors' = [cursors EXCEPT ![a][c] = LatestId(c)]
      BY <1>5 DEF PollNewChannel, Upsert
    <3>2. cursors \in [Agent -> [Channel -> Cursor]]
      BY DEF TypeOK
    <3>3. [cursors EXCEPT ![a][c] = LatestId(c)] \in [Agent -> [Channel -> Cursor]]
      BY <2>1, <3>2, CursorSet
    <3>. QED  BY <3>1, <3>2, <3>3
  <2>5. PICK w \in {Done(a, c), Idle} : work' = [work EXCEPT ![a] = w]
    BY <1>5 DEF PollNewChannel, Upsert
  <2>6. {pushed, read, missed, life}' \subseteq [Agent -> SUBSET Ids]
    BY <1>5, <2>1, HistorySet DEF PollNewChannel, TypeOK
  <2>7. UNCHANGED <<messages, subs, alive, starts>>
    BY <1>5 DEF PollNewChannel
  <2>. QED  BY <2>2, <2>3, <2>4, <2>5, <2>6, <2>7, TypeOfStep
<1>6. ASSUME NEW a \in Agent, NEW c \in Channel, PollChannel(a, c) PROVE TypeOK'
  <2>. DEFINE ids == NewOn(c, pollCursors[a][c])
              notices == ids \ By(a, ids)
  <2>0. pollCursors[a][c] \in Cursor /\ pollCursors[a][c] # None
    BY <1>6 DEF PollChannel, TypeOK
  <2>1. ids \subseteq Ids /\ (ids # {} => Max(ids) \in Cursor)
    BY <1>0, <2>0, NewFacts
  <2>2. WellFormed(Done(a, c)) /\ WellFormed(Idle) /\ alive[a]
    BY <1>6, DoneFacts DEF PollChannel, Doing
  <2>. DEFINE p == IF ids = {} THEN pollCursors[a]
                   ELSE [pollCursors[a] EXCEPT ![c] = Max(ids)]
  <2>. HIDE DEF ids
  <2>3. p \in [Channel -> Cursor] /\ pollCursors' = [pollCursors EXCEPT ![a] = p]
    BY <1>6, <2>1, CursorSet DEF PollChannel, TypeOK, ids
  <2>4. cursors' \in [Agent -> [Channel -> Cursor]]
    <3>1. \/ cursors' = cursors
          \/ /\ ids # {}
             /\ cursors' = [cursors EXCEPT ![a][c] = Max(ids)]
      BY <1>6 DEF PollChannel, Upsert, ids
    <3>2. cursors \in [Agent -> [Channel -> Cursor]]
      BY DEF TypeOK
    <3>3. ids # {} => [cursors EXCEPT ![a][c] = Max(ids)] \in [Agent -> [Channel -> Cursor]]
      BY <2>1, <3>2, CursorSet
    <3>. QED  BY <3>1, <3>2, <3>3
  <2>5. PICK w \in {Done(a, c), Idle} : work' = [work EXCEPT ![a] = w]
    BY <1>6 DEF PollChannel, Upsert
  <2>6. {pushed, read, missed, life}' \subseteq [Agent -> SUBSET Ids]
    <3>1. PICK gone \in SUBSET notices :
                 /\ pushed' = [pushed EXCEPT ![a] = @ \cup (notices \ gone)]
                 /\ missed' = [missed EXCEPT ![a] = @ \cup gone]
      BY <1>6 DEF PollChannel, ids
    <3>2. /\ notices \in SUBSET Ids /\ gone \in SUBSET Ids
          /\ notices \ gone \in SUBSET Ids
      BY <2>1
    <3>3. life' = [life EXCEPT ![a] = @ \cup notices] /\ read' = read
      BY <1>6 DEF PollChannel, ids
    <3>. HIDE DEF notices
    <3>. QED  BY <3>1, <3>2, <3>3, HistorySet DEF TypeOK
  <2>. HIDE DEF p
  <2>. QED
    BY <1>6, <2>2, <2>3, <2>4, <2>5, <2>6, TypeOfStep DEF PollChannel
<1>7. ASSUME NEW a \in Agent, NEW c \in Channel, ReadChannel(a, c) PROVE TypeOK'
  <2>. DEFINE ids == IF cursors[a][c] = None THEN {} ELSE NewOn(c, cursors[a][c])
              upto == IF cursors[a][c] = None THEN LatestId(c)
                      ELSE Max(ids \cup {cursors[a][c]})
              reply == work[a].reply \cup ids
              goOn == [work[a] EXCEPT !.todo = @ \ {c}, !.reply = reply]
  <2>1. ids \subseteq Ids /\ upto \in Cursor /\ On(c) \subseteq Ids
    <3>1. cursors[a][c] \in Cursor
      BY DEF TypeOK
    <3>. QED  BY <1>0, <3>1, NewFacts, LatestFacts, OnFacts
  <2>2. alive[a] /\ WellFormed(Idle) /\ work[a] \in Work
    BY <1>7, DoneFacts DEF ReadChannel, Doing, TypeOK, Work
  <2>. HIDE DEF ids, upto
  <2>3. reply \subseteq Ids
    BY <2>1, <2>2 DEF Work
  <2>4. work[a].todo # {c} => WellFormed(goOn)
    <3>1. goOn \in Work /\ goOn.todo = work[a].todo \ {c} /\ goOn.call = work[a].call
      BY <2>2, <2>3 DEF Work
    <3>2. work[a].call = "read" /\ c \in work[a].todo
      BY <1>7 DEF ReadChannel, Doing
    <3>. QED  BY <3>1, <3>2 DEF WellFormed, Idle
  <2>5. \/ /\ cursors' = [cursors EXCEPT ![a][c] = upto]
           /\ missed' = IF cursors[a][c] = None
                        THEN [missed EXCEPT ![a] = @ \cup On(c)] ELSE missed
           /\ \/ /\ work' = [work EXCEPT ![a] = Idle]
                 /\ read' = [read EXCEPT ![a] = @ \cup reply]
              \/ /\ work[a].todo # {c}
                 /\ work' = [work EXCEPT ![a] = goOn]
                 /\ UNCHANGED read
        \/ /\ work' = [work EXCEPT ![a] = Idle]
           /\ missed' = [missed EXCEPT ![a] = @ \cup work[a].reply]
           /\ UNCHANGED <<cursors, read>>
    BY <1>7, <2>2 DEF ReadChannel, ids, upto, Work
  <2>6. UNCHANGED <<messages, subs, alive, pollCursors, starts, pushed, life>>
    BY <1>7 DEF ReadChannel
  <2>7. cursors' \in [Agent -> [Channel -> Cursor]]
    <3>1. cursors' = cursors \/ cursors' = [cursors EXCEPT ![a][c] = upto]
      BY <2>5
    <3>2. cursors \in [Agent -> [Channel -> Cursor]]
      BY DEF TypeOK
    <3>3. [cursors EXCEPT ![a][c] = upto] \in [Agent -> [Channel -> Cursor]]
      BY <2>1, <3>2, CursorSet
    <3>. QED  BY <3>1, <3>2, <3>3
  <2>8. {pushed, read, missed, life}' \subseteq [Agent -> SUBSET Ids]
    <3>1. /\ reply \in SUBSET Ids /\ On(c) \in SUBSET Ids
          /\ work[a].reply \in SUBSET Ids
      BY <2>1, <2>2, <2>3 DEF Work
    <3>2. missed' \in [Agent -> SUBSET Ids]
      <4>1. \/ missed' = missed \/ missed' = [missed EXCEPT ![a] = @ \cup On(c)]
            \/ missed' = [missed EXCEPT ![a] = @ \cup work[a].reply]
        BY <2>5
      <4>2. missed \in [Agent -> SUBSET Ids]
        BY DEF TypeOK
      <4>3. /\ [missed EXCEPT ![a] = @ \cup On(c)] \in [Agent -> SUBSET Ids]
            /\ [missed EXCEPT ![a] = @ \cup work[a].reply] \in [Agent -> SUBSET Ids]
        BY <3>1, <4>2, HistorySet
      <4>. QED  BY <4>1, <4>2, <4>3
    <3>3. read' \in [Agent -> SUBSET Ids]
      <4>1. read' = read \/ read' = [read EXCEPT ![a] = @ \cup reply]
        BY <2>5
      <4>2. read \in [Agent -> SUBSET Ids]
        BY DEF TypeOK
      <4>3. [read EXCEPT ![a] = @ \cup reply] \in [Agent -> SUBSET Ids]
        BY <3>1, <4>2, HistorySet
      <4>. QED  BY <4>1, <4>2, <4>3
    <3>. QED  BY <2>6, <3>2, <3>3 DEF TypeOK
  <2>9. PICK w : WellFormed(w) /\ work' = [work EXCEPT ![a] = w]
    BY <2>2, <2>4, <2>5
  <2>10. pollCursors[a] \in [Channel -> Cursor]
         /\ pollCursors' = [pollCursors EXCEPT ![a] = pollCursors[a]]
    BY <2>6 DEF TypeOK
  <2>. QED  BY <2>2, <2>6, <2>7, <2>8, <2>9, <2>10, TypeOfStep
<1>8. ASSUME NEW a \in Agent, ReadStart(a) PROVE TypeOK'
  <2>1. PICK todo \in {{c} : c \in Channel} \cup {subs[a]} :
             /\ todo # {}
             /\ work' = [work EXCEPT ![a] = [call |-> "read", todo |-> todo,
                                             reply |-> {}]]
    BY <1>8 DEF ReadStart
  <2>2. todo \subseteq Channel
    BY DEF TypeOK
  <2>3. WellFormed([call |-> "read", todo |-> todo, reply |-> {}])
    BY <2>1, <2>2 DEF WellFormed, Work, Idle
  <2>4. pollCursors[a] \in [Channel -> Cursor]
        /\ pollCursors' = [pollCursors EXCEPT ![a] = pollCursors[a]]
    BY <1>8 DEF ReadStart, TypeOK
  <2>. QED
    BY <1>8, <2>1, <2>3, <2>4, TypeOfStep
    DEF ReadStart, Ready, database, session, TypeOK
<1>9. ASSUME NEW a \in Agent \cup Peer, NEW c \in Channel,
             Len(messages) < MaxMessages, messages' = Posted(a, c),
             UNCHANGED <<subs, cursors, process, session>>
      PROVE  TypeOK'
  <2>1. MessagesOK'
    BY <1>0, <1>9, PostedFacts
  <2>. QED  BY <1>9, <2>1 DEF TypeOK, MessagesOK, process, session
<1>10. ASSUME NEW a \in Agent, NEW s \in SUBSET Channel,
              subs' = [subs EXCEPT ![a] = s],
              UNCHANGED <<messages, cursors, process, session>>
       PROVE  TypeOK'
  BY <1>10 DEF TypeOK, process, session
<1>11. ASSUME NEW a \in Agent, NEW c \in Channel,
              \/ SubscribeTool(a, c) \/ UnsubscribeTool(a, c) \/ LauncherSubscribes(a, c)
       PROVE  TypeOK'
  <2>1. subs[a] \cup {c} \in SUBSET Channel /\ subs[a] \ {c} \in SUBSET Channel
    BY DEF TypeOK
  <2>2. subs' = [subs EXCEPT ![a] = subs[a] \cup {c}]
        \/ subs' = [subs EXCEPT ![a] = subs[a] \ {c}]
    BY <1>11 DEF SubscribeTool, UnsubscribeTool, LauncherSubscribes
  <2>3. UNCHANGED <<messages, cursors, process, session>>
    BY <1>11 DEF SubscribeTool, UnsubscribeTool, LauncherSubscribes
  <2>. QED  BY <2>1, <2>2, <2>3, <1>10
<1>12. CASE UNCHANGED vars
  BY <1>12 DEF vars, database, process, session, TypeOK
<1>. QED
  BY <1>1, <1>2, <1>3, <1>4, <1>5, <1>6, <1>7, <1>8, <1>9, <1>11, <1>12
  DEF Next, Callback, Tool, SendTool, PeerSends

(* A callback runs only in a live process, a stopped process keeps no poll *)
(* cursors, and every cursor stays within the table.                       *)
THEOREM MercuryTypes == Spec => []TypeOK
BY TypeInit, TypeNext, PTL DEF Spec

-----------------------------------------------------------------------------
(* The cursors.                                                            *)

(* A cursor stands at a message of its channel, or before all of them.     *)
OnChannel(c) == On(c) \cup {None, 0}

CursorInv ==
    /\ TypeOK
    /\ \A a \in Agent, c \in Channel : /\ cursors[a][c] \in OnChannel(c)
                                       /\ pollCursors[a][c] \in OnChannel(c)

(* One channel of a callback: what becomes of the two cursors of agent a.  *)
Moves(a, c, id, k) ==
    /\ id \in OnChannel(c) /\ k \in OnChannel(c)
    /\ id \in Cursor /\ k \in Cursor
    /\ cursors[a][c] <= id
    /\ cursors' = cursors \/ cursors' = [cursors EXCEPT ![a][c] = id]
    /\ pollCursors' = pollCursors \/ pollCursors' = [pollCursors EXCEPT ![a][c] = k]
    /\ UNCHANGED messages

Forgets(a) ==
    /\ pollCursors' = [pollCursors EXCEPT ![a] = [c \in Channel |-> None]]
    /\ UNCHANGED <<messages, cursors>>

Posts == /\ \E a \in Agent \cup Peer, c \in Channel : messages' = Posted(a, c)
         /\ Len(messages) < MaxMessages
         /\ UNCHANGED <<cursors, pollCursors>>

LEMMA CursorSteps ==
    ASSUME CursorInv, [Next]_vars
    PROVE  \/ \E a \in Agent, c \in Channel : \E id, k : Moves(a, c, id, k)
           \/ \E a \in Agent : Forgets(a)
           \/ Posts
           \/ UNCHANGED <<messages, cursors, pollCursors>>
<1>0. TypeOK /\ MessagesOK
  BY DEF CursorInv, TypeOK, MessagesOK
<1>1. ASSUME NEW a \in Agent, NEW c \in Channel
      PROVE  /\ cursors[a][c] \in Cursor /\ pollCursors[a][c] \in Cursor
             /\ cursors[a][c] \in OnChannel(c) /\ pollCursors[a][c] \in OnChannel(c)
             /\ LatestId(c) \in OnChannel(c) /\ LatestId(c) \in Cursor
             /\ cursors[a][c] <= LatestId(c)
  <2>1. cursors[a][c] \in OnChannel(c) /\ pollCursors[a][c] \in OnChannel(c)
    BY DEF CursorInv
  <2>2. cursors[a][c] \in Cursor /\ pollCursors[a][c] \in Cursor
    BY <1>0 DEF TypeOK
  <2>3. /\ LatestId(c) \in On(c) \cup {0} /\ LatestId(c) \in Cursor
        /\ LatestId(c) \in 0..Len(messages) /\ Len(messages) \in Nat
        /\ \A i \in On(c) : i <= LatestId(c)
    BY <1>0, LatestFacts, OnFacts
  <2>. QED  BY <2>1, <2>2, <2>3 DEF OnChannel
<1>2. ASSUME NEW a \in Agent, Start(a) PROVE Posts
  BY <1>2 DEF Start, Posts
<1>3. ASSUME NEW a \in Agent, Stop(a) PROVE Forgets(a)
  BY <1>3 DEF Stop, Forgets, database
<1>4. ASSUME NEW a \in Agent, NEW c \in Channel, InitChannel(a, c)
      PROVE  Moves(a, c, LatestId(c), IF cursors[a][c] = None THEN LatestId(c)
                                      ELSE cursors[a][c])
  BY <1>1, <1>4 DEF InitChannel, Moves
<1>5. ASSUME NEW a \in Agent, NEW c \in Channel, PollNewChannel(a, c)
      PROVE  Moves(a, c, LatestId(c), LatestId(c))
  BY <1>1, <1>5 DEF PollNewChannel, Upsert, Moves
<1>6. ASSUME NEW a \in Agent, NEW c \in Channel, PollChannel(a, c)
      PROVE  \E id, k : Moves(a, c, id, k)
  <2>. DEFINE ids == NewOn(c, pollCursors[a][c])
  <2>0. pollCursors[a][c] # None
    BY <1>6 DEF PollChannel
  <2>1. CASE ids = {}
    <3>1. UNCHANGED <<cursors, pollCursors, messages>>
      BY <1>6, <2>1 DEF PollChannel
    <3>. QED  BY <1>1, <3>1 DEF Moves
  <2>2. CASE ids # {}
    <3>1. /\ Max(ids) \in ids /\ Max(ids) \in Cursor
          /\ \A i \in On(c) : i <= Max(ids)
      BY <1>0, <1>1, <2>0, <2>2, NewFacts
    <3>2. ids \subseteq On(c) /\ On(c) \subseteq Ids
      BY <1>0, OnFacts DEF NewOn
    <3>3. cursors[a][c] <= Max(ids)
      BY <1>1, <3>1, <3>2 DEF OnChannel, Ids
    <3>4. Upsert(a, c, Max(ids)) /\ UNCHANGED messages
          /\ pollCursors' = [pollCursors EXCEPT ![a][c] = Max(ids)]
      BY <1>6, <2>2 DEF PollChannel
    <3>. HIDE DEF ids
    <3>5. Moves(a, c, Max(ids), Max(ids))
      BY <3>1, <3>2, <3>3, <3>4 DEF Moves, Upsert, OnChannel
    <3>. QED  BY <3>5
  <2>. QED  BY <2>1, <2>2
<1>7. ASSUME NEW a \in Agent, NEW c \in Channel, ReadChannel(a, c)
      PROVE  \E id, k : Moves(a, c, id, k)
  <2>. DEFINE ids == IF cursors[a][c] = None THEN {} ELSE NewOn(c, cursors[a][c])
              upto == IF cursors[a][c] = None THEN LatestId(c)
                      ELSE Max(ids \cup {cursors[a][c]})
  <2>1. UNCHANGED <<messages, pollCursors>>
    BY <1>7 DEF ReadChannel
  <2>2. cursors' = cursors \/ cursors' = [cursors EXCEPT ![a][c] = upto]
    BY <1>7 DEF ReadChannel
  <2>3. upto \in OnChannel(c) /\ upto \in Cursor /\ cursors[a][c] <= upto
    <3>1. CASE cursors[a][c] = None
      BY <1>1, <3>1
    <3>2. CASE cursors[a][c] # None
      <4>. DEFINE all == NewOn(c, cursors[a][c]) \cup {cursors[a][c]}
      <4>1. upto = Max(all)
        BY <3>2
      <4>2. Max(all) \in Cursor /\ Max(all) \in all /\ cursors[a][c] <= Max(all)
        BY <1>0, <1>1, <3>2, NewFacts
      <4>3. all \subseteq OnChannel(c)
        BY <1>1 DEF NewOn, OnChannel
      <4>. QED  BY <4>1, <4>2, <4>3
    <3>. QED  BY <3>1, <3>2
  <2>. HIDE DEF upto
  <2>4. Moves(a, c, upto, pollCursors[a][c])
    BY <1>1, <2>1, <2>2, <2>3 DEF Moves
  <2>. QED  BY <2>4
<1>8. ASSUME NEW a \in Agent, NEW c \in Channel, SendTool(a, c) PROVE Posts
  BY <1>8 DEF SendTool, Posts, process
<1>9. ASSUME NEW p \in Peer, NEW c \in Channel, PeerSends(p, c) PROVE Posts
  BY <1>9 DEF PeerSends, Posts, process
<1>10. ASSUME NEW a \in Agent, NEW c \in Channel,
              \/ PollStart(a) \/ ReadStart(a) \/ SubscribeTool(a, c)
              \/ UnsubscribeTool(a, c) \/ LauncherSubscribes(a, c)
       PROVE  UNCHANGED <<messages, cursors, pollCursors>>
  BY <1>10 DEF PollStart, ReadStart, SubscribeTool, UnsubscribeTool,
     LauncherSubscribes, database, process
<1>11. CASE UNCHANGED vars
  BY <1>11 DEF vars, database, process
<1>. QED
  BY <1>2, <1>3, <1>4, <1>5, <1>6, <1>7, <1>8, <1>9, <1>10, <1>11
  DEF Next, Callback, Tool

LEMMA CursorInit == Init => CursorInv
BY TypeInit DEF Init, CursorInv, OnChannel

LEMMA CursorNext ==
    CursorInv /\ [Next]_vars =>
        /\ CursorInv'
        /\ \A a \in Agent, c \in Channel : cursors[a][c] <= cursors'[a][c]
<1>. SUFFICES ASSUME CursorInv, [Next]_vars
              PROVE  /\ CursorInv'
                     /\ \A a \in Agent, c \in Channel : cursors[a][c] <= cursors'[a][c]
  OBVIOUS
<1>0. /\ TypeOK /\ TypeOK' /\ MessagesOK
      /\ \A a \in Agent, c \in Channel : cursors[a][c] \in Int
      /\ cursors \in [Agent -> [Channel -> Cursor]]
      /\ pollCursors \in [Agent -> [Channel -> Cursor]]
  <2>1. TypeOK /\ TypeOK'
    BY TypeNext DEF CursorInv
  <2>2. /\ MessagesOK /\ \A a \in Agent, c \in Channel : cursors[a][c] \in Cursor
        /\ cursors \in [Agent -> [Channel -> Cursor]]
        /\ pollCursors \in [Agent -> [Channel -> Cursor]]
    BY <2>1 DEF TypeOK, MessagesOK
  <2>. QED  BY <2>1, <2>2 DEF Cursor
<1>1. ASSUME NEW a \in Agent, NEW c \in Channel, NEW id, NEW k, Moves(a, c, id, k),
             NEW b \in Agent, NEW d \in Channel
      PROVE  /\ cursors'[b][d] \in OnChannel(d)' /\ pollCursors'[b][d] \in OnChannel(d)'
             /\ cursors[b][d] <= cursors'[b][d]
  <2>1. OnChannel(d)' = OnChannel(d)
    BY <1>1 DEF Moves, OnChannel, On
  <2>2. \/ cursors' = cursors
        \/ cursors'[b][d] = IF b = a /\ d = c THEN id ELSE cursors[b][d]
    BY <1>0, <1>1, CursorSet DEF Moves
  <2>3. \/ pollCursors' = pollCursors
        \/ pollCursors'[b][d] = IF b = a /\ d = c THEN k ELSE pollCursors[b][d]
    BY <1>0, <1>1, CursorSet DEF Moves
  <2>. QED  BY <1>0, <1>1, <2>1, <2>2, <2>3 DEF Moves, CursorInv
<1>2. ASSUME NEW a \in Agent, Forgets(a), NEW b \in Agent, NEW d \in Channel
      PROVE  /\ cursors'[b][d] \in OnChannel(d)' /\ pollCursors'[b][d] \in OnChannel(d)'
             /\ cursors[b][d] <= cursors'[b][d]
  <2>1. OnChannel(d)' = OnChannel(d) /\ None \in OnChannel(d)
    BY <1>2 DEF Forgets, OnChannel, On
  <2>2. pollCursors'[b][d] = IF b = a THEN None ELSE pollCursors[b][d]
    BY <1>0, <1>2 DEF Forgets
  <2>3. cursors'[b][d] = cursors[b][d]
    BY <1>2 DEF Forgets
  <2>. QED  BY <1>0, <2>1, <2>2, <2>3 DEF CursorInv
<1>3. ASSUME Posts, NEW b \in Agent, NEW d \in Channel
      PROVE  /\ cursors'[b][d] \in OnChannel(d)' /\ pollCursors'[b][d] \in OnChannel(d)'
             /\ cursors[b][d] <= cursors'[b][d]
  <2>1. On(d) \subseteq On(d)'
    BY <1>0, <1>3, PostedFacts DEF Posts
  <2>. QED  BY <1>0, <1>3, <2>1 DEF Posts, OnChannel, CursorInv
<1>4. ASSUME UNCHANGED <<messages, cursors, pollCursors>>,
             NEW b \in Agent, NEW d \in Channel
      PROVE  /\ cursors'[b][d] \in OnChannel(d)' /\ pollCursors'[b][d] \in OnChannel(d)'
             /\ cursors[b][d] <= cursors'[b][d]
  BY <1>0, <1>4 DEF OnChannel, On, CursorInv
<1>. QED
  BY <1>0, <1>1, <1>2, <1>3, <1>4, CursorSteps DEF CursorInv

(* Although a poll and the read tool both write it, and the poll's own     *)
(* cursor may lie behind the stored one or before a restart's, the stored  *)
(* cursor of a channel never moves back.                                   *)
THEOREM CursorsAdvance == Spec => CursorNeverBack
<1>1. CursorInv /\ [Next]_vars =>
         [\A a \in Agent : \A c \in Channel : cursors[a][c] <= cursors'[a][c]]_vars
  BY CursorNext
<1>. QED  BY <1>1, CursorInit, CursorNext, PTL DEF Spec, CursorNeverBack

-----------------------------------------------------------------------------
(* The notifications of one process.                                       *)

(* A process has notified nothing before its first poll, and nothing that  *)
(* its poll cursors are not beyond.                                        *)
LifeInv ==
    /\ CursorInv
    /\ \A a \in Agent : ~alive[a] \/ work[a].call = "init" => life[a] = {}
    /\ \A a \in Agent : life[a] \subseteq DOMAIN messages
    /\ \A a \in Agent, c \in Channel :
          \A i \in On(c) \cap life[a] : i <= pollCursors[a][c]

LEMMA LifeInit == Init => LifeInv
BY CursorInit DEF Init, LifeInv

(* What a poll of channel c notifies.                                      *)
LEMMA PollNotifies ==
    ASSUME LifeInv, NEW a \in Agent, NEW c \in Channel, PollChannel(a, c)
    PROVE  /\ UNCHANGED messages
           /\ \A b \in Agent : b # a => life'[b] = life[b]
           /\ life[a] \subseteq life'[a]
           /\ \A i \in life'[a] \ life[a] : i \in On(c) /\ i > pollCursors[a][c]
<1>1. life' = [life EXCEPT ![a] = @ \cup (NewOn(c, pollCursors[a][c])
                                \ By(a, NewOn(c, pollCursors[a][c])))]
      /\ UNCHANGED messages
  BY DEF PollChannel
<1>2. life \in [Agent -> SUBSET Ids]
  BY DEF LifeInv, CursorInv, TypeOK
<1>. QED  BY <1>1, <1>2 DEF NewOn

LEMMA LifeNext == LifeInv /\ [Next]_vars => LifeInv'
<1>. SUFFICES ASSUME LifeInv, [Next]_vars PROVE LifeInv'
  OBVIOUS
<1>. DEFINE LifeOf(a) == /\ ~alive[a] \/ work[a].call = "init" => life[a] = {}
                         /\ life[a] \subseteq DOMAIN messages
                         /\ \A c \in Channel :
                               \A i \in On(c) \cap life[a] : i <= pollCursors[a][c]
<1>0. /\ CursorInv /\ CursorInv' /\ TypeOK /\ TypeOK' /\ MessagesOK
      /\ \A a \in Agent : LifeOf(a)
  <2>1. CursorInv /\ CursorInv' /\ TypeOK /\ TypeOK'
    BY CursorNext DEF LifeInv, CursorInv
  <2>. QED  BY <2>1 DEF TypeOK, MessagesOK, LifeInv
<1>u. /\ work \in [Agent -> Work]
      /\ pollCursors \in [Agent -> [Channel -> Cursor]]
      /\ alive \in [Agent -> BOOLEAN] /\ life \in [Agent -> SUBSET Ids]
  BY <1>0 DEF TypeOK, Work
<1>s. SUFFICES ASSUME NEW b \in Agent PROVE LifeOf(b)'
  BY <1>0 DEF LifeInv
<1>p. ASSUME NEW a \in Agent \cup Peer, NEW c \in Channel,
             Len(messages) < MaxMessages, messages' = Posted(a, c),
             UNCHANGED <<pollCursors, life>>,
             ~alive'[b] \/ work'[b].call = "init" =>
                ~alive[b] \/ work[b].call = "init"
      PROVE  LifeOf(b)'
  <2>1. /\ \A d \in Channel : \A i \in On(d)' : i \in On(d) \/ i = Len(messages) + 1
        /\ Len(messages') = Len(messages) + 1 /\ Len(messages) \in Nat
        /\ DOMAIN messages = 1..Len(messages)
        /\ MessagesOK'
    BY <1>0, <1>p, PostedFacts, OnFacts
  <2>2. DOMAIN messages' = 1..Len(messages)'
    BY <2>1 DEF MessagesOK
  <2>3. life[b] \subseteq 1..Len(messages)
    BY <1>0, <2>1
  <2>. QED  BY <1>0, <1>p, <2>1, <2>2, <2>3
<1>k. ASSUME UNCHANGED <<messages, pollCursors, life, alive>>,
             work'[b].call = "init" => work[b].call = "init"
      PROVE  LifeOf(b)'
  BY <1>0, <1>k DEF On
<1>1. ASSUME NEW a \in Agent, Start(a) PROVE LifeOf(b)'
  <2>1. /\ messages' = Posted(a, Status) /\ Len(messages) < MaxMessages
        /\ ~alive[a] /\ alive' = [alive EXCEPT ![a] = TRUE]
        /\ work' = [work EXCEPT ![a] = work'[a]]
        /\ UNCHANGED <<pollCursors, life>>
    BY <1>1, <1>u DEF Start, session
  <2>2. ~alive'[b] \/ work'[b].call = "init" => ~alive[b] \/ work[b].call = "init"
    BY <2>1, <1>u
  <2>. QED  BY <2>1, <2>2, <1>p
<1>2. ASSUME NEW a \in Agent, Stop(a) PROVE LifeOf(b)'
  <2>1. /\ alive' = [alive EXCEPT ![a] = FALSE]
        /\ pollCursors' = [pollCursors EXCEPT ![a] = [c \in Channel |-> None]]
        /\ work' = [work EXCEPT ![a] = Idle]
        /\ life' = [life EXCEPT ![a] = {}]
        /\ UNCHANGED messages
    BY <1>2 DEF Stop, database
  <2>2. CASE b = a
    BY <2>1, <2>2, <1>u
  <2>3. CASE b # a
    BY <2>1, <2>3, <1>u, <1>0 DEF On
  <2>. QED  BY <2>2, <2>3
<1>3. ASSUME NEW a \in Agent, PollStart(a) \/ ReadStart(a) PROVE LifeOf(b)'
  <2>1. /\ UNCHANGED <<messages, pollCursors, life, alive>>
        /\ work'[a].call # "init" /\ work' = [work EXCEPT ![a] = work'[a]]
    BY <1>3, <1>u DEF PollStart, ReadStart, database, session
  <2>2. work'[b].call = "init" => work[b].call = "init"
    BY <2>1, <1>u
  <2>. QED  BY <2>1, <2>2, <1>k
<1>4. ASSUME NEW a \in Agent, NEW c \in Channel, InitChannel(a, c) PROVE LifeOf(b)'
  <2>1. /\ UNCHANGED <<messages, alive, life>>
        /\ work[a].call = "init" /\ life[a] = {}
        /\ work' = [work EXCEPT ![a] = Done(a, c)]
        /\ pollCursors' = [pollCursors EXCEPT ![a] = pollCursors'[a]]
    BY <1>4, <1>u, <1>0 DEF InitChannel, Doing
  <2>2. CASE b = a
    BY <2>1, <2>2, <1>u, <1>0
  <2>3. CASE b # a
    BY <2>1, <2>3, <1>u, <1>0 DEF On
  <2>. QED  BY <2>2, <2>3
<1>5. ASSUME NEW a \in Agent, NEW c \in Channel, PollNewChannel(a, c) PROVE LifeOf(b)'
  <2>1. /\ UNCHANGED <<messages, alive, life>>
        /\ work[a].call = "poll" /\ pollCursors[a][c] = None
        /\ pollCursors' = [pollCursors EXCEPT ![a][c] = LatestId(c)]
        /\ work' = [work EXCEPT ![a] = Done(a, c)] \/ work' = [work EXCEPT ![a] = Idle]
    BY <1>5 DEF PollNewChannel, Upsert, Doing
  <2>2. Done(a, c).call # "init" /\ Idle.call # "init"
    BY <1>5, <2>1, <1>0, DoneFacts DEF PollNewChannel, Doing, Idle
  <2>3. work'[b].call = "init" => work[b].call = "init"
    BY <2>1, <2>2, <1>u
  <2>4. /\ LatestId(c) \in Cursor
        /\ \A d \in Channel : pollCursors'[b][d] =
                IF b = a /\ d = c THEN LatestId(c) ELSE pollCursors[b][d]
    BY <1>0, <1>u, <2>1, LatestFacts, CursorSet
  <2>5. ASSUME b = a PROVE On(c) \cap life[b] = {}
    BY <2>1, <2>5, <1>0, OnFacts DEF On
  <2>. QED  BY <2>1, <2>3, <2>4, <2>5, <1>0 DEF On
<1>6. ASSUME NEW a \in Agent, NEW c \in Channel, PollChannel(a, c) PROVE LifeOf(b)'
  <2>. DEFINE ids == NewOn(c, pollCursors[a][c])
  <2>0. pollCursors[a][c] # None /\ pollCursors[a][c] \in Cursor
    BY <1>6, <1>u DEF PollChannel
  <2>1. /\ UNCHANGED <<messages, alive>>
        /\ work[a].call = "poll"
        /\ work' = [work EXCEPT ![a] = Done(a, c)] \/ work' = [work EXCEPT ![a] = Idle]
    BY <1>6 DEF PollChannel, Upsert, Doing
  <2>2. Done(a, c).call # "init" /\ Idle.call # "init" /\ alive[a]
    BY <1>6, <2>1, <1>0, DoneFacts DEF PollChannel, Doing, Idle
  <2>3. work'[b].call = "init" => work[b].call = "init"
    BY <2>1, <2>2, <1>u
  <2>4. CASE b # a
    <3>1. life'[b] = life[b]
      BY <1>6, <2>4, PollNotifies
    <3>2. pollCursors' = pollCursors \/ pollCursors' = [pollCursors EXCEPT ![a][c] = Max(ids)]
      BY <1>6 DEF PollChannel
    <3>3. pollCursors'[b] = pollCursors[b]
      BY <2>4, <3>2, <1>u
    <3>. QED  BY <2>1, <2>3, <3>1, <3>3, <1>0 DEF On
  <2>5. CASE b = a
    <3>1. work'[b].call # "init" /\ alive'[b]
      BY <2>1, <2>2, <2>5, <1>u
    <3>2. life'[b] \subseteq DOMAIN messages'
      BY <1>6, <2>5, <1>0, PollNotifies DEF On
    <3>3. ASSUME NEW d \in Channel, NEW i \in On(d)' \cap life'[b]
          PROVE  i <= pollCursors'[b][d]
      <4>0. i \in On(d) /\ On(c) \subseteq Ids /\ On(d) \subseteq Ids
        BY <2>1, <3>3, <1>0, OnFacts DEF On
      <4>1. CASE d # c
        <5>1. i \notin On(c)
          BY <4>0, <4>1 DEF On
        <5>2. i \in life[b]
          BY <1>6, <2>5, <3>3, <5>1, PollNotifies
        <5>3. pollCursors' = pollCursors \/ pollCursors' = [pollCursors EXCEPT ![a][c] = Max(ids)]
          BY <1>6 DEF PollChannel
        <5>4. pollCursors[a] \in [Channel -> Cursor]
          BY <1>u
        <5>5. pollCursors'[b][d] = pollCursors[b][d]
          BY <4>1, <2>5, <5>3, <5>4, <1>u
        <5>. QED  BY <1>0, <4>0, <5>2, <5>5
      <4>2. CASE d = c /\ ids = {}
        <5>1. pollCursors' = pollCursors
          BY <1>6, <4>2 DEF PollChannel
        <5>2. i \in life[b]
          BY <1>6, <2>5, <3>3, <4>2, PollNotifies DEF NewOn
        <5>. QED  BY <1>0, <4>0, <5>1, <5>2
      <4>3. CASE d = c /\ ids # {}
        <5>1. Max(ids) \in Cursor /\ \A j \in On(c) : j <= Max(ids)
          BY <1>0, <2>0, <4>3, NewFacts
        <5>2. pollCursors' = [pollCursors EXCEPT ![a][c] = Max(ids)]
          BY <1>6, <4>3 DEF PollChannel
        <5>. HIDE DEF ids
        <5>3. pollCursors'[a][c] = Max(ids)
          BY <5>1, <5>2, <1>u, CursorSet
        <5>. QED  BY <2>5, <4>0, <4>3, <5>1, <5>3
      <4>. QED  BY <4>1, <4>2, <4>3
    <3>. QED  BY <3>1, <3>2, <3>3
  <2>. QED  BY <2>4, <2>5
<1>7. ASSUME NEW a \in Agent, NEW c \in Channel, ReadChannel(a, c) PROVE LifeOf(b)'
  <2>1. /\ UNCHANGED <<messages, pollCursors, life, alive>>
        /\ work[a].call = "read"
        /\ work' = [work EXCEPT ![a] = work'[a]]
        /\ work'[a].call \in {work[a].call, "none"}
    BY <1>7, <1>u DEF ReadChannel, Doing, Idle, Work
  <2>2. work'[b].call = "init" => work[b].call = "init"
    BY <2>1, <1>u
  <2>. QED  BY <2>1, <2>2, <1>k
<1>8. ASSUME NEW a \in Agent, NEW c \in Channel, SendTool(a, c) PROVE LifeOf(b)'
  BY <1>8, <1>p DEF SendTool, process, session
<1>9. ASSUME NEW p \in Peer, NEW c \in Channel, PeerSends(p, c) PROVE LifeOf(b)'
  BY <1>9, <1>p DEF PeerSends, process, session
<1>10. ASSUME NEW a \in Agent, NEW c \in Channel,
              \/ SubscribeTool(a, c) \/ UnsubscribeTool(a, c) \/ LauncherSubscribes(a, c)
       PROVE  LifeOf(b)'
  BY <1>10, <1>k
  DEF SubscribeTool, UnsubscribeTool, LauncherSubscribes, process, session
<1>11. CASE UNCHANGED vars
  BY <1>11, <1>k DEF vars, database, process, session
<1>. HIDE DEF LifeOf
<1>. QED
  BY <1>1, <1>2, <1>3, <1>4, <1>5, <1>6, <1>7, <1>8, <1>9, <1>10, <1>11
  DEF Next, Callback, Tool

(* A process notifies no message twice and the messages of a channel in the*)
(* order they were posted, whatever sends, reads, failed upserts and       *)
(* subscriptions fall between its polls.                                   *)
THEOREM NotifiesInOrder == Spec => PushedInOrder
<1>. DEFINE InOrder == \A a \in Agent : \A c \in Channel :
                          \A i \in On(c) \cap (life[a]' \ life[a]) :
                              \A j \in On(c) \cap life[a] : j < i
<1>1. LifeInv /\ [Next]_vars => [InOrder]_vars
  <2>. SUFFICES ASSUME LifeInv, [Next]_vars,
                       NEW a \in Agent, NEW c \in Channel,
                       NEW i \in On(c) \cap (life[a]' \ life[a]),
                       NEW j \in On(c) \cap life[a]
                PROVE  j < i
    OBVIOUS
  <2>0. TypeOK /\ MessagesOK
    BY DEF LifeInv, CursorInv, TypeOK, MessagesOK
  <2>1. PICK b \in Agent, d \in Channel : PollChannel(b, d)
    <3>1. life' # life
      OBVIOUS
    <3>2. ASSUME NEW b \in Agent, Stop(b) PROVE FALSE
      <4>1. life' = [life EXCEPT ![b] = {}] /\ life \in [Agent -> SUBSET Ids]
        BY <2>0, <3>2 DEF Stop, TypeOK
      <4>2. life'[a] \subseteq life[a]
        BY <4>1
      <4>. QED  BY <4>2
    <3>3. ASSUME NEW b \in Agent, NEW d \in Channel,
                 \/ Start(b) \/ PollStart(b) \/ ReadStart(b)
                 \/ InitChannel(b, d) \/ PollNewChannel(b, d) \/ ReadChannel(b, d)
                 \/ SendTool(b, d) \/ SubscribeTool(b, d) \/ UnsubscribeTool(b, d)
                 \/ LauncherSubscribes(b, d)
          PROVE  life' = life
      BY <3>3 DEF Start, InitChannel, PollStart, PollNewChannel, SendTool,
         SubscribeTool, UnsubscribeTool, ReadStart, ReadChannel,
         LauncherSubscribes, session
    <3>4. ASSUME NEW p \in Peer, NEW d \in Channel, PeerSends(p, d)
          PROVE  life' = life
      BY <3>4 DEF PeerSends, session
    <3>5. UNCHANGED vars => life' = life
      BY DEF vars, session
    <3>. QED
      BY <3>1, <3>2, <3>3, <3>4, <3>5 DEF Next, Callback, Tool
  <2>2. b = a /\ i \in On(d) /\ i > pollCursors[a][d]
    BY <2>1, PollNotifies
  <2>3. c = d
    BY <2>2 DEF On
  <2>4. j <= pollCursors[a][c] /\ pollCursors[a][c] \in Cursor
    BY <2>0 DEF LifeInv, TypeOK
  <2>5. i \in Ids /\ j \in Ids
    BY <2>0, OnFacts
  <2>. QED  BY <2>2, <2>3, <2>4, <2>5 DEF Ids, Cursor
<1>. QED  BY <1>1, LifeInit, LifeNext, PTL DEF Spec, PushedInOrder

-----------------------------------------------------------------------------
(* The messages behind the cursors.                                        *)

(* What became of the messages of agent a, the reply under way included.   *)
Known(a) == pushed[a] \cup read[a] \cup missed[a] \cup work[a].reply

PassedInv ==
    /\ CursorInv
    /\ \A a \in Agent : work[a].call # "read" => work[a].reply = {}
    /\ NothingPassedOver

LEMMA PassedInit == Init => PassedInv
<1>. SUFFICES ASSUME Init PROVE PassedInv
  OBVIOUS
<1>1. \A c : On(c) = {}
  BY DEF Init, On
<1>. QED  BY <1>1, CursorInit DEF Init, PassedInv, NothingPassedOver, Idle

LEMMA PassedNext == PassedInv /\ [Next]_vars => PassedInv'
<1>. SUFFICES ASSUME PassedInv, [Next]_vars PROVE PassedInv'
  OBVIOUS
<1>. DEFINE Behind(a, c, i) == i <= cursors[a][c] \/ i <= pollCursors[a][c]
            PassedOf(a) ==
               /\ work[a].call # "read" => work[a].reply = {}
               /\ \A c \in Channel : \A i \in On(c) :
                     Behind(a, c, i) /\ messages[i].sender # a => i \in Known(a)
<1>0. /\ CursorInv /\ CursorInv' /\ TypeOK /\ MessagesOK
      /\ \A a \in Agent : PassedOf(a)
  <2>1. CursorInv /\ CursorInv' /\ TypeOK
    BY CursorNext DEF PassedInv, CursorInv
  <2>. QED  BY <2>1 DEF TypeOK, MessagesOK, PassedInv, NothingPassedOver, Known
<1>u. /\ work \in [Agent -> Work]
      /\ cursors \in [Agent -> [Channel -> Cursor]]
      /\ pollCursors \in [Agent -> [Channel -> Cursor]]
      /\ pushed \in [Agent -> SUBSET Ids] /\ read \in [Agent -> SUBSET Ids]
      /\ missed \in [Agent -> SUBSET Ids]
  BY <1>0 DEF TypeOK, Work
<1>s. SUFFICES ASSUME NEW b \in Agent PROVE PassedOf(b)'
  BY <1>0 DEF PassedInv, NothingPassedOver, Known
(* A new message is behind no cursor yet.                                  *)
<1>p. ASSUME NEW a \in Agent \cup Peer, NEW c \in Channel,
             Len(messages) < MaxMessages, messages' = Posted(a, c),
             UNCHANGED <<cursors, pollCursors, pushed, read, missed>>,
             work'[b].reply = work[b].reply,
             work'[b].call = work[b].call \/ work'[b].reply = {}
      PROVE  PassedOf(b)'
  <2>1. /\ \A d \in Channel : \A i \in On(d)' : i \in On(d) \/ i = Len(messages) + 1
        /\ Len(messages) \in Nat
        /\ \A i \in 1..Len(messages) : messages'[i] = messages[i]
        /\ \A d : On(d) \subseteq 1..Len(messages)
    BY <1>0, <1>p, PostedFacts, OnFacts
  <2>2. Known(b)' = Known(b)
    BY <1>p DEF Known
  <2>3. \A d \in Channel : cursors[b][d] <= Len(messages) /\ cursors[b][d] \in Int
                       /\ pollCursors[b][d] <= Len(messages) /\ pollCursors[b][d] \in Int
    <3>. TAKE d \in Channel
    <3>1. cursors[b][d] \in OnChannel(d) /\ pollCursors[b][d] \in OnChannel(d)
      BY <1>0 DEF CursorInv
    <3>. QED  BY <3>1, <2>1 DEF OnChannel
  <2>4. ASSUME NEW d \in Channel, NEW i \in On(d)',
               Behind(b, d, i)', messages'[i].sender # b
        PROVE  i \in Known(b)'
    <3>1. i # Len(messages) + 1
      BY <1>p, <2>1, <2>3, <2>4
    <3>2. i \in On(d) /\ messages'[i] = messages[i] /\ Behind(b, d, i)
      BY <1>p, <2>1, <2>4, <3>1
    <3>. QED  BY <1>0, <2>2, <2>4, <3>2
  <2>. QED  BY <1>0, <1>p, <2>4
<1>m. ASSUME UNCHANGED messages, Known(b) \subseteq Known(b)',
             work'[b].call # "read" => work'[b].reply = {},
             \A d \in Channel : \A i \in On(d) :
                 Behind(b, d, i)' /\ messages[i].sender # b =>
                     Behind(b, d, i) \/ i \in Known(b)'
      PROVE  PassedOf(b)'
  <2>1. \A d : On(d)' = On(d)
    BY <1>m DEF On
  <2>. QED  BY <1>0, <1>m, <2>1
<1>k. ASSUME UNCHANGED <<messages, cursors, pollCursors, pushed, read, missed>>,
             \/ work'[b] = work[b]
             \/ work[b] = Idle /\ work'[b].reply = {}
      PROVE  PassedOf(b)'
  <2>1. Known(b) \subseteq Known(b)' /\ (work'[b].call # "read" => work'[b].reply = {})
    BY <1>0, <1>k DEF Known, Idle
  <2>. QED  BY <1>k, <1>m, <2>1
<1>1. ASSUME NEW a \in Agent, Start(a) PROVE PassedOf(b)'
  <2>1. /\ messages' = Posted(a, Status) /\ Len(messages) < MaxMessages /\ ~alive[a]
        /\ work' = [work EXCEPT ![a] = work'[a]] /\ work'[a].reply = {}
        /\ UNCHANGED <<cursors, pollCursors, pushed, read, missed>>
    BY <1>1, <1>u DEF Start, session, Idle
  <2>2. work[a].reply = {}
    BY <2>1, <1>0 DEF TypeOK, Idle
  <2>3. /\ work'[b].reply = work[b].reply
        /\ work'[b].call = work[b].call \/ work'[b].reply = {}
    BY <2>1, <2>2, <1>u
  <2>. QED  BY <2>1, <2>3, <1>p
<1>2. ASSUME NEW a \in Agent, Stop(a) PROVE PassedOf(b)'
  <2>1. /\ pollCursors' = [pollCursors EXCEPT ![a] = [c \in Channel |-> None]]
        /\ work' = [work EXCEPT ![a] = Idle]
        /\ missed' = [missed EXCEPT ![a] = @ \cup work[a].reply]
        /\ UNCHANGED <<messages, cursors, pushed, read>>
    BY <1>2 DEF Stop, database
  <2>2. Known(b) \subseteq Known(b)' /\ (work'[b].call # "read" => work'[b].reply = {})
    <3>1. CASE b = a
      BY <2>1, <3>1, <1>u DEF Known, Idle
    <3>2. CASE b # a
      BY <2>1, <3>2, <1>u, <1>0 DEF Known
    <3>. QED  BY <3>1, <3>2
  <2>3. ASSUME NEW d \in Channel, NEW i \in On(d), Behind(b, d, i)'
        PROVE  Behind(b, d, i)
    <3>1. i \in Ids
      BY <1>0, OnFacts
    <3>2. \/ pollCursors'[b][d] = pollCursors[b][d]
          \/ pollCursors'[b][d] = None
      BY <2>1, <1>u
    <3>. QED  BY <2>1, <2>3, <3>1, <3>2 DEF Ids
  <2>. QED  BY <2>1, <2>2, <2>3, <1>m
<1>3. ASSUME NEW a \in Agent, PollStart(a) \/ ReadStart(a) PROVE PassedOf(b)'
  <2>1. /\ UNCHANGED <<messages, cursors, pollCursors, pushed, read, missed>>
        /\ work[a] = Idle /\ work' = [work EXCEPT ![a] = work'[a]]
        /\ work'[a].reply = {}
    BY <1>3, <1>u DEF PollStart, ReadStart, Ready, database, session
  <2>2. work'[b] = work[b] \/ (work[b] = Idle /\ work'[b].reply = {})
    BY <2>1, <1>u
  <2>. QED  BY <2>1, <2>2, <1>k
<1>4. ASSUME NEW a \in Agent, NEW c \in Channel, InitChannel(a, c) PROVE PassedOf(b)'
  <2>. DEFINE id == IF cursors[a][c] = None THEN LatestId(c) ELSE cursors[a][c]
  <2>1. /\ UNCHANGED <<messages, pushed, read>>
        /\ work[a].call = "init" /\ work' = [work EXCEPT ![a] = Done(a, c)]
        /\ pollCursors' = [pollCursors EXCEPT ![a][c] = id]
        /\ \/ /\ cursors[a][c] = None
              /\ cursors' = [cursors EXCEPT ![a][c] = id]
              /\ missed' = [missed EXCEPT ![a] = @ \cup On(c)]
           \/ /\ cursors[a][c] # None
              /\ UNCHANGED <<cursors, missed>>
    BY <1>4 DEF InitChannel, Doing
  <2>2. Done(a, c).reply = {} /\ work[a].reply = {}
    BY <1>4, <2>1, <1>0, DoneFacts DEF InitChannel, Doing
  <2>3. LatestId(c) \in Cursor /\ cursors[a][c] \in Cursor /\ id \in Cursor
    BY <1>0, <1>u, LatestFacts
  <2>4. Known(b) \subseteq Known(b)' /\ (work'[b].call # "read" => work'[b].reply = {})
    <3>1. missed[b] \subseteq missed'[b]
      BY <2>1, <1>u
    <3>2. work'[b].reply = work[b].reply /\ (work'[b] = work[b] \/ work'[b].reply = {})
      BY <2>1, <2>2, <1>u
    <3>. QED  BY <2>1, <3>1, <3>2, <1>0 DEF Known
  <2>5. \A d \in Channel :
           pollCursors'[b][d] = IF b = a /\ d = c THEN id ELSE pollCursors[b][d]
    BY <2>1, <2>3, <1>u, CursorSet
  <2>6. \A d \in Channel :
           \/ cursors'[b][d] = cursors[b][d]
           \/ b = a /\ d = c /\ On(c) \subseteq missed'[b]
    <3>. HIDE DEF id
    <3>1. CASE cursors[a][c] # None
      <4>1. cursors' = cursors
        BY <2>1, <3>1
      <4>. QED  BY <4>1
    <3>2. CASE cursors[a][c] = None
      <4>1. \A d \in Channel : cursors'[b][d] = IF b = a /\ d = c THEN id ELSE cursors[b][d]
        <5>1. cursors' = [cursors EXCEPT ![a][c] = id]
          BY <2>1, <3>2
        <5>. QED  BY <2>3, <5>1, <1>u, CursorSet
      <4>2. b = a => On(c) \subseteq missed'[b]
        BY <2>1, <3>2, <1>u
      <4>. QED  BY <4>1, <4>2
    <3>. QED  BY <3>1, <3>2
  <2>7. ASSUME NEW d \in Channel, NEW i \in On(d), Behind(b, d, i)'
        PROVE  Behind(b, d, i) \/ i \in Known(b)'
    <3>1. CASE b = a /\ d = c /\ cursors[a][c] = None
      <4>1. On(c) \subseteq missed'[b]
        BY <2>1, <3>1, <1>u
      <4>. QED  BY <4>1, <3>1 DEF Known
    <3>2. CASE ~(b = a /\ d = c /\ cursors[a][c] = None)
      BY <2>1, <2>5, <2>6, <2>7, <3>2 DEF Known
    <3>. QED  BY <3>1, <3>2
  <2>. QED  BY <2>1, <2>4, <2>7, <1>m
<1>5. ASSUME NEW a \in Agent, NEW c \in Channel, PollNewChannel(a, c) PROVE PassedOf(b)'
  <2>1. /\ UNCHANGED <<messages, pushed, read>>
        /\ work[a].call = "poll"
        /\ work' = [work EXCEPT ![a] = Done(a, c)] \/ work' = [work EXCEPT ![a] = Idle]
        /\ pollCursors' = [pollCursors EXCEPT ![a][c] = LatestId(c)]
        /\ cursors' = cursors \/ cursors' = [cursors EXCEPT ![a][c] = LatestId(c)]
        /\ missed' = [missed EXCEPT ![a] = @ \cup On(c)]
    BY <1>5 DEF PollNewChannel, Upsert, Doing
  <2>2. Done(a, c).reply = {} /\ work[a].reply = {} /\ Idle.reply = {}
    BY <1>5, <2>1, <1>0, DoneFacts DEF PollNewChannel, Doing, Idle
  <2>3. LatestId(c) \in Cursor
    BY <1>0, LatestFacts
  <2>4. /\ Known(b) \subseteq Known(b)' /\ (work'[b].call # "read" => work'[b].reply = {})
        /\ b = a => On(c) \subseteq Known(b)'
    <3>1. missed[b] \subseteq missed'[b] /\ (b = a => On(c) \subseteq missed'[b])
      BY <2>1, <1>u
    <3>2. work'[b].reply = work[b].reply /\ (work'[b] = work[b] \/ work'[b].reply = {})
      BY <2>1, <2>2, <1>u
    <3>. QED  BY <2>1, <3>1, <3>2, <1>0 DEF Known
  <2>5. \A d \in Channel :
           /\ pollCursors'[b][d] = pollCursors[b][d] \/ (b = a /\ d = c)
           /\ cursors'[b][d] = cursors[b][d] \/ (b = a /\ d = c)
    BY <2>1, <2>3, <1>u, CursorSet
  <2>6. ASSUME NEW d \in Channel, NEW i \in On(d), Behind(b, d, i)'
        PROVE  Behind(b, d, i) \/ i \in Known(b)'
    BY <2>4, <2>5, <2>6
  <2>. QED  BY <2>1, <2>4, <2>6, <1>m
<1>6. ASSUME NEW a \in Agent, NEW c \in Channel, PollChannel(a, c) PROVE PassedOf(b)'
  <2>. DEFINE ids == NewOn(c, pollCursors[a][c])
              notices == ids \ By(a, ids)
  <2>1. /\ UNCHANGED <<messages, read>>
        /\ work[a].call = "poll"
        /\ work' = [work EXCEPT ![a] = Done(a, c)] \/ work' = [work EXCEPT ![a] = Idle]
        /\ pollCursors' = pollCursors \/ pollCursors' = [pollCursors EXCEPT ![a][c] = Max(ids)]
        /\ cursors' = cursors \/ cursors' = [cursors EXCEPT ![a][c] = Max(ids)]
        /\ ids = {} => UNCHANGED <<cursors, pollCursors>>
    BY <1>6 DEF PollChannel, Upsert, Doing
  <2>2. PICK gone \in SUBSET notices :
             /\ pushed' = [pushed EXCEPT ![a] = @ \cup (notices \ gone)]
             /\ missed' = [missed EXCEPT ![a] = @ \cup gone]
    BY <1>6 DEF PollChannel
  <2>3. Done(a, c).reply = {} /\ work[a].reply = {} /\ Idle.reply = {}
    BY <1>6, <2>1, <1>0, DoneFacts DEF PollChannel, Doing, Idle
  <2>4. pollCursors[a][c] # None /\ pollCursors[a][c] \in Cursor
    BY <1>6, <1>u DEF PollChannel
  <2>5. ids # {} => Max(ids) \in Cursor
    BY <1>0, <2>4, NewFacts
  <2>6. /\ Known(b) \subseteq Known(b)' /\ (work'[b].call # "read" => work'[b].reply = {})
        /\ b = a => notices \subseteq Known(b)'
    <3>1. /\ missed[b] \subseteq missed'[b] /\ pushed[b] \subseteq pushed'[b]
          /\ b = a => notices \subseteq pushed'[b] \cup missed'[b]
      <4>. HIDE DEF notices
      <4>. QED  BY <2>2, <1>u
    <3>2. work'[b].reply = work[b].reply /\ (work'[b] = work[b] \/ work'[b].reply = {})
      BY <2>1, <2>3, <1>u
    <3>. HIDE DEF notices
    <3>. QED  BY <2>1, <3>1, <3>2, <1>0 DEF Known
  <2>7. \A d \in Channel :
           /\ pollCursors'[b][d] = pollCursors[b][d] \/ (b = a /\ d = c)
           /\ cursors'[b][d] = cursors[b][d] \/ (b = a /\ d = c)
    <3>. HIDE DEF ids
    <3>. QED  BY <2>1, <2>5, <1>u, CursorSet
  <2>8. ASSUME NEW d \in Channel, NEW i \in On(d), Behind(b, d, i)',
               messages[i].sender # b
        PROVE  Behind(b, d, i) \/ i \in Known(b)'
    <3>1. CASE b = a /\ d = c
      <4>1. i \in Ids
        BY <1>0, OnFacts
      <4>2. CASE i > pollCursors[a][c]
        BY <2>6, <2>8, <3>1, <4>2 DEF NewOn, By
      <4>3. CASE ~(i > pollCursors[a][c])
        BY <2>4, <3>1, <4>1, <4>3 DEF Ids, Cursor
      <4>. QED  BY <4>2, <4>3
    <3>2. CASE ~(b = a /\ d = c)
      BY <2>7, <2>8, <3>2
    <3>. QED  BY <3>1, <3>2
  <2>. QED  BY <2>1, <2>6, <2>8, <1>m
<1>7. ASSUME NEW a \in Agent, NEW c \in Channel, ReadChannel(a, c) PROVE PassedOf(b)'
  <2>. DEFINE ids == IF cursors[a][c] = None THEN {} ELSE NewOn(c, cursors[a][c])
              upto == IF cursors[a][c] = None THEN LatestId(c)
                      ELSE Max(ids \cup {cursors[a][c]})
              reply == work[a].reply \cup ids
  <2>1. UNCHANGED <<messages, pollCursors, pushed>> /\ work[a].call = "read"
    BY <1>7 DEF ReadChannel, Doing
  <2>2. work[a] \in Work /\ cursors[a][c] \in Cursor /\ upto \in Cursor
    <3>1. cursors[a][c] \in Cursor
      BY <1>u
    <3>. QED  BY <1>0, <1>u, <3>1, NewFacts, LatestFacts
  <2>3. CASE /\ work' = [work EXCEPT ![a] = Idle]
             /\ missed' = [missed EXCEPT ![a] = @ \cup work[a].reply]
             /\ UNCHANGED <<cursors, read>>
    <3>1. Known(b) \subseteq Known(b)' /\ (work'[b].call # "read" => work'[b].reply = {})
      <4>1. CASE b = a
        BY <2>1, <2>3, <4>1, <1>u DEF Known, Idle
      <4>2. CASE b # a
        BY <2>1, <2>3, <4>2, <1>u, <1>0 DEF Known
      <4>. QED  BY <4>1, <4>2
    <3>. QED  BY <2>1, <2>3, <3>1, <1>m
  <2>4. CASE /\ cursors' = [cursors EXCEPT ![a][c] = upto]
             /\ missed' = IF cursors[a][c] = None
                          THEN [missed EXCEPT ![a] = @ \cup On(c)] ELSE missed
             /\ \/ /\ work' = [work EXCEPT ![a] = Idle]
                   /\ read' = [read EXCEPT ![a] = @ \cup reply]
                \/ /\ work' = [work EXCEPT ![a].todo = @ \ {c}, ![a].reply = reply]
                   /\ UNCHANGED read
    <3>1. missed[b] \subseteq missed'[b]
      BY <2>4, <1>u
    <3>2. b = a /\ cursors[a][c] = None => On(c) \subseteq missed'[b]
      BY <2>4, <1>u
    <3>3. /\ read[b] \cup work[b].reply \subseteq read'[b] \cup work'[b].reply
          /\ b = a => ids \subseteq read'[b] \cup work'[b].reply
          /\ work'[b].call # "read" => work'[b].reply = {}
      <4>. HIDE DEF ids, upto
      <4>1. CASE b # a
        BY <2>4, <4>1, <1>u, <1>0
      <4>2. CASE b = a
        <5>1. CASE /\ work' = [work EXCEPT ![a] = Idle]
                   /\ read' = [read EXCEPT ![a] = @ \cup reply]
          <6>1. work'[b].reply = {} /\ read'[b] = read[b] \cup reply
            BY <4>2, <5>1, <1>u DEF Idle
          <6>. QED  BY <4>2, <6>1
        <5>2. CASE /\ work' = [work EXCEPT ![a].todo = @ \ {c}, ![a].reply = reply]
                   /\ UNCHANGED read
          <6>1. work'[b].reply = reply /\ work'[b].call = "read"
            BY <2>1, <2>2, <4>2, <5>2, <1>u DEF Work
          <6>. QED  BY <4>2, <5>2, <6>1
        <5>. QED  BY <2>4, <5>1, <5>2
      <4>. QED  BY <4>1, <4>2
    <3>4. /\ Known(b) \subseteq Known(b)'
          /\ b = a => ids \subseteq Known(b)'
          /\ b = a /\ cursors[a][c] = None => On(c) \subseteq Known(b)'
      <4>. HIDE DEF ids
      <4>. QED  BY <2>1, <3>1, <3>2, <3>3 DEF Known
    <3>5. \A d \in Channel : cursors'[b][d] = cursors[b][d] \/ (b = a /\ d = c)
      <4>. HIDE DEF upto
      <4>. QED  BY <2>2, <2>4, <1>u, CursorSet
    <3>6. ASSUME NEW d \in Channel, NEW i \in On(d), Behind(b, d, i)'
          PROVE  Behind(b, d, i) \/ i \in Known(b)'
      <4>1. CASE b = a /\ d = c /\ cursors[a][c] # None
        <5>1. i \in Ids
          BY <1>0, OnFacts
        <5>2. CASE i > cursors[a][c]
          BY <3>4, <4>1, <5>2 DEF NewOn
        <5>3. CASE ~(i > cursors[a][c])
          BY <2>2, <4>1, <5>1, <5>3 DEF Ids, Cursor
        <5>. QED  BY <5>2, <5>3
      <4>2. CASE b = a /\ d = c /\ cursors[a][c] = None
        BY <3>4, <4>2
      <4>3. CASE ~(b = a /\ d = c)
        BY <2>1, <3>5, <3>6, <4>3
      <4>. QED  BY <4>1, <4>2, <4>3
    <3>. QED  BY <2>1, <3>3, <3>4, <3>6, <1>m
  <2>5. \/ /\ work' = [work EXCEPT ![a] = Idle]
           /\ missed' = [missed EXCEPT ![a] = @ \cup work[a].reply]
           /\ UNCHANGED <<cursors, read>>
        \/ /\ cursors' = [cursors EXCEPT ![a][c] = upto]
           /\ missed' = IF cursors[a][c] = None
                        THEN [missed EXCEPT ![a] = @ \cup On(c)] ELSE missed
           /\ \/ /\ work' = [work EXCEPT ![a] = Idle]
                 /\ read' = [read EXCEPT ![a] = @ \cup reply]
              \/ /\ work' = [work EXCEPT ![a].todo = @ \ {c}, ![a].reply = reply]
                 /\ UNCHANGED read
    BY <1>7 DEF ReadChannel
  <2>. QED  BY <2>3, <2>4, <2>5
<1>8. ASSUME NEW a \in Agent, NEW c \in Channel, SendTool(a, c) PROVE PassedOf(b)'
  BY <1>8, <1>p DEF SendTool, process, session
<1>9. ASSUME NEW p \in Peer, NEW c \in Channel, PeerSends(p, c) PROVE PassedOf(b)'
  BY <1>9, <1>p DEF PeerSends, process, session
<1>10. ASSUME NEW a \in Agent, NEW c \in Channel,
              \/ SubscribeTool(a, c) \/ UnsubscribeTool(a, c) \/ LauncherSubscribes(a, c)
       PROVE  PassedOf(b)'
  BY <1>10, <1>k
  DEF SubscribeTool, UnsubscribeTool, LauncherSubscribes, process, session
<1>11. CASE UNCHANGED vars
  BY <1>11, <1>k DEF vars, database, process, session
<1>. HIDE DEF PassedOf
<1>. QED
  BY <1>1, <1>2, <1>3, <1>4, <1>5, <1>6, <1>7, <1>8, <1>9, <1>10, <1>11
  DEF Next, Callback, Tool

(* No message of another agent is lost behind a cursor: whatever restarts, *)
(* failed upserts, polls and reads of however many agents interleave, it   *)
(* was notified, read, lost in delivery, or there before the cursor.       *)
THEOREM NoneLostBehindCursor == Spec => []NothingPassedOver
<1>1. PassedInv => NothingPassedOver
  BY DEF PassedInv
<1>. QED  BY <1>1, PassedInit, PassedNext, PTL DEF Spec

=============================================================================
