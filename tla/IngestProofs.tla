---------------------------- MODULE IngestProofs ----------------------------
(* Theorems about Ingest, for any events, requests and dashboards.         *)
EXTENDS Ingest, FiniteSetTheorems, WellFoundedInduction, TLAPS

LEMMA NewRowsCount ==
    ASSUME NEW S \in SUBSET Event
    PROVE  Cardinality(S) \in Nat
BY IngestAssumption, FS_Subset, FS_CardinalityType

LEMMA TypeInit == Init => TypeOK
<1>. SUFFICES ASSUME Init
              PROVE  TypeOK
  OBVIOUS
<1>. USE IngestAssumption DEF Init
<1>1. /\ rows \subseteq Event /\ accepted \in Nat /\ mu = NoRequest
      /\ posts \in 0..MaxRequests /\ restarts \in 0..MaxRestarts
  OBVIOUS
<1>2. panicked \in BOOLEAN
  OBVIOUS
<1>3. /\ pc \in [Request -> {"idle", "insert", "broadcast", "fanout"}]
      /\ batch \in [Request -> SUBSET Event]
      /\ inserted \in [Request -> Nat]
      /\ todo \in [Request -> SUBSET Dashboard]
  OBVIOUS
<1>4. /\ view \in [Dashboard -> {"off", "loaded", "live", "leaving"}]
      /\ subscribers = {d \in Dashboard : view[d] = "live"}
      /\ closed \subseteq Dashboard
  OBVIOUS
<1>5. channel \in [Dashboard -> Seq(SUBSET Event)]
  <2>1. <<>> \in Seq(SUBSET Event)
    OBVIOUS
  <2>. QED  BY <2>1
<1>6. shown \in [Dashboard -> [Event -> Nat]]
  OBVIOUS
<1>7. /\ queried \in [Dashboard -> SUBSET Event]
      /\ gap \in [Dashboard -> SUBSET Event]
      /\ dropped \in [Dashboard -> SUBSET Event]
  OBVIOUS
<1>. QED  BY <1>1, <1>2, <1>3, <1>4, <1>5, <1>6, <1>7 DEF TypeOK

LEMMA TypeHandle ==
    ASSUME TypeOK, NEW r \in Request, Handle(r)
    PROVE  TypeOK'
<1>. USE DEF TypeOK
<1>1. CASE LockStore(r)
  BY <1>1 DEF LockStore, handler, broker, client, counts
<1>2. CASE Commit(r)
  <2>1. Cardinality(batch[r] \ rows) \in Nat
    BY NewRowsCount
  <2>. QED  BY <1>2, <2>1, IngestAssumption
            DEF Commit, broker, client, counts
<1>3. CASE Rollback(r)
  BY <1>3, IngestAssumption DEF Rollback, broker, client, counts
<1>4. CASE StartBroadcast(r)
  BY <1>4 DEF StartBroadcast, store, broker, client, counts
<1>5. CASE Respond(r)
  BY <1>5 DEF Respond, broker, client, counts
<1>6. ASSUME NEW d \in Dashboard, Offer(r, d)
      PROVE  TypeOK'
  <2>1. panicked' \in BOOLEAN
    BY <1>6 DEF Offer
  <2>2. /\ channel' \in [Dashboard -> Seq(SUBSET Event)]
        /\ dropped' \in [Dashboard -> SUBSET Event]
    <3>1. CASE Len(channel[d]) < Buffer
      <4>1. Append(channel[d], batch[r]) \in Seq(SUBSET Event)
        OBVIOUS
      <4>. QED  BY <1>6, <3>1, <4>1 DEF Offer
    <3>2. CASE ~(Len(channel[d]) < Buffer)
      <4>1. dropped[d] \cup batch[r] \in SUBSET Event
        OBVIOUS
      <4>. QED  BY <1>6, <3>2, <4>1 DEF Offer
    <3>. QED  BY <3>1, <3>2
  <2>. QED  BY <1>6, <2>1, <2>2 DEF Offer, store, client, counts
<1>. QED  BY <1>1, <1>2, <1>3, <1>4, <1>5, <1>6 DEF Handle

LEMMA TypeBrowse ==
    ASSUME TypeOK, NEW d \in Dashboard, Browse(d)
    PROVE  TypeOK'
<1>. USE DEF TypeOK
<1>0. CASE LoadPage(d)
  BY <1>0 DEF LoadPage, store, handler, broker, counts
<1>1. CASE Subscribe(d)
  BY <1>1 DEF Subscribe, store, handler, counts
<1>2. CASE Stream(d)
  <2>1. channel' \in [Dashboard -> Seq(SUBSET Event)]
    BY <1>2 DEF Stream
  <2>2. shown' \in [Dashboard -> [Event -> Nat]]
    BY <1>2 DEF Stream
  <2>. QED  BY <1>2, <2>1, <2>2 DEF Stream, store, handler, counts
<1>3. CASE Unsubscribe(d)
  BY <1>3 DEF Unsubscribe, store, handler, counts
<1>4. CASE Close(d)
  BY <1>4 DEF Close, store, handler, counts
<1>. QED  BY <1>0, <1>1, <1>2, <1>3, <1>4 DEF Browse

LEMMA TypeNext == TypeOK /\ [Next]_vars => TypeOK'
<1>. SUFFICES ASSUME TypeOK, [Next]_vars
              PROVE  TypeOK'
  OBVIOUS
<1>1. ASSUME NEW r \in Request, NEW events \in SUBSET Event,
             Receive(r, events)
      PROVE  TypeOK'
  BY <1>1, IngestAssumption
  DEF Receive, TypeOK, store, broker, client
<1>2. CASE Restart
  <2>1. Cardinality(rows) \in Nat
    BY NewRowsCount DEF TypeOK
  <2>. QED  BY <1>2, <2>1, IngestAssumption DEF Restart, TypeOK
<1>3. CASE UNCHANGED vars
  BY <1>3 DEF TypeOK, vars, store, handler, broker, client, counts
<1>. QED  BY <1>1, <1>2, <1>3, TypeHandle, TypeBrowse DEF Next

(* Every variable of the server keeps its type, and only live dashboards   *)
(* are registered with the broker.                                         *)
THEOREM TypeCorrect == Spec => []TypeOK
BY TypeInit, TypeNext, PTL DEF Spec

-----------------------------------------------------------------------------
(* What Broadcast has still to visit is registered, and what is closed was *)
(* unregistered: the read lock keeps Unsubscribe out until todo is empty.  *)
SendInv ==
    /\ \A r \in Request : \A d \in todo[r] :
           pc[r] = "fanout" /\ view[d] = "live"
    /\ \A d \in closed : view[d] \in {"off", "loaded"}
    /\ panicked = FALSE

LEMMA SendNext == TypeOK /\ SendInv /\ [Next]_vars => SendInv'
<1>. SUFFICES ASSUME TypeOK, SendInv, [Next]_vars
              PROVE  SendInv'
  OBVIOUS
<1>. USE DEF SendInv, TypeOK
<1>1. ASSUME NEW r \in Request, NEW events \in SUBSET Event,
             Receive(r, events)
      PROVE  SendInv'
  BY <1>1 DEF Receive, broker, client
<1>2. ASSUME NEW r \in Request, LockStore(r)
      PROVE  SendInv'
  BY <1>2 DEF LockStore, handler, broker, client
<1>3. ASSUME NEW r \in Request, Commit(r)
      PROVE  SendInv'
  BY <1>3 DEF Commit, broker, client
<1>4. ASSUME NEW r \in Request, Rollback(r)
      PROVE  SendInv'
  BY <1>4 DEF Rollback, broker, client
<1>5. ASSUME NEW r \in Request, StartBroadcast(r)
      PROVE  SendInv'
  BY <1>5 DEF StartBroadcast, broker, client
<1>6. ASSUME NEW r \in Request, NEW d \in Dashboard, Offer(r, d)
      PROVE  SendInv'
  <2>1. d \notin closed
    BY <1>6 DEF Offer
  <2>2. panicked' = FALSE
    BY <1>6, <2>1 DEF Offer
  <2>3. /\ UNCHANGED <<pc, view, closed>>
        /\ todo' = [todo EXCEPT ![r] = @ \ {d}]
    BY <1>6 DEF Offer, client
  <2>. QED  BY <2>2, <2>3
<1>7. ASSUME NEW r \in Request, Respond(r)
      PROVE  SendInv'
  BY <1>7 DEF Respond, broker, client
<1>8. ASSUME NEW d \in Dashboard, Subscribe(d)
      PROVE  SendInv'
  BY <1>8 DEF Subscribe, handler
<1>14. ASSUME NEW d \in Dashboard, LoadPage(d)
       PROVE  SendInv'
  BY <1>14 DEF LoadPage, handler, broker
<1>9. ASSUME NEW d \in Dashboard, Stream(d)
      PROVE  SendInv'
  BY <1>9 DEF Stream, handler
<1>10. ASSUME NEW d \in Dashboard, Unsubscribe(d)
       PROVE  SendInv'
  BY <1>10 DEF Unsubscribe, Unread, handler
<1>11. ASSUME NEW d \in Dashboard, Close(d)
       PROVE  SendInv'
  BY <1>11 DEF Close, handler
<1>12. CASE Restart
  BY <1>12 DEF Restart
<1>13. CASE UNCHANGED vars
  BY <1>13 DEF vars, handler, broker, client
<1>. QED  BY <1>1, <1>2, <1>3, <1>4, <1>5, <1>6, <1>7, <1>8, <1>9, <1>10,
             <1>11, <1>12, <1>13, <1>14 DEF Next, Handle, Browse

(* No Broadcast ever sends on a closed channel, whatever the number of     *)
(* requests, dashboards and reconnections.                                 *)
THEOREM NeverPanics == Spec => []NeverSendsOnClosed
<1>1. Init => SendInv
  BY DEF Init, SendInv
<1>2. SendInv => NeverSendsOnClosed
  BY DEF SendInv, NeverSendsOnClosed
<1>. QED  BY <1>1, <1>2, TypeCorrect, SendNext, PTL DEF Spec

-----------------------------------------------------------------------------
(* A batch is committed before it is broadcast.                            *)
CommitInv ==
    /\ \A r \in Request :
           pc[r] \in {"broadcast", "fanout"} => batch[r] \subseteq rows
    /\ \A d \in Dashboard : \A i \in 1..Len(channel[d]) :
           channel[d][i] \subseteq rows
    /\ \A d \in Dashboard : \A e \in Event : shown[d][e] > 0 => e \in rows

LEMMA CommitNext == TypeOK /\ CommitInv /\ [Next]_vars => CommitInv'
<1>. SUFFICES ASSUME TypeOK, CommitInv, [Next]_vars
              PROVE  CommitInv'
  OBVIOUS
<1>. USE DEF CommitInv, TypeOK
<1>1. ASSUME NEW r \in Request, NEW events \in SUBSET Event,
             Receive(r, events)
      PROVE  CommitInv'
  BY <1>1 DEF Receive, store, broker, client
<1>2. ASSUME NEW r \in Request, LockStore(r)
      PROVE  CommitInv'
  BY <1>2 DEF LockStore, handler, broker, client
<1>3. ASSUME NEW r \in Request, Commit(r)
      PROVE  CommitInv'
  BY <1>3 DEF Commit, broker, client
<1>4. ASSUME NEW r \in Request, Rollback(r)
      PROVE  CommitInv'
  BY <1>4 DEF Rollback, broker, client
<1>5. ASSUME NEW r \in Request, StartBroadcast(r)
      PROVE  CommitInv'
  BY <1>5 DEF StartBroadcast, store, broker, client
<1>6. ASSUME NEW r \in Request, NEW d \in Dashboard, Offer(r, d)
      PROVE  CommitInv'
  <2>1. UNCHANGED <<rows, pc, batch, shown>>
    BY <1>6 DEF Offer, store, client
  <2>2. batch[r] \subseteq rows
    BY <1>6 DEF Offer
  <2>3. channel[d] \in Seq(SUBSET Event) /\ batch[r] \in SUBSET Event
    OBVIOUS
  <2>4. channel' = channel
        \/ channel' = [channel EXCEPT ![d] = Append(channel[d], batch[r])]
    BY <1>6 DEF Offer
  <2>5. \A i \in 1..Len(Append(channel[d], batch[r])) :
           Append(channel[d], batch[r])[i] \subseteq rows
    BY <2>2, <2>3
  <2>. QED  BY <2>1, <2>4, <2>5
<1>7. ASSUME NEW r \in Request, Respond(r)
      PROVE  CommitInv'
  BY <1>7 DEF Respond, broker, client
<1>8. ASSUME NEW d \in Dashboard, Subscribe(d)
      PROVE  CommitInv'
  BY <1>8 DEF Subscribe, store, handler
<1>14. ASSUME NEW d \in Dashboard, LoadPage(d)
       PROVE  CommitInv'
  BY <1>14 DEF LoadPage, store, handler, broker
<1>9. ASSUME NEW d \in Dashboard, Stream(d)
      PROVE  CommitInv'
  <2>1. UNCHANGED <<rows, pc, batch>>
    BY <1>9 DEF Stream, store, handler
  <2>2. channel[d] \in Seq(SUBSET Event) /\ channel[d] # <<>>
    BY <1>9 DEF Stream
  <2>3. \A i \in 1..Len(Tail(channel[d])) :
           Tail(channel[d])[i] \subseteq rows
    BY <2>2
  <2>4. channel' = [channel EXCEPT ![d] = Tail(channel[d])]
    BY <1>9 DEF Stream
  <2>5. Head(channel[d]) \subseteq rows
    <3>1. 1 \in 1..Len(channel[d]) /\ Head(channel[d]) = channel[d][1]
      BY <2>2
    <3>. QED  BY <3>1
  <2>6. \A c \in Dashboard : \A e \in Event :
           shown'[c][e] > 0 => e \in rows
    BY <1>9, <2>5 DEF Stream
  <2>. QED  BY <2>1, <2>3, <2>4, <2>6
<1>10. ASSUME NEW d \in Dashboard, Unsubscribe(d)
       PROVE  CommitInv'
  BY <1>10 DEF Unsubscribe, store, handler
<1>11. ASSUME NEW d \in Dashboard, Close(d)
       PROVE  CommitInv'
  BY <1>11 DEF Close, store, handler
<1>12. CASE Restart
  BY <1>12 DEF Restart
<1>13. CASE UNCHANGED vars
  BY <1>13 DEF vars, store, handler, broker, client
<1>. QED  BY <1>1, <1>2, <1>3, <1>4, <1>5, <1>6, <1>7, <1>8, <1>9, <1>10,
             <1>11, <1>12, <1>13, <1>14 DEF Next, Handle, Browse

(* Nothing reaches a stream, or a stream's buffer, before it is committed. *)
THEOREM OnlyCommittedStreamed == Spec => []StreamsOnlyCommitted
<1>1. Init => CommitInv
  BY DEF Init, CommitInv
<1>2. TypeOK /\ CommitInv => StreamsOnlyCommitted
  <2>. SUFFICES ASSUME TypeOK, CommitInv, NEW d \in Dashboard
                PROVE  /\ \A e \in Event : shown[d][e] > 0 => e \in rows
                       /\ Buffered(d) \subseteq rows
    BY DEF StreamsOnlyCommitted
  <2>1. channel[d] \in Seq(SUBSET Event)
    BY DEF TypeOK
  <2>2. DOMAIN channel[d] = 1..Len(channel[d])
    BY <2>1
  <2>3. \A i \in DOMAIN channel[d] : channel[d][i] \subseteq rows
    BY <2>2 DEF CommitInv
  <2>. QED  BY <2>3 DEF CommitInv, Buffered
<1>. QED  BY <1>1, <1>2, TypeCorrect, CommitNext, PTL DEF Spec

-----------------------------------------------------------------------------
(* What an answer means to the device: nothing but whole batches enters the*)
(* table, nothing leaves it, the batch of a request stays what was posted  *)
(* until its answer, and when the 202 goes out the batch is in the table.  *)
(* EventQueue assumes so much of the server.                               *)
AnswersStand ==
    [][/\ \/ rows' = rows
          \/ \E r \in Request : mu = r /\ rows' = rows \cup batch[r]
       /\ \A r \in Request :
            /\ pc[r] # "idle" /\ pc'[r] # "idle" => batch'[r] = batch[r]
            /\ pc[r] = "fanout" /\ pc'[r] = "idle" => batch[r] \subseteq rows']_vars

(* For any number of requests, failed transactions and restarts, what was  *)
(* answered 202 is in the table then and for good.                         *)
THEOREM AnsweredIsStored == Spec => AnswersStand
<1>. DEFINE Whole == \/ rows' = rows
                     \/ \E r \in Request : mu = r /\ rows' = rows \cup batch[r]
            Kept(r) == pc[r] # "idle" /\ pc'[r] # "idle" => batch'[r] = batch[r]
<1>1. ASSUME TypeOK, [Next]_vars PROVE Whole
  <2>. USE <1>1 DEF Whole
  <2>1. ASSUME NEW r \in Request, NEW events \in SUBSET Event,
               Receive(r, events)
        PROVE  Whole
    BY <2>1 DEF Receive, store
  <2>2. ASSUME NEW r \in Request, Commit(r) PROVE Whole
    BY <2>2 DEF Commit
  <2>3. ASSUME NEW r \in Request, \/ LockStore(r) \/ Rollback(r)
                                  \/ StartBroadcast(r) \/ Respond(r)
                                  \/ \E d \in Dashboard : Offer(r, d)
        PROVE  Whole
    BY <2>3 DEF LockStore, Rollback, StartBroadcast, Respond, Offer, store
  <2>4. ASSUME NEW d \in Dashboard, Browse(d) PROVE Whole
    BY <2>4 DEF Browse, LoadPage, Subscribe, Stream, Unsubscribe, Close, store
  <2>5. CASE Restart \/ UNCHANGED vars
    BY <2>5 DEF Restart, vars, store
  <2>. QED  BY <2>1, <2>2, <2>3, <2>4, <2>5 DEF Next, Handle
<1>2. ASSUME TypeOK, [Next]_vars, NEW r \in Request PROVE Kept(r)
  <2>. USE <1>2 DEF Kept, TypeOK
  <2>1. ASSUME NEW q \in Request, NEW events \in SUBSET Event,
               Receive(q, events)
        PROVE  Kept(r)
    BY <2>1 DEF Receive
  <2>2. ASSUME NEW q \in Request, Respond(q) PROVE Kept(r)
    BY <2>2 DEF Respond
  <2>3. ASSUME NEW q \in Request, \/ LockStore(q) \/ Commit(q) \/ Rollback(q)
                                  \/ StartBroadcast(q)
                                  \/ \E d \in Dashboard : Offer(q, d)
        PROVE  Kept(r)
    BY <2>3 DEF LockStore, Commit, Rollback, StartBroadcast, Offer, handler
  <2>4. ASSUME NEW d \in Dashboard, Browse(d) PROVE Kept(r)
    BY <2>4 DEF Browse, LoadPage, Subscribe, Stream, Unsubscribe, Close, handler
  <2>5. CASE Restart \/ UNCHANGED vars
    BY <2>5 DEF Restart, vars, handler
  <2>. QED  BY <2>1, <2>2, <2>3, <2>4, <2>5 DEF Next, Handle
<1>3. ASSUME TypeOK, CommitInv, [Next]_vars, NEW r \in Request, pc[r] = "fanout"
      PROVE  batch[r] \subseteq rows'
  <2>1. batch[r] \subseteq rows
    BY <1>3 DEF CommitInv
  <2>2. rows \subseteq rows'
    BY <1>1, <1>3
  <2>. QED  BY <2>1, <2>2
<1>4. TypeOK /\ CommitInv /\ [Next]_vars =>
          /\ Whole
          /\ \A r \in Request :
                 /\ Kept(r)
                 /\ pc[r] = "fanout" /\ pc'[r] = "idle" => batch[r] \subseteq rows'
  <2>. HIDE DEF Whole, Kept
  <2>. QED  BY <1>1, <1>2, <1>3
<1>5. Init => CommitInv
  BY DEF Init, CommitInv
<1>. QED  BY <1>4, <1>5, TypeCorrect, CommitNext, PTL DEF Spec, AnswersStand

-----------------------------------------------------------------------------
(* CommittedReachesLive is inductive once the types are known: the request *)
(* that commits a row carries it until every live dashboard was offered it,*)
(* and one that subscribes finds that the row was there when its page was  *)
(* queried, that it is on its way, or that it is in the gap.               *)
Carried(d, e) ==
    \E r \in Request : /\ e \in batch[r]
                       /\ \/ pc[r] = "broadcast"
                          \/ pc[r] = "fanout" /\ d \in todo[r]

Reached(d, e) == shown[d][e] > 0
                 \/ e \in queried[d] \cup Buffered(d) \cup dropped[d]

(* What a channel's batches hold together.                                 *)
Content(s) == UNION {s[i] : i \in DOMAIN s}

LEMMA AppendBuffers ==
    ASSUME NEW s \in Seq(SUBSET Event), NEW S \in SUBSET Event
    PROVE  Content(Append(s, S)) = Content(s) \cup S
<1>1. /\ DOMAIN s = 1..Len(s) /\ DOMAIN Append(s, S) = 1..(Len(s) + 1)
      /\ Len(s) \in Nat
      /\ \A i \in 1..Len(s) : Append(s, S)[i] = s[i]
      /\ Append(s, S)[Len(s) + 1] = S
  OBVIOUS
<1>2. 1..(Len(s) + 1) = 1..Len(s) \cup {Len(s) + 1}
  BY <1>1
<1>. QED  BY <1>1, <1>2 DEF Content

LEMMA TailBuffers ==
    ASSUME NEW s \in Seq(SUBSET Event), s # <<>>
    PROVE  Content(s) = Head(s) \cup Content(Tail(s))
<1>1. /\ DOMAIN s = 1..Len(s) /\ DOMAIN Tail(s) = 1..(Len(s) - 1)
      /\ Len(s) \in Nat \ {0} /\ Head(s) = s[1]
      /\ \A i \in 1..(Len(s) - 1) : Tail(s)[i] = s[i + 1]
  OBVIOUS
<1>2. \A i \in 1..Len(s) : i = 1 \/ (i - 1 \in 1..(Len(s) - 1)
                                     /\ Tail(s)[i - 1] = s[i])
  BY <1>1
<1>3. \A i \in 1..(Len(s) - 1) : i + 1 \in 1..Len(s)
  BY <1>1
<1>4. ASSUME NEW x \in UNION {s[i] : i \in DOMAIN s}
      PROVE  x \in Head(s) \cup UNION {Tail(s)[i] : i \in DOMAIN Tail(s)}
  <2>1. PICK i \in 1..Len(s) : x \in s[i]
    BY <1>1
  <2>2. CASE i = 1
    BY <1>1, <2>1, <2>2
  <2>3. CASE i # 1
    BY <1>1, <1>2, <2>1, <2>3
  <2>. QED  BY <2>2, <2>3
<1>5. Head(s) \subseteq UNION {s[i] : i \in DOMAIN s}
  <2>1. 1 \in DOMAIN s
    BY <1>1
  <2>. QED  BY <1>1, <2>1
<1>6. (UNION {Tail(s)[i] : i \in DOMAIN Tail(s)})
          \subseteq UNION {s[i] : i \in DOMAIN s}
  BY <1>1, <1>3
<1>. QED  BY <1>4, <1>5, <1>6 DEF Content

LEMMA ReachNext ==
    TypeOK /\ CommittedReachesLive /\ [Next]_vars => CommittedReachesLive'
<1>. SUFFICES ASSUME TypeOK, CommittedReachesLive, [Next]_vars,
                     NEW c \in Dashboard, (view[c] = "live")',
                     NEW e \in (rows \ gap[c])'
              PROVE  Reached(c, e)' \/ Carried(c, e)'
  BY DEF CommittedReachesLive, Reached, Carried
<1>. USE DEF TypeOK
<1>0. ASSUME view[c] = "live", e \in rows \ gap[c]
      PROVE  Reached(c, e) \/ Carried(c, e)
  BY <1>0 DEF CommittedReachesLive, Reached, Carried
<1>1. ASSUME NEW r \in Request, NEW events \in SUBSET Event,
             Receive(r, events)
      PROVE  Reached(c, e)' \/ Carried(c, e)'
  <2>1. UNCHANGED <<rows, todo, channel, shown, dropped, view, queried, gap>>
    BY <1>1 DEF Receive, store, broker, client
  <2>2. /\ pc[r] = "idle" /\ pc' = [pc EXCEPT ![r] = "insert"]
        /\ batch' = [batch EXCEPT ![r] = events]
    BY <1>1 DEF Receive
  <2>3. Reached(c, e) => Reached(c, e)'
    BY <2>1 DEF Reached, Buffered
  <2>4. Carried(c, e) => Carried(c, e)'
    BY <2>1, <2>2 DEF Carried
  <2>5. Reached(c, e) \/ Carried(c, e)
    BY <1>0, <2>1
  <2>. QED  BY <2>3, <2>4, <2>5
<1>2. ASSUME NEW r \in Request, LockStore(r)
      PROVE  Reached(c, e)' \/ Carried(c, e)'
  BY <1>0, <1>2 DEF LockStore, Reached, Carried, Buffered, handler, broker,
                    client
<1>3. ASSUME NEW r \in Request, Commit(r)
      PROVE  Reached(c, e)' \/ Carried(c, e)'
  <2>1. UNCHANGED <<batch, todo, channel, shown, dropped, view, queried, gap>>
    BY <1>3 DEF Commit, broker, client
  <2>2. pc' = [pc EXCEPT ![r] = "broadcast"] /\ rows' = rows \cup batch[r]
    BY <1>3 DEF Commit
  <2>3. CASE e \in batch[r]
    BY <2>1, <2>2, <2>3 DEF Carried
  <2>4. CASE e \notin batch[r]
    BY <1>0, <2>1, <2>2, <2>4 DEF Reached, Carried, Buffered
  <2>. QED  BY <2>3, <2>4
<1>4. ASSUME NEW r \in Request, Rollback(r)
      PROVE  Reached(c, e)' \/ Carried(c, e)'
  BY <1>0, <1>4 DEF Rollback, Reached, Carried, Buffered, broker, client
<1>5. ASSUME NEW r \in Request, StartBroadcast(r)
      PROVE  Reached(c, e)' \/ Carried(c, e)'
  BY <1>0, <1>5
  DEF StartBroadcast, Reached, Carried, Buffered, store, broker, client
<1>6. ASSUME NEW r \in Request, NEW d \in Dashboard, Offer(r, d)
      PROVE  Reached(c, e)' \/ Carried(c, e)'
  <2>1. /\ UNCHANGED <<rows, pc, batch, view, queried, gap, shown>>
        /\ todo' = [todo EXCEPT ![r] = @ \ {d}]
    BY <1>6 DEF Offer, store, client
  <2>2. \/ /\ channel' = [channel EXCEPT ![d] = Append(channel[d], batch[r])]
           /\ dropped' = dropped
        \/ /\ dropped' = [dropped EXCEPT ![d] = dropped[d] \cup batch[r]]
           /\ channel' = channel
    BY <1>6 DEF Offer
  <2>3. channel[d] \in Seq(SUBSET Event) /\ batch[r] \in SUBSET Event
    OBVIOUS
  <2>4. /\ Buffered(d)' \cup dropped'[d]
              = Buffered(d) \cup dropped[d] \cup batch[r]
        /\ \A x \in Dashboard \ {d} : /\ Buffered(x)' = Buffered(x)
                                       /\ dropped'[x] = dropped[x]
    <3>1. CASE channel' = channel
      BY <2>2, <3>1 DEF Buffered
    <3>2. CASE /\ channel' = [channel EXCEPT
                                 ![d] = Append(channel[d], batch[r])]
               /\ dropped' = dropped
      <4>1. channel'[d] = Append(channel[d], batch[r])
        BY <3>2
      <4>2. Buffered(d)' = Buffered(d) \cup batch[r]
        <5>1. Buffered(d)' = Content(channel'[d])
          BY DEF Buffered, Content
        <5>2. Buffered(d) = Content(channel[d])
          BY DEF Buffered, Content
        <5>. QED  BY <2>3, <4>1, <5>1, <5>2, AppendBuffers
      <4>3. \A x \in Dashboard \ {d} : channel'[x] = channel[x]
        BY <3>2
      <4>4. \A x \in Dashboard \ {d} : Buffered(x)' = Buffered(x)
        BY <4>3 DEF Buffered
      <4>. QED  BY <3>2, <4>2, <4>4
    <3>. QED  BY <2>2, <3>1, <3>2
  <2>5. CASE c = d /\ e \in batch[r]
    BY <2>4, <2>5 DEF Reached
  <2>6. CASE ~(c = d /\ e \in batch[r])
    <3>1. Reached(c, e) => Reached(c, e)'
      BY <2>1, <2>4 DEF Reached
    <3>2. Carried(c, e) => Carried(c, e)'
      BY <2>1, <2>6 DEF Carried
    <3>. QED  BY <1>0, <2>1, <3>1, <3>2
  <2>. QED  BY <2>5, <2>6
<1>7. ASSUME NEW r \in Request, Respond(r)
      PROVE  Reached(c, e)' \/ Carried(c, e)'
  <2>1. UNCHANGED <<rows, todo, channel, view, queried, gap, shown, dropped>>
    BY <1>7 DEF Respond, broker, client
  <2>2. /\ pc[r] = "fanout" /\ todo[r] = {}
        /\ pc' = [pc EXCEPT ![r] = "idle"]
        /\ batch' = [batch EXCEPT ![r] = {}]
    BY <1>7 DEF Respond
  <2>3. Reached(c, e) => Reached(c, e)'
    BY <2>1 DEF Reached, Buffered
  <2>4. Carried(c, e) => Carried(c, e)'
    BY <2>1, <2>2 DEF Carried
  <2>. QED  BY <1>0, <2>1, <2>3, <2>4
<1>8. ASSUME NEW d \in Dashboard, Subscribe(d)
      PROVE  Reached(c, e)' \/ Carried(c, e)'
  <2>1. /\ UNCHANGED <<rows, pc, batch, todo>>
        /\ \A x \in Dashboard \ {d} : /\ channel'[x] = channel[x]
                                       /\ view'[x] = view[x]
                                       /\ queried'[x] = queried[x]
                                       /\ gap'[x] = gap[x]
                                       /\ shown'[x] = shown[x]
                                       /\ dropped'[x] = dropped[x]
        /\ queried' = queried
        /\ gap'[d] = rows \ (queried[d] \cup Unpublished)
    BY <1>8 DEF Subscribe, store, handler
  <2>2. CASE c # d
    <3>1. Buffered(c)' = Buffered(c)
      BY <2>1, <2>2 DEF Buffered
    <3>2. Reached(c, e) => Reached(c, e)'
      BY <2>1, <2>2, <3>1 DEF Reached
    <3>3. Carried(c, e) => Carried(c, e)'
      BY <2>1 DEF Carried
    <3>. QED  BY <1>0, <2>1, <2>2, <3>2, <3>3
  <2>3. CASE c = d /\ e \in queried[d]
    BY <2>1, <2>3 DEF Reached
  <2>4. CASE c = d /\ e \notin queried[d]
    <3>1. PICK r \in Request : pc[r] = "broadcast" /\ e \in batch[r]
      BY <2>1, <2>4 DEF Unpublished
    <3>. QED  BY <2>1, <3>1 DEF Carried
  <2>. QED  BY <2>2, <2>3, <2>4
<1>14. ASSUME NEW d \in Dashboard, LoadPage(d)
       PROVE  Reached(c, e)' \/ Carried(c, e)'
  <2>1. /\ UNCHANGED <<rows, pc, batch, todo, channel, gap, shown, dropped>>
        /\ \A x \in Dashboard \ {d} : /\ view'[x] = view[x]
                                       /\ queried'[x] = queried[x]
        /\ view'[d] = "loaded"
    BY <1>14 DEF LoadPage, store, handler, broker
  <2>2. c # d
    BY <2>1
  <2>3. Reached(c, e) => Reached(c, e)'
    BY <2>1, <2>2 DEF Reached, Buffered
  <2>4. Carried(c, e) => Carried(c, e)'
    BY <2>1 DEF Carried
  <2>. QED  BY <1>0, <2>1, <2>2, <2>3, <2>4
<1>9. ASSUME NEW d \in Dashboard, Stream(d)
      PROVE  Reached(c, e)' \/ Carried(c, e)'
  <2>1. UNCHANGED <<rows, pc, batch, todo, view, queried, gap, dropped>>
    BY <1>9 DEF Stream, store, handler
  <2>2. channel[d] \in Seq(SUBSET Event) /\ channel[d] # <<>>
    BY <1>9 DEF Stream
  <2>3. /\ \A x \in Dashboard \ {d} : /\ channel'[x] = channel[x]
                                       /\ shown'[x] = shown[x]
        /\ channel'[d] = Tail(channel[d])
        /\ \A y \in Event : shown'[d][y] = IF y \in Head(channel[d])
                                            THEN shown[d][y] + 1
                                            ELSE shown[d][y]
    BY <1>9 DEF Stream
  <2>4. Buffered(d) = Head(channel[d]) \cup Buffered(d)'
    <3>1. channel'[d] = Tail(channel[d])
      BY <2>3
    <3>2. Buffered(d)' = Content(channel'[d])
      BY DEF Buffered, Content
    <3>3. Buffered(d) = Content(channel[d])
      BY DEF Buffered, Content
    <3>. QED  BY <2>2, <3>1, <3>2, <3>3, TailBuffers
  <2>5. \A x \in Dashboard \ {d} : Buffered(x)' = Buffered(x)
    BY <2>3 DEF Buffered
  <2>6. Reached(c, e) => Reached(c, e)'
    <3>1. CASE c # d
      BY <2>1, <2>3, <2>5, <3>1 DEF Reached
    <3>2. CASE c = d /\ e \in Head(channel[d])
      <4>1. shown'[d][e] = shown[d][e] + 1 /\ shown[d][e] \in Nat
        BY <2>1, <2>3, <3>2
      <4>. QED  BY <3>2, <4>1 DEF Reached
    <3>3. CASE c = d /\ e \notin Head(channel[d])
      <4>1. shown'[d][e] = shown[d][e]
        BY <2>1, <2>3, <3>3
      <4>. QED  BY <2>1, <2>4, <3>3, <4>1 DEF Reached
    <3>. QED  BY <3>1, <3>2, <3>3
  <2>7. Carried(c, e) => Carried(c, e)'
    BY <2>1 DEF Carried
  <2>. QED  BY <1>0, <2>1, <2>6, <2>7
<1>10. ASSUME NEW d \in Dashboard, Unsubscribe(d)
       PROVE  Reached(c, e)' \/ Carried(c, e)'
  BY <1>0, <1>10
  DEF Unsubscribe, Reached, Carried, Buffered, store, handler
<1>11. ASSUME NEW d \in Dashboard, Close(d)
       PROVE  Reached(c, e)' \/ Carried(c, e)'
  <2>1. /\ UNCHANGED <<rows, pc, batch, todo>>
        /\ \A x \in Dashboard \ {d} : /\ channel'[x] = channel[x]
                                       /\ view'[x] = view[x]
                                       /\ queried'[x] = queried[x]
                                       /\ gap'[x] = gap[x]
                                       /\ shown'[x] = shown[x]
                                       /\ dropped'[x] = dropped[x]
        /\ view'[d] = "off"
    BY <1>11 DEF Close, store, handler
  <2>2. c # d
    BY <2>1
  <2>3. Buffered(c)' = Buffered(c)
    BY <2>1, <2>2 DEF Buffered
  <2>4. Reached(c, e) => Reached(c, e)'
    BY <2>1, <2>2, <2>3 DEF Reached
  <2>5. Carried(c, e) => Carried(c, e)'
    BY <2>1 DEF Carried
  <2>. QED  BY <1>0, <2>1, <2>2, <2>4, <2>5
<1>12. CASE Restart
  BY <1>12 DEF Restart
<1>13. CASE UNCHANGED vars
  BY <1>0, <1>13
  DEF Reached, Carried, Buffered, vars, store, handler, broker, client
<1>. QED  BY <1>1, <1>2, <1>3, <1>4, <1>5, <1>6, <1>7, <1>8, <1>9, <1>10,
             <1>11, <1>12, <1>13, <1>14 DEF Next, Handle, Browse

(* Every row committed since the page of a live dashboard was queried has  *)
(* been streamed to it, waits in its channel, is still on its way there, or*)
(* was dropped because the channel was full or published in the gap: no    *)
(* interleaving of requests, page loads and subscriptions loses another.   *)
THEOREM LiveSeesCommitted == Spec => []CommittedReachesLive
<1>1. Init => CommittedReachesLive
  BY DEF Init, CommittedReachesLive
<1>. QED  BY <1>1, TypeCorrect, ReachNext, PTL DEF Spec

-----------------------------------------------------------------------------
(* Sums over the requests.  The provers have no induction over a finite    *)
(* set: it is done here by a smallest counterexample, which exists because *)
(* < is well-founded on Nat.  Partial(f, S) is the function by which       *)
(* MapThenSumSet is defined, from every subset of S to its sum.            *)
Any(s) == CHOOSE x \in s : TRUE
Partial(f, S) ==
    CHOOSE g : g = [s \in SUBSET S |-> IF s = {} THEN 0
                                       ELSE f[Any(s)] + g[s \ {Any(s)}]]

SumOf(f, S) == MapThenSumSet(LAMBDA r : f[r], S)

(* SumOf is the last of the partial sums.                                  *)
LEMMA SumIs == ASSUME NEW f, NEW S PROVE SumOf(f, S) = Partial(f, S)[S]
BY DEF SumOf, Partial, Any, MapThenSumSet, MapThenFoldSet

(* A set of naturals that is not empty has a least element.                *)
LEMMA LeastNat ==
    ASSUME NEW T, T \subseteq Nat, T # {}
    PROVE  \E x \in T : \A y \in T : x <= y
<1>1. \E x \in T : \A y \in T : <<y, x>> \notin OpToRel(<, Nat)
  BY NatLessThanWellFounded, WFMin
<1>2. \A x, y \in Nat : <<y, x>> \notin OpToRel(<, Nat) => x <= y
  BY DEF OpToRel
<1>. QED  BY <1>1, <1>2

(* Without its chosen element a set is one element smaller.                *)
LEMMA Smaller ==
    ASSUME NEW S, IsFiniteSet(S), NEW s \in SUBSET S, s # {}
    PROVE  /\ Any(s) \in s /\ s \ {Any(s)} \in SUBSET S
           /\ Cardinality(s) \in Nat \ {0}
           /\ Cardinality(s \ {Any(s)}) = Cardinality(s) - 1
<1>1. Any(s) \in s
  BY DEF Any
<1>2. IsFiniteSet(s)
  BY FS_Subset
<1>3. Cardinality(s) \in Nat /\ Cardinality(s) # 0
  BY <1>2, FS_CardinalityType, FS_EmptySet
<1>4. Cardinality(s \ {Any(s)}) = Cardinality(s) - 1
  BY <1>1, <1>2, FS_RemoveElement
<1>. QED  BY <1>1, <1>3, <1>4

(* g is that function, as far as the sets of up to n elements go.          *)
Unfolds(g, f, S, n) ==
    /\ g \in [SUBSET S -> Int]
    /\ \A s \in SUBSET S :
          Cardinality(s) <= n =>
             g[s] = IF s = {} THEN 0 ELSE f[Any(s)] + g[s \ {Any(s)}]

(* Such a function exists for the sets of every size.                      *)
LEMMA UnfoldsTo ==
    ASSUME NEW S, IsFiniteSet(S), NEW f \in [S -> Int], NEW n \in Nat
    PROVE  \E g : Unfolds(g, f, S, n)
<1>. DEFINE Bad == {m \in Nat : ~ \E g : Unfolds(g, f, S, m)}
<1>1. SUFFICES ASSUME Bad # {} PROVE FALSE
  OBVIOUS
<1>2. PICK m \in Bad : \A k \in Bad : m <= k
  BY <1>1, LeastNat
<1>3. \A s \in SUBSET S : /\ Cardinality(s) \in Nat
                          /\ Cardinality(s) = 0 <=> s = {}
  BY FS_Subset, FS_CardinalityType, FS_EmptySet
<1>4. CASE m = 0
  <2>. DEFINE g == [s \in SUBSET S |-> 0]
  <2>1. Unfolds(g, f, S, 0)
    BY <1>3 DEF Unfolds
  <2>. QED  BY <1>4, <2>1
<1>5. CASE m > 0
  <2>1. m - 1 \in Nat /\ m - 1 \notin Bad
    BY <1>2, <1>5
  <2>2. PICK h : Unfolds(h, f, S, m - 1)
    BY <2>1
  <2>. DEFINE g == [s \in SUBSET S |->
                       IF Cardinality(s) <= m - 1 THEN h[s]
                       ELSE f[Any(s)] + h[s \ {Any(s)}]]
  <2>3. ASSUME NEW s \in SUBSET S, s # {}
        PROVE  f[Any(s)] \in Int /\ h[s \ {Any(s)}] \in Int /\ h[s] \in Int
    BY <2>2, <2>3, Smaller DEF Unfolds
  <2>4. ASSUME NEW s \in SUBSET S PROVE g[s] \in Int
    BY <1>3, <2>1, <2>2, <2>3 DEF Unfolds
  <2>5. ASSUME NEW s \in SUBSET S, Cardinality(s) <= m
        PROVE  g[s] = IF s = {} THEN 0 ELSE f[Any(s)] + g[s \ {Any(s)}]
    <3>1. CASE s = {}
      BY <1>3, <2>1, <2>2, <3>1 DEF Unfolds
    <3>2. CASE s # {}
      <4>1. Cardinality(s \ {Any(s)}) <= m - 1 /\ s \ {Any(s)} \in SUBSET S
        BY <2>5, <3>2, Smaller, <1>3
      <4>2. g[s \ {Any(s)}] = h[s \ {Any(s)}]
        BY <4>1
      <4>3. g[s] = f[Any(s)] + h[s \ {Any(s)}]
        BY <2>2, <3>2 DEF Unfolds
      <4>. QED  BY <3>2, <4>2, <4>3
    <3>. QED  BY <3>1, <3>2
  <2>6. Unfolds(g, f, S, m)
    BY <2>4, <2>5 DEF Unfolds
  <2>. QED  BY <2>6
<1>. QED  BY <1>2, <1>4, <1>5

(* What holds of {} and of a set if of the set without its chosen element  *)
(* holds of every subset of a finite set.                                  *)
LEMMA SetInduction ==
    ASSUME NEW S, IsFiniteSet(S), NEW G, {} \in G,
           \A s \in SUBSET S : s # {} /\ s \ {Any(s)} \in G => s \in G
    PROVE  SUBSET S \subseteq G
<1>. DEFINE Bad == {n \in Nat : \E s \in SUBSET S :
                                   s \notin G /\ Cardinality(s) = n}
<1>1. SUFFICES ASSUME NEW t \in SUBSET S, t \notin G
               PROVE  FALSE
  OBVIOUS
<1>2. Bad # {} /\ Bad \subseteq Nat
  <2>1. Cardinality(t) \in Nat
    BY FS_Subset, FS_CardinalityType
  <2>. QED  BY <1>1, <2>1
<1>3. PICK n \in Bad : \A m \in Bad : n <= m
  BY <1>2, LeastNat
<1>4. PICK s \in SUBSET S : s \notin G /\ Cardinality(s) = n
  BY <1>3
<1>5. s # {}
  BY <1>4
<1>6. /\ s \ {Any(s)} \in SUBSET S /\ Cardinality(s) \in Nat \ {0}
      /\ Cardinality(s \ {Any(s)}) = Cardinality(s) - 1
  BY <1>5, Smaller
<1>7. s \ {Any(s)} \in G
  BY <1>3, <1>4, <1>6
<1>. QED  BY <1>4, <1>5, <1>7

(* The sums over the subsets of a finite set satisfy their recursion.      *)
LEMMA PartialUnfolds ==
    ASSUME NEW S, IsFiniteSet(S), NEW f \in [S -> Int]
    PROVE  /\ Partial(f, S)[{}] = 0
           /\ \A s \in SUBSET S :
                 /\ Partial(f, S)[s] \in Int
                 /\ s # {} => Partial(f, S)[s]
                                 = f[Any(s)] + Partial(f, S)[s \ {Any(s)}]
<1>. DEFINE p == Partial(f, S)
            Eq(g) == g = [s \in SUBSET S |->
                             IF s = {} THEN 0
                             ELSE f[Any(s)] + g[s \ {Any(s)}]]
<1>1. Cardinality(S) \in Nat
  BY FS_CardinalityType
<1>2. PICK g : Unfolds(g, f, S, Cardinality(S))
  BY <1>1, UnfoldsTo
<1>3. \A s \in SUBSET S : Cardinality(s) <= Cardinality(S)
  BY FS_Subset
<1>4. Eq(g)
  <2>1. \A s \in SUBSET S :
           g[s] = IF s = {} THEN 0 ELSE f[Any(s)] + g[s \ {Any(s)}]
    BY <1>2, <1>3 DEF Unfolds
  <2>2. g \in [SUBSET S -> Int]
    BY <1>2 DEF Unfolds
  <2>. QED  BY <2>1, <2>2
<1>5. Eq(p)
  BY <1>4 DEF Partial
<1>6. \A s \in SUBSET S :
         p[s] = IF s = {} THEN 0 ELSE f[Any(s)] + p[s \ {Any(s)}]
  BY <1>5
<1>. DEFINE G == {s \in SUBSET S : p[s] \in Int}
<1>. HIDE DEF p
<1>7. SUBSET S \subseteq G
  <2>1. {} \in G
    BY <1>6
  <2>2. ASSUME NEW s \in SUBSET S, s # {}, s \ {Any(s)} \in G
        PROVE  s \in G
    <3>1. f[Any(s)] \in Int
      BY <2>2, Smaller
    <3>2. p[s \ {Any(s)}] \in Int
      BY <2>2
    <3>3. p[s] = f[Any(s)] + p[s \ {Any(s)}]
      BY <1>6, <2>2
    <3>. QED  BY <3>1, <3>2, <3>3
  <2>. HIDE DEF G
  <2>. QED  BY <2>1, <2>2, SetInduction
<1>. QED  BY <1>6, <1>7 DEF p

(* The sum of zeros is zero.                                               *)
LEMMA SumZero ==
    ASSUME NEW S, IsFiniteSet(S), NEW f \in [S -> Int], \A r \in S : f[r] = 0
    PROVE  SumOf(f, S) = 0
<1>. DEFINE G == {s \in SUBSET S : Partial(f, S)[s] = 0}
<1>1. {} \in G
  BY PartialUnfolds
<1>2. ASSUME NEW s \in SUBSET S, s # {}, s \ {Any(s)} \in G
      PROVE  s \in G
  <2>1. f[Any(s)] = 0
    BY <1>2, Smaller
  <2>. QED  BY <1>2, <2>1, PartialUnfolds
<1>. HIDE DEF G
<1>3. SUBSET S \subseteq G
  BY <1>1, <1>2, SetInduction
<1>. QED  BY <1>3, SumIs DEF G

(* A sum follows the change of one of its terms.                           *)
LEMMA SumChange ==
    ASSUME NEW S, IsFiniteSet(S), NEW f \in [S -> Int], NEW r \in S,
           NEW h \in [S -> Int], \A a \in S \ {r} : h[a] = f[a]
    PROVE  /\ SumOf(f, S) \in Int
           /\ SumOf(h, S) = SumOf(f, S) - f[r] + h[r]
<1>. DEFINE p == Partial(f, S)
            q == Partial(h, S)
            G == {s \in SUBSET S :
                     q[s] = p[s] + (IF r \in s THEN h[r] - f[r] ELSE 0)}
<1>1. h[r] \in Int /\ f[r] \in Int
  OBVIOUS
<1>2. /\ p[{}] = 0
      /\ \A s \in SUBSET S :
            p[s] \in Int /\ (s # {} => p[s] = f[Any(s)] + p[s \ {Any(s)}])
  BY PartialUnfolds
<1>3. /\ q[{}] = 0
      /\ \A s \in SUBSET S :
            q[s] \in Int /\ (s # {} => q[s] = h[Any(s)] + q[s \ {Any(s)}])
  BY <1>1, PartialUnfolds
<1>. HIDE DEF p, q
<1>4. {} \in G
  BY <1>2, <1>3
<1>5. ASSUME NEW s \in SUBSET S, s # {}, s \ {Any(s)} \in G
      PROVE  s \in G
  <2>1. Any(s) \in s /\ Any(s) \in S /\ s \ {Any(s)} \in SUBSET S
    BY <1>5, Smaller
  <2>2. p[s \ {Any(s)}] \in Int /\ f[Any(s)] \in Int /\ f[r] \in Int
    BY <1>2, <2>1
  <2>3. /\ q[s] = h[Any(s)] + q[s \ {Any(s)}]
        /\ p[s] = f[Any(s)] + p[s \ {Any(s)}]
    BY <1>2, <1>3, <1>5
  <2>4. q[s \ {Any(s)}] = p[s \ {Any(s)}]
                           + (IF r \in s \ {Any(s)} THEN h[r] - f[r] ELSE 0)
    BY <1>5
  <2>5. q[s] = p[s] + (IF r \in s THEN h[r] - f[r] ELSE 0)
    <3>1. CASE Any(s) = r
      BY <1>1, <2>1, <2>2, <2>3, <2>4, <3>1
    <3>2. CASE Any(s) # r
      BY <1>1, <2>1, <2>2, <2>3, <2>4, <3>2
    <3>. QED  BY <3>1, <3>2
  <2>. QED  BY <2>5
<1>6. SUBSET S \subseteq G
  <2>. HIDE DEF G
  <2>. QED  BY <1>4, <1>5, SetInduction
<1>7. q[S] = p[S] + (h[r] - f[r])
  BY <1>6
<1>8. SumOf(f, S) = p[S] /\ SumOf(h, S) = q[S]
  BY SumIs DEF p, q
<1>9. p[S] \in Int
  BY <1>2
<1>. QED  BY <1>1, <1>7, <1>8, <1>9

-----------------------------------------------------------------------------
(* A request has rows to its name only between COMMIT and answer, so the   *)
(* count of a COMMIT is added to nothing and replaces nothing.             *)
CountInv ==
    /\ \A r \in Request : pc[r] \in {"idle", "insert"} => inserted[r] = 0
    /\ accepted + SumOf(inserted, Request) = Cardinality(rows)

LEMMA CountInit == Init => CountInv
<1>. SUFFICES ASSUME Init
              PROVE  CountInv
  OBVIOUS
<1>1. /\ inserted \in [Request -> Int] /\ \A r \in Request : inserted[r] = 0
      /\ accepted = 0 /\ rows = {}
  BY DEF Init
<1>2. SumOf(inserted, Request) = 0
  BY <1>1, SumZero, IngestAssumption
<1>. QED  BY <1>1, <1>2, FS_EmptySet DEF CountInv

(* What is to be answered follows one request's change.                    *)
LEMMA InsertedChange ==
    ASSUME inserted \in [Request -> Nat], NEW r \in Request, NEW v \in Nat,
           inserted' = [inserted EXCEPT ![r] = v]
    PROVE  /\ SumOf(inserted, Request) \in Int
           /\ SumOf(inserted', Request)
                = SumOf(inserted, Request) - inserted[r] + v
<1>1. /\ inserted \in [Request -> Int] /\ inserted' \in [Request -> Int]
      /\ inserted'[r] = v
      /\ \A q \in Request \ {r} : inserted'[q] = inserted[q]
  OBVIOUS
<1>2. IsFiniteSet(Request)
  BY IngestAssumption
<1>3. SumOf(inserted, Request) \in Int
  BY <1>1, <1>2, SumChange
<1>4. ASSUME NEW f \in [Request -> Int], NEW h \in [Request -> Int],
             \A q \in Request \ {r} : h[q] = f[q]
      PROVE  SumOf(h, Request) = SumOf(f, Request) - f[r] + h[r]
  BY <1>2, <1>4, SumChange
<1>. QED  BY <1>1, <1>3, <1>4

LEMMA CountNext == TypeOK /\ CountInv /\ [Next]_vars => CountInv'
<1>. SUFFICES ASSUME TypeOK, CountInv, [Next]_vars
              PROVE  CountInv'
  OBVIOUS
<1>. USE DEF TypeOK
<1>0. inserted \in [Request -> Nat]
  OBVIOUS
<1>1. ASSUME NEW r \in Request, NEW events \in SUBSET Event,
             Receive(r, events)
      PROVE  CountInv'
  BY <1>1 DEF Receive, store, CountInv
<1>2. ASSUME NEW r \in Request, LockStore(r)
      PROVE  CountInv'
  BY <1>2 DEF LockStore, handler, CountInv
<1>3. ASSUME NEW r \in Request, Commit(r)
      PROVE  CountInv'
  <2>. DEFINE new == batch[r] \ rows
  <2>1. /\ r = mu /\ pc[r] = "insert" /\ inserted[r] = 0
        /\ UNCHANGED accepted
        /\ rows' = rows \cup batch[r]
        /\ pc' = [pc EXCEPT ![r] = "broadcast"]
        /\ inserted' = [inserted EXCEPT ![r] = Cardinality(new)]
    BY <1>3 DEF Commit, CountInv
  <2>2. IsFiniteSet(rows) /\ IsFiniteSet(new)
    BY FS_Subset, IngestAssumption
  <2>3. /\ Cardinality(rows') = Cardinality(rows) + Cardinality(new)
        /\ Cardinality(rows) \in Nat /\ Cardinality(new) \in Nat
    <3>1. rows' = rows \cup new /\ rows \cap new = {}
      BY <2>1
    <3>. HIDE DEF new
    <3>2. Cardinality(rows \cup new)
             = Cardinality(rows) + Cardinality(new)
               - Cardinality(rows \cap new)
      BY <2>2, FS_Union
    <3>3. Cardinality(rows \cap new) = 0
      BY <3>1, FS_EmptySet
    <3>4. Cardinality(rows) \in Nat /\ Cardinality(new) \in Nat
      BY <2>2, FS_CardinalityType
    <3>. QED  BY <3>1, <3>2, <3>3, <3>4
  <2>4. /\ SumOf(inserted, Request) \in Int
        /\ SumOf(inserted', Request)
             = SumOf(inserted, Request) + Cardinality(new)
    <3>. HIDE DEF new
    <3>1. Cardinality(new) \in Nat
      BY <2>3
    <3>2. /\ SumOf(inserted, Request) \in Int
          /\ SumOf(inserted', Request)
               = SumOf(inserted, Request) - inserted[r] + Cardinality(new)
      BY <1>0, <2>1, <3>1, InsertedChange
    <3>. QED  BY <2>1, <3>1, <3>2
  <2>5. accepted' + SumOf(inserted', Request) = Cardinality(rows')
    <3>. HIDE DEF new
    <3>1. accepted \in Nat
      OBVIOUS
    <3>2. accepted + SumOf(inserted, Request) = Cardinality(rows)
      BY DEF CountInv
    <3>. QED  BY <2>1, <2>3, <2>4, <3>1, <3>2
  <2>6. \A q \in Request :
           pc'[q] \in {"idle", "insert"} => inserted'[q] = 0
    <3>. HIDE DEF new
    <3>. QED  BY <2>1 DEF CountInv
  <2>. QED  BY <2>5, <2>6 DEF CountInv
<1>4. ASSUME NEW r \in Request, Rollback(r)
      PROVE  CountInv'
  BY <1>4 DEF Rollback, CountInv
<1>5. ASSUME NEW r \in Request, StartBroadcast(r)
      PROVE  CountInv'
  BY <1>5 DEF StartBroadcast, store, CountInv
<1>6. ASSUME NEW r \in Request, NEW d \in Dashboard, Offer(r, d)
      PROVE  CountInv'
  BY <1>6 DEF Offer, store, CountInv
<1>7. ASSUME NEW r \in Request, Respond(r)
      PROVE  CountInv'
  <2>1. /\ accepted' = accepted + inserted[r] /\ UNCHANGED rows
        /\ inserted' = [inserted EXCEPT ![r] = 0]
        /\ pc' = [pc EXCEPT ![r] = "idle"]
    BY <1>7 DEF Respond
  <2>2. /\ SumOf(inserted, Request) \in Int
        /\ SumOf(inserted', Request)
             = SumOf(inserted, Request) - inserted[r] + 0
    BY <1>0, <2>1, InsertedChange
  <2>3. accepted \in Nat /\ inserted[r] \in Nat
    OBVIOUS
  <2>4. accepted' + SumOf(inserted', Request) = Cardinality(rows')
    BY <2>1, <2>2, <2>3 DEF CountInv
  <2>5. \A q \in Request :
           pc'[q] \in {"idle", "insert"} => inserted'[q] = 0
    BY <2>1 DEF CountInv
  <2>. QED  BY <2>4, <2>5 DEF CountInv
<1>8. ASSUME NEW d \in Dashboard, Browse(d)
      PROVE  CountInv'
  <2>1. UNCHANGED <<store, handler>>
    BY <1>8 DEF Browse, LoadPage, Subscribe, Stream, Unsubscribe, Close
  <2>. QED  BY <2>1 DEF store, handler, CountInv
<1>9. CASE Restart
  <2>1. /\ accepted' = Cardinality(rows) /\ UNCHANGED rows
        /\ inserted' = [r \in Request |-> 0]
    BY <1>9 DEF Restart
  <2>2. SumOf(inserted', Request) = 0
    <3>1. inserted' \in [Request -> Int]
          /\ \A r \in Request : inserted'[r] = 0
      BY <2>1
    <3>. QED  BY <3>1, SumZero, IngestAssumption
  <2>3. Cardinality(rows) \in Nat
    BY NewRowsCount
  <2>4. accepted' + SumOf(inserted', Request) = Cardinality(rows')
    BY <2>1, <2>2, <2>3
  <2>5. \A r \in Request : inserted'[r] = 0
    BY <2>1
  <2>. QED  BY <2>4, <2>5 DEF CountInv
<1>10. CASE UNCHANGED vars
  BY <1>10 DEF vars, store, handler, CountInv
<1>. QED  BY <1>1, <1>2, <1>3, <1>4, <1>5, <1>6, <1>7, <1>8, <1>9, <1>10
          DEF Next, Handle

(* However often a batch is retried, by however many requests at once and  *)
(* across any restarts, a row is counted in the answer of exactly one: the *)
(* counts given and those still to be given add up to the rows stored.     *)
THEOREM RowsCountedOnce == Spec => []AcceptedCountsRowsOnce
<1>1. CountInv => AcceptedCountsRowsOnce
  BY DEF CountInv, AcceptedCountsRowsOnce, SumOf
<1>. QED  BY <1>1, TypeCorrect, CountInit, CountNext, PTL DEF Spec

=============================================================================
