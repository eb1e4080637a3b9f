------------------------------- MODULE Ingest -------------------------------
(***************************************************************************)
(* The server side of an event: POST /v1/events (handler.go), the SQLite   *)
(* store behind one mutex and one connection (store.go), the broker that   *)
(* fans committed batches out (broker.go), and the dashboards that follow  *)
(* the SSE stream (dashboard.go).                                          *)
(*                                                                         *)
(* Request goroutines, dashboards and a restart of the process interleave. *)
(* A transaction has the only connection to itself from Begin to Commit,   *)
(* so no other query can see it half done: it is one step.  Payloads are   *)
(* sets of event ids; which of them fail validation does not matter here.  *)
(***************************************************************************)
EXTENDS Integers, Sequences, FiniteSets, FiniteSetsExt

CONSTANTS Event,        \* event ids
          Request,      \* request goroutines
          Dashboard,    \* pages in browsers, each with its stream
          Buffer,       \* capacity of a subscriber's channel, 16
          MaxRequests,  \* bound: POSTs in a behaviour
          MaxRestarts   \* bound: restarts of the server

NoRequest == "none"

ASSUME IngestAssumption ==
    /\ IsFiniteSet(Event) /\ IsFiniteSet(Request) /\ IsFiniteSet(Dashboard)
    /\ NoRequest \notin Request
    /\ Buffer \in Nat \ {0} /\ MaxRequests \in Nat /\ MaxRestarts \in Nat

VARIABLES
    rows,         \* committed rows of the events table
    accepted,     \* sum of the "accepted" counts of all 202 answers
    mu,           \* Store.mu: the request that holds it
    pc,           \* where each request's ServeHTTP is
    batch,        \* the validated events of each request
    inserted,     \* what InsertEvents returned to each request
    todo,         \* channels Broadcast has still to visit, per request
    subscribers,  \* Broker.subscribers, one channel per dashboard
    closed,       \* channels that Unsubscribe has closed
    channel,      \* the batches buffered in each channel
    view,         \* each dashboard: off, loaded, live or leaving
    queried,      \* history: the rows there were at the query of each page
    gap,          \* history: rows published between that query and the stream
    shown,        \* history: how often the stream showed each event
    dropped,      \* history: events not sent for want of buffer space
    posts,        \* POSTs so far
    restarts,     \* restarts so far
    panicked      \* history: a send hit a closed channel

store   == <<rows, accepted, mu>>
handler == <<pc, batch, inserted, todo>>
broker  == <<subscribers, closed, channel>>
client  == <<view, queried, gap, shown>>
counts  == <<posts, restarts>>
vars    == <<store, handler, broker, client, dropped, counts, panicked>>

Init ==
    /\ rows = {} /\ accepted = 0 /\ mu = NoRequest
    /\ pc = [r \in Request |-> "idle"]
    /\ batch = [r \in Request |-> {}]
    /\ inserted = [r \in Request |-> 0]
    /\ todo = [r \in Request |-> {}]
    /\ subscribers = {} /\ closed = {}
    /\ channel = [d \in Dashboard |-> <<>>]
    /\ view = [d \in Dashboard |-> "off"]
    /\ queried = [d \in Dashboard |-> {}]
    /\ gap = [d \in Dashboard |-> {}]
    /\ shown = [d \in Dashboard |-> [e \in Event |-> 0]]
    /\ dropped = [d \in Dashboard |-> {}]
    /\ posts = 0 /\ restarts = 0 /\ panicked = FALSE

-----------------------------------------------------------------------------
(* IngestHandler.ServeHTTP and Store.InsertEvents.                         *)

(* A batch that passes authentication and validation; any other is answered*)
(* 4xx without a trace.                                                    *)
Receive(r, events) ==
    /\ pc[r] = "idle" /\ posts < MaxRequests
    /\ pc' = [pc EXCEPT ![r] = "insert"]
    /\ batch' = [batch EXCEPT ![r] = events]
    /\ posts' = posts + 1
    /\ UNCHANGED <<store, inserted, todo, broker, client, dropped, restarts,
                   panicked>>

LockStore(r) ==
    /\ pc[r] = "insert" /\ mu = NoRequest
    /\ mu' = r
    /\ UNCHANGED <<rows, accepted, handler, broker, client, dropped, counts,
                   panicked>>

(* A deviation: ignored duplicates are counted as inserted.                *)
CommitCountingAll(r) ==
    /\ mu = r
    /\ rows' = rows \cup batch[r]
    /\ inserted' = [inserted EXCEPT ![r] = Cardinality(batch[r])]
    /\ mu' = NoRequest
    /\ pc' = [pc EXCEPT ![r] = "broadcast"]
    /\ UNCHANGED <<accepted, batch, todo, broker, client, dropped, counts,
                   panicked>>

(* INSERT OR IGNORE of every event, then COMMIT.                           *)
Commit(r) ==
    /\ mu = r
    /\ rows' = rows \cup batch[r]
    /\ inserted' = [inserted EXCEPT ![r] = Cardinality(batch[r] \ rows)]
    /\ mu' = NoRequest
    /\ pc' = [pc EXCEPT ![r] = "broadcast"]
    /\ UNCHANGED <<accepted, batch, todo, broker, client, dropped, counts,
                   panicked>>

(* A deviation: the handler does not notice and broadcasts.                *)
RollbackUnnoticed(r) ==
    /\ mu = r
    /\ mu' = NoRequest
    /\ pc' = [pc EXCEPT ![r] = "broadcast"]
    /\ UNCHANGED <<rows, accepted, batch, inserted, todo, broker, client,
                   dropped, counts, panicked>>

(* BEGIN, an INSERT or COMMIT fails: rolled back, 500.                     *)
Rollback(r) ==
    /\ mu = r
    /\ mu' = NoRequest
    /\ pc' = [pc EXCEPT ![r] = "idle"]
    /\ UNCHANGED <<rows, accepted, batch, inserted, todo, broker, client,
                   dropped, counts, panicked>>

-----------------------------------------------------------------------------
(* Broker.Broadcast: under the read lock, one non-blocking send per channel*)

(* The write lock is free for Subscribe and Unsubscribe only now.          *)
Unread == \A r \in Request : pc[r] # "fanout"

StartBroadcast(r) ==
    /\ pc[r] = "broadcast"
    /\ pc' = [pc EXCEPT ![r] = "fanout"]
    /\ todo' = [todo EXCEPT ![r] = subscribers]
    /\ UNCHANGED <<store, batch, inserted, broker, client, dropped, counts,
                   panicked>>

(* Deviations: Broadcast waits for room, or returns at a full channel.     *)
OfferWaiting(r, d) ==
    /\ pc[r] = "fanout" /\ d \in todo[r]
    /\ Len(channel[d]) < Buffer
    /\ todo' = [todo EXCEPT ![r] = @ \ {d}]
    /\ panicked' = (panicked \/ d \in closed)
    /\ channel' = [channel EXCEPT ![d] = Append(@, batch[r])]
    /\ UNCHANGED <<store, pc, batch, inserted, subscribers, closed, client,
                   dropped, counts>>

OfferReturning(r, d) ==
    /\ pc[r] = "fanout" /\ d \in todo[r]
    /\ panicked' = (panicked \/ d \in closed)
    /\ IF Len(channel[d]) < Buffer
       THEN /\ channel' = [channel EXCEPT ![d] = Append(@, batch[r])]
            /\ todo' = [todo EXCEPT ![r] = @ \ {d}]
            /\ UNCHANGED dropped
       ELSE /\ dropped' = [dropped EXCEPT ![d] = @ \cup batch[r]]
            /\ todo' = [todo EXCEPT ![r] = {}]
            /\ UNCHANGED channel
    /\ UNCHANGED <<store, pc, batch, inserted, subscribers, closed, client,
                   counts>>

(* select { case ch <- events: default: }                                  *)
Offer(r, d) ==
    /\ pc[r] = "fanout" /\ d \in todo[r]
    /\ todo' = [todo EXCEPT ![r] = @ \ {d}]
    /\ panicked' = (panicked \/ d \in closed)
    /\ IF Len(channel[d]) < Buffer
       THEN /\ channel' = [channel EXCEPT ![d] = Append(@, batch[r])]
            /\ UNCHANGED dropped
       ELSE /\ dropped' = [dropped EXCEPT ![d] = @ \cup batch[r]]
            /\ UNCHANGED channel
    /\ UNCHANGED <<store, pc, batch, inserted, subscribers, closed, client,
                   counts>>

(* RUnlock, and 202 with the number of rows inserted.                      *)
Respond(r) ==
    /\ pc[r] = "fanout" /\ todo[r] = {}
    /\ accepted' = accepted + inserted[r]
    /\ inserted' = [inserted EXCEPT ![r] = 0]
    /\ batch' = [batch EXCEPT ![r] = {}]
    /\ pc' = [pc EXCEPT ![r] = "idle"]
    /\ UNCHANGED <<rows, mu, todo, broker, client, dropped, counts, panicked>>

-----------------------------------------------------------------------------
(* Dashboards.                                                             *)

(* HandleDashboard and HandleEventsPartial query a page.  Which of the rows*)
(* it shows, at most 50 of a filter, is for Pages; here it counts when it  *)
(* was queried, for what is committed later can only come by the stream.   *)
(* A dashboard is one such page with its stream.                           *)
LoadPage(d) ==
    /\ view[d] = "off"
    /\ view' = [view EXCEPT ![d] = "loaded"]
    /\ queried' = [queried EXCEPT ![d] = rows]
    /\ UNCHANGED <<store, handler, broker, gap, shown, dropped, counts,
                   panicked>>

(* Rows whose Broadcast is still to come.                                  *)
Unpublished == UNION {batch[r] : r \in {q \in Request : pc[q] = "broadcast"}}

(* HandleEventsStream, to which the page connects: Subscribe makes a       *)
(* channel and registers it.                                               *)
Subscribe(d) ==
    /\ view[d] = "loaded" /\ Unread
    /\ subscribers' = subscribers \cup {d}
    /\ closed' = closed \ {d}
    /\ channel' = [channel EXCEPT ![d] = <<>>]
    /\ view' = [view EXCEPT ![d] = "live"]
    /\ gap' = [gap EXCEPT ![d] = rows \ (queried[d] \cup Unpublished)]
    /\ shown' = [shown EXCEPT ![d] = [e \in Event |-> 0]]
    /\ dropped' = [dropped EXCEPT ![d] = {}]
    /\ UNCHANGED <<store, handler, queried, counts, panicked>>

(* case events := <-ch: the rows are rendered and flushed.                 *)
Stream(d) ==
    /\ view[d] = "live" /\ channel[d] # <<>>
    /\ channel' = [channel EXCEPT ![d] = Tail(@)]
    /\ shown' = [shown EXCEPT ![d] =
                    [e \in Event |-> IF e \in Head(channel[d])
                                     THEN @[e] + 1 ELSE @[e]]]
    /\ UNCHANGED <<store, handler, subscribers, closed, view, queried, gap,
                   dropped, counts, panicked>>

(* Deviations: the map is not locked, or the channel stays in it.          *)
UnsubscribeUnlocked(d) ==
    /\ view[d] = "live"
    /\ subscribers' = subscribers \ {d}
    /\ view' = [view EXCEPT ![d] = "leaving"]
    /\ UNCHANGED <<store, handler, closed, channel, queried, gap, shown,
                   dropped, counts, panicked>>

UnsubscribeKeeping(d) ==
    /\ view[d] = "live" /\ Unread
    /\ view' = [view EXCEPT ![d] = "leaving"]
    /\ UNCHANGED <<store, handler, subscribers, closed, channel, queried,
                   gap, shown, dropped, counts, panicked>>

(* case <-ctx.Done(): Unsubscribe deletes the channel from the map ...     *)
Unsubscribe(d) ==
    /\ view[d] = "live" /\ Unread
    /\ subscribers' = subscribers \ {d}
    /\ view' = [view EXCEPT ![d] = "leaving"]
    /\ UNCHANGED <<store, handler, closed, channel, queried, gap, shown,
                   dropped, counts, panicked>>

(* ... and closes it after giving up the lock.                             *)
Close(d) ==
    /\ view[d] = "leaving"
    /\ closed' = closed \cup {d}
    /\ channel' = [channel EXCEPT ![d] = <<>>]
    /\ view' = [view EXCEPT ![d] = "off"]
    /\ queried' = [queried EXCEPT ![d] = {}]
    /\ gap' = [gap EXCEPT ![d] = {}]
    /\ shown' = [shown EXCEPT ![d] = [e \in Event |-> 0]]
    /\ dropped' = [dropped EXCEPT ![d] = {}]
    /\ UNCHANGED <<store, handler, subscribers, counts, panicked>>

-----------------------------------------------------------------------------

(* The process ends, by signal or panic, and systemd starts it again: rows *)
(* stay, everything else goes, an open transaction is rolled back.  The    *)
(* counts of answers that died with their requests are taken as given.     *)
Restart ==
    /\ restarts < MaxRestarts
    /\ restarts' = restarts + 1
    /\ accepted' = Cardinality(rows)
    /\ mu' = NoRequest
    /\ pc' = [r \in Request |-> "idle"]
    /\ batch' = [r \in Request |-> {}]
    /\ inserted' = [r \in Request |-> 0]
    /\ todo' = [r \in Request |-> {}]
    /\ subscribers' = {} /\ closed' = {}
    /\ channel' = [d \in Dashboard |-> <<>>]
    /\ view' = [d \in Dashboard |-> "off"]
    /\ queried' = [d \in Dashboard |-> {}]
    /\ gap' = [d \in Dashboard |-> {}]
    /\ shown' = [d \in Dashboard |-> [e \in Event |-> 0]]
    /\ dropped' = [d \in Dashboard |-> {}]
    /\ UNCHANGED <<rows, posts, panicked>>

Handle(r) ==
    \/ LockStore(r) \/ Commit(r) \/ Rollback(r)
    \/ StartBroadcast(r) \/ Respond(r)
    \/ \E d \in Dashboard : Offer(r, d)

Browse(d) == \/ LoadPage(d) \/ Subscribe(d) \/ Stream(d)
             \/ Unsubscribe(d) \/ Close(d)

Next == \/ \E r \in Request : \/ \E events \in SUBSET Event \ {{}} :
                                    Receive(r, events)
                              \/ Handle(r)
        \/ \E d \in Dashboard : Browse(d)
        \/ Restart

Spec == Init /\ [][Next]_vars

(* Goroutines of requests run, and Go's mutexes are starvation-free.  Of   *)
(* dashboards nothing is assumed: they may never read their channel.       *)
FairSpec == Spec /\ \A r \in Request :
                       WF_vars(StartBroadcast(r) \/ Respond(r)
                               \/ \E d \in Dashboard : Offer(r, d))
                       /\ SF_vars(LockStore(r))
                       /\ WF_vars(Commit(r) \/ Rollback(r))

-----------------------------------------------------------------------------
(* Properties.                                                             *)

(* Types; the mutex is held by a request that inserts, and only channels of*)
(* live dashboards are registered.                                         *)
TypeOK ==
    /\ rows \subseteq Event /\ accepted \in Nat
    /\ mu \in Request \cup {NoRequest}
    /\ mu \in Request => pc[mu] = "insert"
    /\ pc \in [Request -> {"idle", "insert", "broadcast", "fanout"}]
    /\ batch \in [Request -> SUBSET Event] /\ inserted \in [Request -> Nat]
    /\ todo \in [Request -> SUBSET Dashboard]
    /\ subscribers = {d \in Dashboard : view[d] = "live"}
    /\ closed \subseteq Dashboard
    /\ channel \in [Dashboard -> Seq(SUBSET Event)]
    /\ view \in [Dashboard -> {"off", "loaded", "live", "leaving"}]
    /\ queried \in [Dashboard -> SUBSET Event]
    /\ gap \in [Dashboard -> SUBSET Event]
    /\ shown \in [Dashboard -> [Event -> Nat]]
    /\ dropped \in [Dashboard -> SUBSET Event]
    /\ posts \in 0..MaxRequests /\ restarts \in 0..MaxRestarts
    /\ panicked \in BOOLEAN

(* Unsubscribe closes a channel outside the lock, yet no Broadcast, however*)
(* slow, ever sends on a closed channel: that panics and ends the request.  *)
NeverSendsOnClosed == ~panicked

(* Every row is counted in exactly one 202: however often a batch is       *)
(* retried, and by however many requests at once, the "accepted" counts add*)
(* up to the rows stored, but for the requests between COMMIT and answer.  *)
AcceptedCountsRowsOnce ==
    accepted + MapThenSumSet(LAMBDA r : inserted[r], Request)
        = Cardinality(rows)

Buffered(d) == UNION {channel[d][i] : i \in DOMAIN channel[d]}

(* What a dashboard is streamed has been committed.                        *)
StreamsOnlyCommitted ==
    \A d \in Dashboard : /\ {e \in Event : shown[d][e] > 0} \subseteq rows
                         /\ Buffered(d) \subseteq rows

(* Every row committed since the page of a live dashboard was queried comes*)
(* to its stream, but for those that were given to the broker between that *)
(* query and the subscription, and those that came when the channel was    *)
(* full.  (The stream is neither filtered nor cut; what the page shows of  *)
(* the rows committed before is another matter.)                           *)
CommittedReachesLive ==
    \A d \in Dashboard : view[d] = "live" =>
        \A e \in rows \ (queried[d] \cup gap[d]) :
            \/ e \in Buffered(d) \cup dropped[d]
            \/ shown[d][e] > 0
            \/ \E r \in Request : /\ e \in batch[r]
                                  /\ \/ pc[r] = "broadcast"
                                     \/ pc[r] = "fanout" /\ d \in todo[r]

(* "Non-blocking ... slow consumer protection" (broker.go:41): every POST  *)
(* is answered even if no dashboard ever reads.                            *)
IngestNeverWaits ==
    \A r \in Request : pc[r] # "idle" ~> pc[r] = "idle"

=============================================================================
