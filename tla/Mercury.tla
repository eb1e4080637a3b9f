------------------------------ MODULE Mercury -------------------------------
(***************************************************************************)
(* The Mercury channel plugin (plugins/mercury/server.ts): one process per *)
(* agent between a Claude session and the message bus, a SQLite database   *)
(* that all agents share.  A process pushes new messages of its agent's    *)
(* channels to the session (poll) and answers the session's tools.         *)
(*                                                                         *)
(* JavaScript runs one callback of a process at a time; the other processes*)
(* write to the database between its statements.  A callback's work on one *)
(* channel reads the messages once and writes a row only its own agent     *)
(* uses, so it is one step; a callback takes one step per channel.         *)
(* A message is its rowid, a position in `messages`.                       *)
(***************************************************************************)
EXTENDS Integers, Sequences, FiniteSets, FiniteSetsExt

CONSTANTS Agent,        \* identities that run the plugin, one process each
          Peer,         \* identities that use the mercury program instead
          Channel,
          Status,       \* the channel "status"
          AutoChannels, \* the channels autoSubscribe gives each role
          MaxMessages,  \* bound: rows of the messages table
          MaxStarts     \* bound: launches of processes

ASSUME MercuryAssumption ==
    /\ Status \in Channel
    /\ AutoChannels \in [Agent -> SUBSET Channel]
    /\ MaxMessages \in Nat /\ MaxStarts \in Nat

None == -1  \* no row, or no entry in the map

VARIABLES
    messages,     \* table messages: channel and sender, by rowid
    subs,         \* table subscriptions
    cursors,      \* table cursors, last_read_id
    alive,        \* the agent's process runs
    pollCursors,  \* its map of that name
    work,         \* its callback under way: which, channels to do, reply
    starts,       \* launches so far
    pushed,       \* history: notifications the session received
    read,         \* history: messages the read tool returned
    missed,       \* history: messages a new cursor was set beyond, and
                  \* notifications or replies that did not arrive
    life          \* history: notifications sent by the present process

database == <<messages, subs, cursors>>
process  == <<alive, pollCursors, work, starts>>
session  == <<pushed, read, missed, life>>
vars     == <<database, process, session>>

Idle == [call |-> "none", todo |-> {}, reply |-> {}]

Init ==
    /\ messages = <<>>
    /\ subs = [a \in Agent |-> {}]
    /\ cursors = [a \in Agent |-> [c \in Channel |-> None]]
    /\ alive = [a \in Agent |-> FALSE]
    /\ pollCursors = [a \in Agent |-> [c \in Channel |-> None]]
    /\ work = [a \in Agent |-> Idle]
    /\ starts = 0
    /\ pushed = [a \in Agent |-> {}] /\ read = [a \in Agent |-> {}]
    /\ missed = [a \in Agent |-> {}] /\ life = [a \in Agent |-> {}]

-----------------------------------------------------------------------------
(* The queries.                                                            *)

On(c)        == {i \in DOMAIN messages : messages[i].channel = c}
NewOn(c, id) == {i \in On(c) : i > id}
LatestId(c)  == Max(On(c) \cup {0})
Posted(a, c) == Append(messages, [channel |-> c, sender |-> a])
By(a, ids)   == {i \in ids : messages[i].sender = a}

Ready(a) == alive[a] /\ work[a] = Idle

(* The callback goes on with its next channel, or returns.                 *)
Done(a, c) == IF work[a].todo = {c} THEN Idle
              ELSE [work[a] EXCEPT !.todo = @ \ {c}]

Doing(a, call, c) == work[a].call = call /\ c \in work[a].todo

-----------------------------------------------------------------------------
(* The process starts: autoSubscribe, sendStartupMessage, initPollCursors. *)

Start(a) ==
    /\ ~alive[a] /\ starts < MaxStarts /\ Len(messages) < MaxMessages
    /\ alive' = [alive EXCEPT ![a] = TRUE]
    /\ starts' = starts + 1
    /\ subs' = [subs EXCEPT ![a] = @ \cup AutoChannels[a]]
    /\ messages' = Posted(a, Status)
    /\ work' = [work EXCEPT
                  ![a] = IF subs'[a] = {} THEN Idle
                         ELSE [call |-> "init", todo |-> subs'[a],
                               reply |-> {}]]
    /\ UNCHANGED <<cursors, pollCursors, session>>

(* A deviation: every start begins at the latest message.                  *)
InitChannelLatest(a, c) ==
    /\ Doing(a, "init", c)
    /\ pollCursors' = [pollCursors EXCEPT ![a][c] = LatestId(c)]
    /\ cursors' = [cursors EXCEPT ![a][c] = LatestId(c)]
    /\ missed' = IF cursors[a][c] = None
                 THEN [missed EXCEPT ![a] = @ \cup On(c)] ELSE missed
    /\ work' = [work EXCEPT ![a] = Done(a, c)]
    /\ UNCHANGED <<messages, subs, alive, starts, pushed, read, life>>

(* initPollCursors for one channel; an error there ends the process (Stop).*)
InitChannel(a, c) ==
    /\ Doing(a, "init", c)
    /\ LET latest == LatestId(c)
           first  == cursors[a][c] = None
       IN  /\ pollCursors' = [pollCursors EXCEPT
                                ![a][c] = IF first THEN latest
                                          ELSE cursors[a][c]]
           /\ cursors' = IF first THEN [cursors EXCEPT ![a][c] = latest]
                         ELSE cursors
           /\ missed' = IF first THEN [missed EXCEPT ![a] = @ \cup On(c)]
                        ELSE missed
    /\ work' = [work EXCEPT ![a] = Done(a, c)]
    /\ UNCHANGED <<messages, subs, alive, starts, pushed, read, life>>

(* A deviation: a callback that outlives shutdown.                         *)
StopUnfinished(a) ==
    /\ alive[a]
    /\ alive' = [alive EXCEPT ![a] = FALSE]
    /\ pollCursors' = [pollCursors EXCEPT ![a] = [c \in Channel |-> None]]
    /\ life' = [life EXCEPT ![a] = {}]
    /\ UNCHANGED <<database, work, starts, pushed, read, missed>>

(* shutdown, a crash, or the session's end; a reply under way goes with it.*)
Stop(a) ==
    /\ alive[a]
    /\ alive' = [alive EXCEPT ![a] = FALSE]
    /\ pollCursors' = [pollCursors EXCEPT ![a] = [c \in Channel |-> None]]
    /\ work' = [work EXCEPT ![a] = Idle]
    /\ missed' = [missed EXCEPT ![a] = @ \cup work[a].reply]
    /\ life' = [life EXCEPT ![a] = {}]
    /\ UNCHANGED <<database, starts, pushed, read>>

-----------------------------------------------------------------------------
(* pollForMessages.                                                        *)

PollStart(a) ==
    /\ Ready(a) /\ subs[a] # {}
    /\ work' = [work EXCEPT ![a] = [call |-> "poll", todo |-> subs[a],
                                    reply |-> {}]]
    /\ UNCHANGED <<database, alive, pollCursors, starts, session>>

(* The upsert of a cursor, which may fail (SQLITE_BUSY after 5 s): then the*)
(* callback's catch ends the poll.                                         *)
Upsert(a, c, id) ==
    \/ /\ cursors' = [cursors EXCEPT ![a][c] = id]
       /\ work' = [work EXCEPT ![a] = Done(a, c)]
    \/ /\ UNCHANGED cursors
       /\ work' = [work EXCEPT ![a] = Idle]

(* A deviation: a new subscription replays the channel.                    *)
PollNewChannelReplay(a, c) ==
    /\ Doing(a, "poll", c) /\ pollCursors[a][c] = None
    /\ pollCursors' = [pollCursors EXCEPT ![a][c] = 0]
    /\ Upsert(a, c, 0)
    /\ UNCHANGED <<messages, subs, alive, starts, session>>

(* A subscription this process has not polled yet starts from the latest.  *)
PollNewChannel(a, c) ==
    /\ Doing(a, "poll", c) /\ pollCursors[a][c] = None
    /\ pollCursors' = [pollCursors EXCEPT ![a][c] = LatestId(c)]
    /\ Upsert(a, c, LatestId(c))
    /\ missed' = [missed EXCEPT ![a] = @ \cup On(c)]
    /\ UNCHANGED <<messages, subs, alive, starts, pushed, read, life>>

(* Deviations: the map is set only once the row is, or only the newest     *)
(* message is notified.                                                    *)
PollChannelLateSet(a, c) ==
    /\ Doing(a, "poll", c) /\ pollCursors[a][c] # None
    /\ LET ids     == NewOn(c, pollCursors[a][c])
           notices == ids \ By(a, ids)
       IN  /\ pushed' = [pushed EXCEPT ![a] = @ \cup notices]
           /\ life' = [life EXCEPT ![a] = @ \cup notices]
           /\ Upsert(a, c, Max(ids \cup {pollCursors[a][c]}))
           /\ pollCursors' = [pollCursors EXCEPT ![a][c] = cursors'[a][c]]
    /\ UNCHANGED <<messages, subs, alive, starts, read, missed>>

PollChannelNewest(a, c) ==
    /\ Doing(a, "poll", c) /\ pollCursors[a][c] # None
    /\ LET ids     == NewOn(c, pollCursors[a][c])
           notices == {i \in ids \ By(a, ids) : i = LatestId(c)}
           newest  == Max(ids \cup {pollCursors[a][c]})
       IN  /\ pushed' = [pushed EXCEPT ![a] = @ \cup notices]
           /\ life' = [life EXCEPT ![a] = @ \cup notices]
           /\ Upsert(a, c, newest)
           /\ pollCursors' = [pollCursors EXCEPT ![a][c] = newest]
    /\ UNCHANGED <<messages, subs, alive, starts, read, missed>>

(* Every message of others is notified.  The code does not wait for the    *)
(* notifications, and those in `gone` fail later.                          *)
PollChannel(a, c) ==
    /\ Doing(a, "poll", c) /\ pollCursors[a][c] # None
    /\ LET ids     == NewOn(c, pollCursors[a][c])
           notices == ids \ By(a, ids)
       IN  /\ \E gone \in SUBSET notices :
                 /\ pushed' = [pushed EXCEPT ![a] = @ \cup (notices \ gone)]
                 /\ missed' = [missed EXCEPT ![a] = @ \cup gone]
           /\ life' = [life EXCEPT ![a] = @ \cup notices]
           /\ IF ids = {}
              THEN /\ work' = [work EXCEPT ![a] = Done(a, c)]
                   /\ UNCHANGED <<cursors, pollCursors>>
              ELSE /\ pollCursors' = [pollCursors EXCEPT ![a][c] = Max(ids)]
                   /\ Upsert(a, c, Max(ids))
    /\ UNCHANGED <<messages, subs, alive, starts, read>>

-----------------------------------------------------------------------------
(* The tools.                                                              *)

SendTool(a, c) ==
    /\ Ready(a) /\ Len(messages) < MaxMessages
    /\ messages' = Posted(a, c)
    /\ UNCHANGED <<subs, cursors, process, session>>

SubscribeTool(a, c) ==
    /\ Ready(a)
    /\ subs' = [subs EXCEPT ![a] = @ \cup {c}]
    /\ UNCHANGED <<messages, cursors, process, session>>

UnsubscribeTool(a, c) ==
    /\ Ready(a)
    /\ subs' = [subs EXCEPT ![a] = @ \ {c}]
    /\ UNCHANGED <<messages, cursors, process, session>>

(* read, with a channel or for all subscribed ones.                        *)
ReadStart(a) ==
    /\ Ready(a)
    /\ \E todo \in {{c} : c \in Channel} \cup {subs[a]} :
          /\ todo # {}
          /\ work' = [work EXCEPT ![a] = [call |-> "read", todo |-> todo,
                                          reply |-> {}]]
    /\ UNCHANGED <<database, alive, pollCursors, starts, session>>

(* One channel of a read.  The reply leaves after the last one; an error   *)
(* replaces it, with the cursors of earlier channels already moved.        *)
ReadChannel(a, c) ==
    /\ Doing(a, "read", c)
    /\ LET ids   == IF cursors[a][c] = None THEN {}
                    ELSE NewOn(c, cursors[a][c])
           upto  == IF cursors[a][c] = None THEN LatestId(c)
                    ELSE Max(ids \cup {cursors[a][c]})
           reply == work[a].reply \cup ids
       IN  \/ /\ cursors' = [cursors EXCEPT ![a][c] = upto]
              /\ missed' = IF cursors[a][c] = None
                           THEN [missed EXCEPT ![a] = @ \cup On(c)]
                           ELSE missed
              /\ IF work[a].todo = {c}
                 THEN /\ work' = [work EXCEPT ![a] = Idle]
                      /\ read' = [read EXCEPT ![a] = @ \cup reply]
                 ELSE /\ work' = [work EXCEPT ![a].todo = @ \ {c},
                                              ![a].reply = reply]
                      /\ UNCHANGED read
           \/ /\ work' = [work EXCEPT ![a] = Idle]
              /\ missed' = [missed EXCEPT ![a] = @ \cup work[a].reply]
              /\ UNCHANGED <<cursors, read>>
    /\ UNCHANGED <<messages, subs, alive, pollCursors, starts, pushed, life>>

-----------------------------------------------------------------------------
(* The mercury program, with which peers post and with which the launcher  *)
(* (modules/home.nix) subscribes an agent.                                 *)

PeerSends(p, c) ==
    /\ Len(messages) < MaxMessages
    /\ messages' = Posted(p, c)
    /\ UNCHANGED <<subs, cursors, process, session>>

LauncherSubscribes(a, c) ==
    /\ ~alive[a]
    /\ subs' = [subs EXCEPT ![a] = @ \cup {c}]
    /\ UNCHANGED <<messages, cursors, process, session>>

-----------------------------------------------------------------------------

Callback(a) == \E c \in Channel : \/ InitChannel(a, c)
                                  \/ PollNewChannel(a, c)
                                  \/ PollChannel(a, c)
                                  \/ ReadChannel(a, c)

Tool(a) == \/ ReadStart(a)
           \/ \E c \in Channel : \/ SendTool(a, c)
                                 \/ SubscribeTool(a, c)
                                 \/ UnsubscribeTool(a, c)

Next == \/ \E a \in Agent : \/ Start(a) \/ Stop(a)
                            \/ PollStart(a) \/ Callback(a)
                            \/ Tool(a)
                            \/ \E c \in Channel : LauncherSubscribes(a, c)
        \/ \E p \in Peer : \E c \in Channel : PeerSends(p, c)

Spec == Init /\ [][Next]_vars

(* A callback runs to its end, and the event loop gives the timer its turn *)
(* however many tool calls arrive.                                         *)
FairSpec == Spec /\ \A a \in Agent : /\ WF_vars(Callback(a))
                                     /\ SF_vars(PollStart(a))

-----------------------------------------------------------------------------
(* Properties.                                                             *)

Ids == 1..MaxMessages

Cursor == {None} \cup 0..MaxMessages

(* Types; a callback runs only in a live process, and a stopped process has*)
(* no poll cursors.                                                        *)
TypeOK ==
    /\ messages \in Seq([channel : Channel, sender : Agent \cup Peer])
    /\ Len(messages) <= MaxMessages
    /\ subs \in [Agent -> SUBSET Channel]
    /\ cursors \in [Agent -> [Channel -> Cursor]]
    /\ alive \in [Agent -> BOOLEAN]
    /\ pollCursors \in [Agent -> [Channel -> Cursor]]
    /\ work \in [Agent -> [call : {"none", "init", "poll", "read"},
                           todo : SUBSET Channel, reply : SUBSET Ids]]
    /\ \A a \in Agent : /\ (work[a].todo = {}) = (work[a] = Idle)
                        /\ ~alive[a] => work[a] = Idle
                        /\ ~alive[a] => \A c \in Channel :
                                            pollCursors[a][c] = None
    /\ starts \in 0..MaxStarts
    /\ {pushed, read, missed, life} \subseteq [Agent -> SUBSET Ids]

(* A message of another agent that lies behind a cursor of its channel, the*)
(* stored one or the poll's, was notified, read, lost in delivery, or there*)
(* before the cursor: restarts, failed upserts, polls and reads in any     *)
(* order pass over none.                                                   *)
NothingPassedOver ==
    \A a \in Agent : \A c \in Channel :
        \A i \in On(c) :
            (/\ (i <= cursors[a][c] \/ i <= pollCursors[a][c])
             /\ messages[i].sender # a) =>
            i \in pushed[a] \cup read[a] \cup missed[a] \cup work[a].reply

(* A process notifies each message once, and a channel's messages in order.*)
PushedInOrder ==
    [][\A a \in Agent : \A c \in Channel :
          \A i \in On(c) \cap (life[a]' \ life[a]) :
              \A j \in On(c) \cap life[a] : j < i]_vars

(* The stored cursor of a channel never moves back, although polls and     *)
(* reads both write it: what was read is not unread again.                 *)
CursorNeverBack ==
    [][\A a \in Agent : \A c \in Channel : cursors[a][c] <= cursors'[a][c]]_vars

(* A message that arrives on a channel a live process polls is notified or *)
(* skipped as history, unless the process stops or unsubscribes first.     *)
Delivers ==
    \A a \in Agent : \A c \in Channel : \A i \in Ids :
        (/\ i \in On(c) /\ messages[i].sender # a
         /\ pollCursors[a][c] # None /\ pollCursors[a][c] < i)
        ~> \/ i \in pushed[a] \cup missed[a]
           \/ ~alive[a] \/ c \notin subs[a]

=============================================================================
