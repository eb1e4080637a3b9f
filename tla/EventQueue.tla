----------------------------- MODULE EventQueue -----------------------------
(***************************************************************************)
(* The Swift SDK's event pipeline inside one app:                          *)
(*                                                                         *)
(*   track() --> EventQueue._events --> flushSync on the serial work queue *)
(*                                        |  Persistence (batch files)     *)
(*                                        |  NetworkClient.sendSync        *)
(*                                        v                                *)
(*                                   POST /v1/events on the server         *)
(*                                                                         *)
(* App threads, the work queue, the server, the network and the process'   *)
(* own death interleave.  An event is named by its position in tracking    *)
(* order; its payload does not matter here.                                *)
(*                                                                         *)
(* sendSync is represented by the classes of result flushSync tells apart; *)
(* when the transport itself answers (backoff, circuit breaker) is the     *)
(* subject of the module NetworkClient.                                    *)
(***************************************************************************)
EXTENDS Integers, Sequences, FiniteSets, FiniteSetsExt

CONSTANTS MaxQueueSize,    \* EventQueue.maxQueueSize
          FlushThreshold,  \* EventQueue.flushThreshold
          MaxBatchSize,    \* EventQueue.maxBatchSize
          MaxDisk,         \* Persistence.maxDiskBytes, counted in events
          MaxEvents,       \* bound: events tracked in a behaviour
          MaxLate,         \* bound: abandoned requests still in the network
          MaxBlocks,       \* bound: flushes waiting on the work queue
          MaxCrashes       \* bound: deaths of the process

(* 1 <= batch (50) <= queue (1000) in the source; the rest only bounds.    *)
ASSUME SizesAssumption ==
    /\ MaxQueueSize \in Nat \ {0}
    /\ FlushThreshold \in Nat \ {0}
    /\ MaxBatchSize \in 1..MaxQueueSize
    /\ MaxDisk \in Nat
    /\ MaxEvents \in Nat
    /\ MaxLate \in Nat
    /\ MaxBlocks \in Nat \ {0}
    /\ MaxCrashes \in Nat

VARIABLES
    events,     \* _events: the in-memory queue, oldest first
    next,       \* the event the app tracks next
    blocks,     \* flushSync blocks waiting on workQueue
    pc,         \* where flushSync is; "idle" is _isFlushing = false
    loaded,     \* files of loadAllBatches() not yet resent in this pass
    batch,      \* the local `batch` of the drain loop
    file,       \* the local `filename`, NoFile for nil
    disk,       \* batch files in Application Support
    request,    \* the POST under way and its answer
    late,       \* payloads in the network that no client waits for any more
    stored,     \* events the server has committed
    up,         \* the transport reaches the server (no outage, backoff, circuit)
    connected,  \* ConnectivityMonitor.isConnected
    crashes,    \* process deaths so far
    waived,     \* history: events discarded by a documented rule
    overruns    \* history: overflow drops made while a batch was in hand

memory == <<events, next, blocks>>
worker == <<pc, loaded, batch, file, request>>
world  == <<late, stored, up, connected, crashes>>
vars   == <<memory, worker, world, disk, waived, overruns>>

(* A batch file: its creation date, as a rank, and the events in it.  The  *)
(* date is the clock's; it is assumed not to be set back between two files.*)
NoFile == [born |-> 0, events |-> {}]

OnDisk == UNION {f.events : f \in disk}
Held   == Range(events) \cup OnDisk

Youngest(files) == {f \in files : \A g \in files : g.born <= f.born}
Oldest(files)   == CHOOSE f \in files : \A g \in files : f.born <= g.born

-----------------------------------------------------------------------------

Init ==
    /\ events = <<>> /\ next = 1 /\ blocks = 1
    /\ pc = "idle" /\ loaded = {} /\ batch = <<>> /\ file = NoFile
    /\ request = "none" /\ late = {} /\ stored = {}
    /\ disk = {} /\ up = TRUE /\ connected = TRUE /\ crashes = 0
    /\ waived = {} /\ overruns = 0

-----------------------------------------------------------------------------
(* App threads.                                                            *)

(* workQueue.async; a block beyond MaxBlocks would only run flushSync once *)
(* more.                                                                   *)
OneMoreBlock == IF blocks < MaxBlocks THEN blocks + 1 ELSE blocks

(* A deviation: the capacity test one too late.                            *)
KeepNewestLate(s) ==
    IF Len(s) > MaxQueueSize + 1 THEN SubSeq(s, 2, Len(s)) ELSE s

(* Drop oldest while over capacity.                                        *)
KeepNewest(s) ==
    IF Len(s) > MaxQueueSize
    THEN SubSeq(s, Len(s) - MaxQueueSize + 1, Len(s))
    ELSE s

(* flushSync holds a batch it copied out of _events.                       *)
InHand == pc \in {"write", "send"}

(* enqueue, and the requestFlush it makes after unlocking.                 *)
Enqueue ==
    /\ next <= MaxEvents
    /\ LET queued == Append(events, next)
           kept   == KeepNewest(queued)
       IN  /\ events' = kept
           /\ blocks' = IF Len(kept) >= FlushThreshold
                        THEN OneMoreBlock ELSE blocks
           /\ waived' = waived \cup ((Range(queued) \ Range(kept)) \ OnDisk)
           /\ overruns' = IF InHand
                          THEN overruns + (Len(queued) - Len(kept))
                          ELSE overruns
    /\ next' = next + 1
    /\ UNCHANGED <<worker, world, disk>>

(* requestFlush: from StudioAnalytics.flush(), from the app entering the   *)
(* background, and from the 30-second timer, whose handler is queued on    *)
(* the work queue in the same way.                                         *)
RequestFlush ==
    /\ blocks < MaxBlocks
    /\ blocks' = OneMoreBlock
    /\ UNCHANGED <<events, next, worker, world, disk, waived, overruns>>

-----------------------------------------------------------------------------
(* The work queue: flushSync, from its guard to its return.                *)

(* A deviation: the offline return leaves _isFlushing set.                 *)
StartFlushStuck ==
    /\ pc = "idle" /\ blocks > 0
    /\ blocks' = blocks - 1
    /\ pc' = IF connected THEN "resend" ELSE "stuck"
    /\ loaded' = IF connected THEN disk ELSE loaded
    /\ UNCHANGED <<events, next, batch, file, request, world, disk,
                   waived, overruns>>

(* Offline, the block returns at once.  Online, sendPersistedBatches takes *)
(* its snapshot of the directory.                                          *)
StartFlush ==
    /\ pc = "idle" /\ blocks > 0
    /\ blocks' = blocks - 1
    /\ \/ /\ ~connected
          /\ UNCHANGED <<pc, loaded>>
       \/ /\ connected
          /\ pc' = "resend"
          /\ loaded' = disk
    /\ UNCHANGED <<events, next, batch, file, request, world, disk,
                   waived, overruns>>

(* What the request under way carries.                                     *)
Payload == IF pc = "resend" THEN Oldest(loaded).events ELSE Range(batch)

(* sendSync: the POST leaves, or backoff or the circuit breaker answers    *)
(* for the network.                                                        *)
Send ==
    /\ request = "none"
    /\ \/ pc = "resend" /\ loaded # {}
       \/ pc = "send"
    /\ \/ request' = "sent"
       \/ ~up /\ request' = "failed"
    /\ UNCHANGED <<memory, pc, loaded, batch, file, world, disk, waived,
                   overruns>>

(* A deviation: a 4xx skips the file and does not delete it.               *)
ResendAnsweredKeeping ==
    /\ pc = "resend" /\ request \in {"accepted", "refused"}
    /\ disk' = IF request = "accepted" THEN disk \ {Oldest(loaded)} ELSE disk
    /\ loaded' = loaded \ {Oldest(loaded)}
    /\ request' = "none"
    /\ UNCHANGED <<memory, pc, batch, file, world, waived, overruns>>

(* sendPersistedBatches, 2xx or 4xx: delete the file, take the next.       *)
ResendAnswered ==
    /\ pc = "resend" /\ request \in {"accepted", "refused"}
    /\ disk' = disk \ {Oldest(loaded)}
    /\ loaded' = loaded \ {Oldest(loaded)}
    /\ waived' = IF request = "refused"
                 THEN waived \cup Oldest(loaded).events ELSE waived
    /\ request' = "none"
    /\ UNCHANGED <<memory, pc, batch, file, world, overruns>>

(* A deviation: a failed resend deletes its file all the same.             *)
ResendEndsDeleting ==
    /\ pc = "resend"
    /\ request = "failed" \/ (loaded = {} /\ request = "none")
    /\ disk' = IF request = "failed" THEN disk \ {Oldest(loaded)} ELSE disk
    /\ pc' = "take" /\ loaded' = {} /\ request' = "none"
    /\ UNCHANGED <<memory, batch, file, world, waived, overruns>>

(* sendPersistedBatches returns, at its first failure or with no file      *)
(* left; flushSync goes on with the in-memory queue either way.            *)
ResendEnds ==
    /\ pc = "resend"
    /\ request = "failed" \/ (loaded = {} /\ request = "none")
    /\ pc' = "take" /\ loaded' = {} /\ request' = "none"
    /\ UNCHANGED <<memory, batch, file, world, disk, waived, overruns>>

TakeBatch ==
    /\ pc = "take" /\ events # <<>>
    /\ batch' = SubSeq(events, 1, Min({Len(events), MaxBatchSize}))
    /\ file' = NoFile
    /\ pc' = "write"
    /\ UNCHANGED <<memory, loaded, request, world, disk, waived, overruns>>

QueueDrained ==
    /\ pc = "take" /\ events = <<>>
    /\ pc' = "idle"
    /\ UNCHANGED <<memory, loaded, batch, file, request, world, disk, waived,
                   overruns>>

-----------------------------------------------------------------------------
(* Persistence.                                                            *)

Weight(files) == MapThenSumSet(LAMBDA f : Cardinality(f.events), files)

(* enforceDiskCapLocked: oldest files go until the rest leaves room for    *)
(* `reserving`; with no file left the batch is written whatever its size.  *)
KeptUnderCap(reserving) ==
    {f \in disk :
        Weight({g \in disk : g.born >= f.born}) + reserving <= MaxDisk}

NewestBirth(files) ==
    IF files = {} THEN 0 ELSE (CHOOSE f \in Youngest(files) : TRUE).born

(* writeBatch: room is made before the file is written, and stays made when*)
(* that fails.  Only a batch that cannot be serialized leaves the disk as  *)
(* it is; the body of its POST is then empty, for the server to refuse.    *)
WriteBatch ==
    /\ pc = "write"
    /\ LET kept == KeptUnderCap(Len(batch))
           new  == [born |-> NewestBirth(disk) + 1, events |-> Range(batch)]
       IN  \/ /\ \/ disk' = kept \cup {new} /\ file' = new
                 \/ disk' = kept /\ file' = NoFile
              /\ waived' = waived \cup UNION {f.events : f \in disk \ kept}
           \/ file' = NoFile /\ UNCHANGED <<disk, waived>>
    /\ pc' = "send"
    /\ UNCHANGED <<memory, loaded, batch, request, world, overruns>>

-----------------------------------------------------------------------------
(* The rest of the drain loop: what flushSync does with sendSync's result. *)

(* A deviation: a full batch size goes, not the size of this batch.        *)
WithoutFullBatch ==
    SubSeq(events, Min({Len(events), MaxBatchSize}) + 1, Len(events))

(* if _events.count >= batchSize { _events.removeFirst(batchSize) }        *)
WithoutBatch ==
    IF Len(events) >= Len(batch)
    THEN SubSeq(events, Len(batch) + 1, Len(events))
    ELSE events

(* 2xx and 4xx: out of memory, off the disk, on with the loop.             *)
BatchAnswered ==
    /\ pc = "send" /\ request \in {"accepted", "refused"}
    /\ events' = WithoutBatch
    /\ disk' = disk \ {file}
    /\ waived' = IF request = "refused" THEN waived \cup Range(batch)
                                        ELSE waived
    /\ pc' = "take" /\ request' = "none" /\ batch' = <<>> /\ file' = NoFile
    /\ UNCHANGED <<next, blocks, loaded, world, overruns>>

(* Deviations: the batch leaves memory although it was not saved, or stays *)
(* there although it was.                                                  *)
BatchFailedDropping ==
    /\ pc = "send" /\ request = "failed"
    /\ events' = WithoutBatch
    /\ pc' = "idle" /\ request' = "none" /\ batch' = <<>> /\ file' = NoFile
    /\ UNCHANGED <<next, blocks, loaded, world, disk, waived, overruns>>

BatchFailedKeeping ==
    /\ pc = "send" /\ request = "failed"
    /\ pc' = "idle" /\ request' = "none" /\ batch' = <<>> /\ file' = NoFile
    /\ UNCHANGED <<memory, loaded, world, disk, waived, overruns>>

(* 5xx, network error, open circuit: out of memory only if on disk; stop.  *)
BatchFailed ==
    /\ pc = "send" /\ request = "failed"
    /\ events' = IF file # NoFile THEN WithoutBatch ELSE events
    /\ pc' = "idle" /\ request' = "none" /\ batch' = <<>> /\ file' = NoFile
    /\ UNCHANGED <<next, blocks, loaded, world, disk, waived, overruns>>

-----------------------------------------------------------------------------
(* The server and the network, as the SDK can observe them.                *)

(* A request the SDK stops waiting for is lost, or stays in the network.   *)
Abandoned ==
    IF request = "sent" /\ Cardinality(late) < MaxLate
    THEN {late, late \cup {Payload}} ELSE {late}

(* The server commits the whole batch (InsertEvents) and answers 202.      *)
Accept ==
    /\ request = "sent" /\ up
    /\ request' = "accepted"
    /\ stored' = stored \cup Payload
    /\ UNCHANGED <<memory, pc, loaded, batch, file, late, up, connected,
                   crashes, disk, waived, overruns>>

(* Validation or authentication fails: 4xx, nothing is stored.             *)
Refuse ==
    /\ request = "sent" /\ up
    /\ request' = "refused"
    /\ UNCHANGED <<memory, pc, loaded, batch, file, world, disk, waived,
                   overruns>>

(* 5xx, a timeout or a lost answer.  The request may still be on its way.  *)
Fail ==
    /\ request \in {"sent", "accepted", "refused"} /\ ~up
    /\ request' = "failed"
    /\ late' \in Abandoned
    /\ UNCHANGED <<memory, pc, loaded, batch, file, stored, up, connected,
                   crashes, disk, waived, overruns>>

(* A request the SDK gave up on reaches the server after all.              *)
AcceptLate(payload) ==
    /\ stored' = stored \cup payload
    /\ late' = late \ {payload}
    /\ UNCHANGED <<memory, worker, up, connected, crashes, disk, waived,
                   overruns>>

TransportChanges ==
    /\ up' = ~up
    /\ UNCHANGED <<memory, worker, late, stored, connected, crashes, disk,
                   waived, overruns>>

(* handlePathUpdate; the callback on restoration requests a flush.         *)
PathChanges ==
    /\ connected' = ~connected
    /\ blocks' = IF connected THEN blocks ELSE OneMoreBlock
    /\ UNCHANGED <<events, next, worker, late, stored, up, crashes, disk,
                   waived, overruns>>

(* The process dies and is launched again: memory is gone, files stay, and *)
(* configureInstance requests a flush.                                     *)
Crash ==
    /\ crashes < MaxCrashes
    /\ crashes' = crashes + 1
    /\ events' = <<>> /\ blocks' = 1
    /\ pc' = "idle" /\ loaded' = {} /\ batch' = <<>> /\ file' = NoFile
    /\ request' = "none"
    /\ late' \in Abandoned
    /\ connected' = TRUE
    /\ waived' = waived \cup (Range(events) \ OnDisk)
    /\ UNCHANGED <<next, stored, up, disk, overruns>>

-----------------------------------------------------------------------------

FlushSync == \/ StartFlush \/ Send \/ ResendAnswered \/ ResendEnds
             \/ TakeBatch \/ QueueDrained \/ WriteBatch
             \/ BatchAnswered \/ BatchFailed

Server == Accept \/ Refuse

Next == \/ Enqueue \/ RequestFlush
        \/ FlushSync
        \/ Server \/ Fail
        \/ \E payload \in late : AcceptLate(payload)
        \/ TransportChanges \/ PathChanges \/ Crash

Spec == Init /\ [][Next]_vars

(* The timer keeps firing, the work queue runs what it holds, and a POST   *)
(* is answered or fails.  Nothing is assumed of the app, of outages or of  *)
(* requests the SDK gave up on.                                            *)
Fairness == /\ WF_vars(RequestFlush)
            /\ WF_vars(FlushSync)
            /\ WF_vars(Server)
            /\ WF_vars(Fail)

FairSpec == Spec /\ Fairness

-----------------------------------------------------------------------------
(* Properties.                                                             *)

Ids == 1..MaxEvents

File == [born : Nat, events : SUBSET Ids]

(* Every variable has its type; a request is under way only where flushSync*)
(* waits in sendSync, on a file of its snapshot or on the batch in hand.   *)
TypeOK ==
    /\ events \in Seq(Ids) /\ Len(events) <= MaxQueueSize
    /\ next \in 1..(MaxEvents + 1)
    /\ blocks \in 0..MaxBlocks
    /\ pc \in {"idle", "resend", "take", "write", "send"}
    /\ loaded \subseteq disk
    /\ batch \in Seq(Ids) /\ Len(batch) <= MaxBatchSize
    /\ file \in File
    /\ disk \subseteq File
    /\ request \in {"none", "sent", "accepted", "refused", "failed"}
    /\ request # "none" => (pc = "send" \/ (pc = "resend" /\ loaded # {}))
    /\ late \subseteq SUBSET Ids
    /\ stored \subseteq Ids
    /\ up \in BOOLEAN /\ connected \in BOOLEAN
    /\ crashes \in 0..MaxCrashes
    /\ waived \subseteq Ids
    /\ overruns \in Nat

Tracked == 1..(next - 1)

(* Events that are nowhere, and that no documented rule discarded.         *)
Missing == Tracked \ (Held \cup stored \cup waived)

(* Through crashes, lost answers, failed writes and disk-cap evictions, an *)
(* event leaves the device only when the server has it or a documented rule*)
(* discards it, as long as the queue does not overflow under a batch.      *)
NoSilentLoss == overruns = 0 => Missing = {}

(* An overflow under a batch makes flushSync remove at most one unsent     *)
(* event that the drop-oldest rule did not choose: the damage never        *)
(* exceeds the number of such overflows.                                   *)
LossBounded == Cardinality(Missing) <= overruns

(* "Drop oldest when full" (EventQueue.swift:8): the only events that      *)
(* vanish are those the overflow rule, the disk cap, a 4xx or a crash took.*)
OnlyOldestDropped == Missing = {}

Older(S, T) == \A s \in S : \A t \in T : s < t

(* The device holds its events in tracking order, files by creation date   *)
(* and then memory, and, but for the batch in hand, holds none twice: so   *)
(* the disk cap does evict the oldest events, and nothing is sent twice    *)
(* because it was saved twice.                                             *)
OldestFirst ==
    /\ \A i, j \in DOMAIN events : i < j => events[i] < events[j]
    /\ \A f, g \in disk : f.born < g.born => Older(f.events, g.events)
    /\ \A f, g \in disk : f.born = g.born => f = g
    /\ \A f \in disk \ {file} : Older(f.events, Range(events))

(* Once flushSync has acted on a final answer (2xx or 4xx), the device     *)
(* holds none of the answered events: it never sends them again.           *)
AnsweredLeaves ==
    [][(/\ request \in {"accepted", "refused"} /\ request' = "none"
        /\ crashes' = crashes)
       => Payload \cap Held' = {}]_vars

(* The abstract specification, with what the device holds in memory or on  *)
(* disk as `held`.                                                         *)
Abstract == INSTANCE Outbox WITH Event <- Ids, held <- Held

(* Every step of the pipeline is a step of the outbox, or none: an event is*)
(* stored only after it was tracked, and forgotten only once stored or     *)
(* waived.  Stated for queues that hold everything tracked, since an       *)
(* overrun (see OnlyOldestDropped) does break the promise.                 *)
ImplementsOutbox == Abstract!Spec

(* When the transport and the path stay up, the device ends up empty: no   *)
(* event is left behind by a failed write, an early return or a crash.     *)
Drains ==
    <>[](up /\ connected) => <>[](Held = {})

=============================================================================
