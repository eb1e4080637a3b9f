-------------------------- MODULE EventQueueProofs --------------------------
(* Theorems about EventQueue, for every size of queue, batch and disk.     *)
EXTENDS EventQueue, SequenceTheorems, FiniteSetTheorems,
        WellFoundedInduction, TLAPS

-----------------------------------------------------------------------------
(* Extremes of sets of numbers.                                            *)

LEMMA LeastExists ==
    ASSUME NEW T, T \subseteq Nat, T # {}
    PROVE  \E x \in T : \A y \in T : x <= y
<1>1. \E x \in T : \A y \in T : <<y, x>> \notin OpToRel(<, Nat)
  BY NatLessThanWellFounded, WFMin
<1>2. \A x, y \in Nat : <<y, x>> \notin OpToRel(<, Nat) => x <= y
  BY DEF OpToRel
<1>. QED  BY <1>1, <1>2

LEMMA OldestExists ==
    ASSUME NEW files, files # {}, \A f \in files : f.born \in Nat
    PROVE  /\ Oldest(files) \in files
           /\ \A g \in files : Oldest(files).born <= g.born
<1>. DEFINE births == {f.born : f \in files}
<1>1. \E x \in births : \A y \in births : x <= y
  BY LeastExists
<1>2. \E f \in files : \A g \in files : f.born <= g.born
  BY <1>1
<1>. QED  BY <1>2 DEF Oldest

(* A set of files whose creation ranks are bounded has a youngest one.     *)
Bounded(files) == \E m \in Nat : \A f \in files : f.born <= m

LEMMA YoungestExists ==
    ASSUME NEW files, files # {}, \A f \in files : f.born \in Nat,
           Bounded(files)
    PROVE  Youngest(files) # {}
<1>. DEFINE bounds == {m \in Nat : \A f \in files : f.born <= m}
<1>1. PICK m \in bounds : \A n \in bounds : m <= n
  <2>1. bounds \subseteq Nat /\ bounds # {}
    BY DEF Bounded
  <2>. QED  BY <2>1, LeastExists
<1>2. PICK f \in files : f.born = m
  <2>1. SUFFICES ASSUME \A f \in files : f.born # m
                 PROVE  FALSE
    OBVIOUS
  <2>2. \A f \in files : f.born <= m - 1
    BY <1>1, <2>1
  <2>3. m - 1 \in Nat
    BY <1>1, <2>2
  <2>. QED  BY <1>1, <2>2, <2>3
<1>3. f \in Youngest(files)
  BY <1>1, <1>2 DEF Youngest
<1>. QED  BY <1>3

LEMMA NewestBirthBounds ==
    ASSUME NEW files, \A f \in files : f.born \in Nat, Bounded(files)
    PROVE  /\ NewestBirth(files) \in Nat
           /\ \A f \in files : f.born <= NewestBirth(files)
<1>1. CASE files = {}
  BY <1>1 DEF NewestBirth
<1>2. CASE files # {}
  <2>1. (CHOOSE f \in Youngest(files) : TRUE) \in Youngest(files)
    BY <1>2, YoungestExists
  <2>. QED  BY <1>2, <2>1 DEF NewestBirth, Youngest
<1>. QED  BY <1>1, <1>2

-----------------------------------------------------------------------------
(* What KeepNewest and WithoutBatch do to the queue.                       *)

LEMMA SuffixFacts ==
    ASSUME NEW S, NEW s \in Seq(S), NEW k \in 0..Len(s)
    PROVE  LET rest == SubSeq(s, k + 1, Len(s))
           IN  /\ rest \in Seq(S)
               /\ Len(rest) = Len(s) - k
               /\ \A i \in 1..Len(rest) : rest[i] = s[k + i]
               /\ Range(rest) \subseteq Range(s)
               /\ Range(s) \subseteq {s[i] : i \in 1..k} \cup Range(rest)
<1>. DEFINE rest == SubSeq(s, k + 1, Len(s))
<1>1. /\ rest \in Seq(S)
      /\ Len(rest) = Len(s) - k
      /\ \A i \in 1..Len(rest) : rest[i] = s[k + i]
  <2>1. \A i \in (k + 1)..Len(s) : s[i] \in S
    OBVIOUS
  <2>2. /\ rest \in Seq(S)
        /\ Len(rest) = IF k + 1 <= Len(s) THEN Len(s) - (k + 1) + 1 ELSE 0
        /\ \A i \in 1..(Len(s) - (k + 1) + 1) : rest[i] = s[(k + 1) + i - 1]
    BY <2>1, SubSeqProperties
  <2>. QED  BY <2>2
<1>2. DOMAIN rest = 1..Len(rest) /\ DOMAIN s = 1..Len(s)
  BY <1>1
<1>. HIDE DEF rest
<1>3. Range(rest) \subseteq Range(s)
  BY <1>1, <1>2 DEF Range
<1>4. ASSUME NEW i \in 1..Len(s), i > k
      PROVE  s[i] \in Range(rest)
  <2>1. i - k \in 1..Len(rest) /\ rest[i - k] = s[i]
    BY <1>1, <1>4
  <2>. QED  BY <1>2, <2>1 DEF Range
<1>5. Range(s) \subseteq {s[i] : i \in 1..k} \cup Range(rest)
  <2>1. \A i \in 1..Len(s) : i > k => s[i] \in Range(rest)
    BY <1>4
  <2>2. \A i \in 1..Len(s) : i <= k => i \in 1..k
    OBVIOUS
  <2>. QED  BY <1>2, <2>1, <2>2 DEF Range
<1>. QED  BY <1>1, <1>3, <1>5 DEF rest

LEMMA AppendRange ==
    ASSUME NEW S, NEW s \in Seq(S), NEW e \in S
    PROVE  Range(Append(s, e)) = Range(s) \cup {e}
<1>1. /\ DOMAIN Append(s, e) = 1..(Len(s) + 1)
      /\ DOMAIN s = 1..Len(s)
  BY AppendProperties
<1>. QED  BY <1>1, AppendProperties DEF Range

LEMMA KeepNewestFacts ==
    ASSUME NEW S, NEW s \in Seq(S)
    PROVE  /\ KeepNewest(s) \in Seq(S)
           /\ Len(KeepNewest(s)) <= MaxQueueSize
           /\ Len(KeepNewest(s)) <= Len(s)
           /\ Len(s) <= MaxQueueSize => KeepNewest(s) = s
           /\ Len(s) > MaxQueueSize => Len(KeepNewest(s)) = MaxQueueSize
<1>1. CASE Len(s) > MaxQueueSize
  <2>1. Len(s) - MaxQueueSize \in 0..Len(s)
    BY <1>1, SizesAssumption
  <2>2. KeepNewest(s) = SubSeq(s, (Len(s) - MaxQueueSize) + 1, Len(s))
    BY <1>1 DEF KeepNewest
  <2>3. /\ KeepNewest(s) \in Seq(S)
        /\ Len(KeepNewest(s)) = Len(s) - (Len(s) - MaxQueueSize)
    BY <2>1, <2>2, SuffixFacts
  <2>. QED  BY <1>1, <2>3, SizesAssumption
<1>2. CASE Len(s) <= MaxQueueSize
  BY <1>2, SizesAssumption DEF KeepNewest
<1>. QED  BY <1>1, <1>2, SizesAssumption

LEMMA WithoutBatchFacts ==
    ASSUME NEW S, events \in Seq(S), batch \in Seq(S)
    PROVE  /\ WithoutBatch \in Seq(S)
           /\ Len(WithoutBatch) <= Len(events)
<1>1. CASE Len(events) >= Len(batch)
  <2>1. Len(batch) \in 0..Len(events)
    BY <1>1
  <2>2. /\ SubSeq(events, Len(batch) + 1, Len(events)) \in Seq(S)
        /\ Len(SubSeq(events, Len(batch) + 1, Len(events)))
             = Len(events) - Len(batch)
    BY <2>1, SuffixFacts
  <2>. QED  BY <1>1, <2>2 DEF WithoutBatch
<1>2. CASE ~(Len(events) >= Len(batch))
  BY <1>2 DEF WithoutBatch
<1>. QED  BY <1>1, <1>2

LEMMA PrefixFacts ==
    ASSUME NEW S, NEW s \in Seq(S)
    PROVE  LET k == Min({Len(s), MaxBatchSize})
               b == SubSeq(s, 1, k)
           IN  /\ k \in 0..Len(s) /\ k <= MaxBatchSize
               /\ b \in Seq(S) /\ Len(b) = k
               /\ \A i \in 1..k : b[i] = s[i]
<1>. DEFINE k == Min({Len(s), MaxBatchSize})
<1>1. MaxBatchSize \in Nat
  BY SizesAssumption
<1>2. k \in 0..Len(s) /\ k <= MaxBatchSize
  <2>1. \E x \in {Len(s), MaxBatchSize} :
          \A y \in {Len(s), MaxBatchSize} : x <= y
    BY <1>1
  <2>2. /\ k \in {Len(s), MaxBatchSize}
        /\ \A y \in {Len(s), MaxBatchSize} : k <= y
    BY <2>1 DEF Min
  <2>. QED  BY <1>1, <2>2
<1>. HIDE DEF k
<1>3. /\ SubSeq(s, 1, k) \in Seq(S)
      /\ Len(SubSeq(s, 1, k)) = IF 1 <= k THEN k - 1 + 1 ELSE 0
      /\ \A i \in 1..(k - 1 + 1) : SubSeq(s, 1, k)[i] = s[1 + i - 1]
  <2>1. \A i \in 1..k : s[i] \in S
    BY <1>2
  <2>. QED  BY <1>2, <2>1, SubSeqProperties
<1>4. /\ SubSeq(s, 1, k) \in Seq(S) /\ Len(SubSeq(s, 1, k)) = k
      /\ \A i \in 1..k : SubSeq(s, 1, k)[i] = s[i]
  BY <1>2, <1>3
<1>. QED  BY <1>2, <1>4 DEF k

-----------------------------------------------------------------------------
(* Type correctness.  It needs the snapshot of the directory to be empty   *)
(* outside sendPersistedBatches, where the disk cap may delete files, and  *)
(* the creation ranks on the disk to be bounded, for the next one to exist.*)

SnapshotOK == pc # "resend" => loaded = {}

TypeInv == TypeOK /\ SnapshotOK /\ Bounded(disk)

LEMMA PayloadType ==
    ASSUME TypeInv, request # "none"
    PROVE  Payload \subseteq Ids
<1>1. CASE pc = "resend"
  <2>1. Oldest(loaded) \in loaded
    BY <1>1, OldestExists DEF TypeInv, TypeOK, File
  <2>. QED  BY <1>1, <2>1 DEF TypeInv, TypeOK, File, Payload
<1>2. CASE pc # "resend"
  BY <1>2 DEF TypeInv, TypeOK, Payload, Range
<1>. QED  BY <1>1, <1>2

(* What writeBatch does, by the files it leaves: those under the cap, or,  *)
(* if the batch could not be serialized, all.                              *)
Wrote(kept) ==
    LET new == [born |-> NewestBirth(disk) + 1, events |-> Range(batch)]
    IN  /\ pc = "write" /\ pc' = "send"
        /\ \/ disk' = kept \cup {new} /\ file' = new
           \/ disk' = kept /\ file' = NoFile
        /\ waived' = waived \cup UNION {f.events : f \in disk \ kept}
        /\ UNCHANGED <<memory, loaded, batch, request, world, overruns>>

LEMMA SomeKept ==
    ASSUME WriteBatch
    PROVE  \E kept \in SUBSET disk : Wrote(kept)
<1>. DEFINE kept == KeptUnderCap(Len(batch))
            new  == [born |-> NewestBirth(disk) + 1, events |-> Range(batch)]
<1>1. kept \in SUBSET disk /\ disk \in SUBSET disk
  BY DEF KeptUnderCap
<1>2. /\ pc = "write" /\ pc' = "send"
      /\ UNCHANGED <<memory, loaded, batch, request, world, overruns>>
  BY DEF WriteBatch
<1>3. \/ /\ \/ disk' = kept \cup {new} /\ file' = new
            \/ disk' = kept /\ file' = NoFile
         /\ waived' = waived \cup UNION {f.events : f \in disk \ kept}
      \/ file' = NoFile /\ disk' = disk /\ waived' = waived
  BY DEF WriteBatch
<1>. HIDE DEF kept
<1>4. CASE /\ \/ disk' = kept \cup {new} /\ file' = new
              \/ disk' = kept /\ file' = NoFile
           /\ waived' = waived \cup UNION {f.events : f \in disk \ kept}
  BY <1>1, <1>2, <1>4 DEF Wrote
<1>5. CASE file' = NoFile /\ disk' = disk /\ waived' = waived
  <2>1. UNION {f.events : f \in disk \ disk} = {}
    OBVIOUS
  <2>2. waived' = waived \cup UNION {f.events : f \in disk \ disk}
    BY <1>5, <2>1
  <2>3. Wrote(disk)
    BY <1>2, <1>5, <2>2 DEF Wrote
  <2>. QED  BY <1>1, <2>3
<1>. QED  BY <1>3, <1>4, <1>5

LEMMA TypeInit == Init => TypeInv
BY SizesAssumption
   DEF Init, TypeInv, TypeOK, SnapshotOK, Bounded, Ids, File, NoFile

LEMMA TypeNext == TypeInv /\ [Next]_vars => TypeInv'
<1>. SUFFICES ASSUME TypeInv, [Next]_vars
              PROVE  TypeInv'
  OBVIOUS
<1>. USE SizesAssumption DEF TypeInv
<1>1. CASE Enqueue
  <2>. DEFINE queued == Append(events, next)
  <2>1. next \in Ids
    BY <1>1 DEF Enqueue, TypeOK, Ids
  <2>2. queued \in Seq(Ids) /\ Len(queued) = Len(events) + 1
    BY <2>1, AppendProperties DEF TypeOK
  <2>3. /\ events' = KeepNewest(queued)
        /\ KeepNewest(queued) \in Seq(Ids)
        /\ Len(KeepNewest(queued)) <= MaxQueueSize
        /\ Len(KeepNewest(queued)) <= Len(queued)
    BY <1>1, <2>2, KeepNewestFacts DEF Enqueue
  <2>4. /\ waived' \subseteq waived \cup Range(queued)
        /\ overruns' \in {overruns, overruns + (Len(queued) - Len(events'))}
        /\ blocks' \in {blocks, OneMoreBlock}
        /\ next' = next + 1
        /\ UNCHANGED <<worker, world, disk>>
    BY <1>1, <2>3 DEF Enqueue
  <2>5. Range(queued) \subseteq Ids
    BY <2>2 DEF Range
  <2>6. Len(queued) - Len(events') \in Nat
    BY <2>2, <2>3
  <2>7. OneMoreBlock \in 0..MaxBlocks
    BY DEF TypeOK, OneMoreBlock
  <2>. HIDE DEF queued
  <2>8. TypeOK'
    BY <2>1, <2>3, <2>4, <2>5, <2>6, <2>7 DEF TypeOK, Ids, worker, world
  <2>. QED  BY <2>4, <2>8 DEF SnapshotOK, worker
<1>2. CASE RequestFlush
  BY <1>2 DEF RequestFlush, OneMoreBlock, TypeOK, SnapshotOK, worker, world
<1>3. CASE StartFlush
  BY <1>3 DEF StartFlush, TypeOK, SnapshotOK, world
<1>4. CASE Send
  BY <1>4 DEF Send, TypeOK, SnapshotOK, memory, world
<1>5. CASE ResendAnswered
  <2>1. Oldest(loaded) \in loaded /\ Oldest(loaded).events \subseteq Ids
    BY <1>5, OldestExists DEF ResendAnswered, TypeOK, File
  <2>. QED  BY <1>5, <2>1
            DEF ResendAnswered, TypeOK, SnapshotOK, Bounded, memory, world
<1>6. CASE ResendEnds
  BY <1>6 DEF ResendEnds, TypeOK, SnapshotOK, memory, world
<1>7. CASE TakeBatch
  <2>1. batch' \in Seq(Ids) /\ Len(batch') <= MaxBatchSize
    BY <1>7, PrefixFacts DEF TakeBatch, TypeOK
  <2>2. NoFile \in File
    BY DEF NoFile, File
  <2>. QED  BY <1>7, <2>1, <2>2
            DEF TakeBatch, TypeOK, SnapshotOK, memory, world
<1>8. CASE QueueDrained
  BY <1>8 DEF QueueDrained, TypeOK, SnapshotOK, memory, world
<1>9. CASE WriteBatch
  <2>. DEFINE new == [born |-> NewestBirth(disk) + 1, events |-> Range(batch)]
  <2>1. PICK kept \in SUBSET disk : Wrote(kept)
    BY <1>9, SomeKept
  <2>2. /\ NewestBirth(disk) \in Nat
        /\ \A f \in disk : f.born <= NewestBirth(disk)
    BY NewestBirthBounds DEF TypeOK, File
  <2>3. new \in File /\ new.born = NewestBirth(disk) + 1
    BY <2>2 DEF TypeOK, File, Range
  <2>4. NoFile \in File
    BY DEF NoFile, File
  <2>5. /\ disk' \in {kept, kept \cup {new}}
        /\ file' \in {NoFile, new}
        /\ waived' = waived \cup UNION {f.events : f \in disk \ kept}
        /\ pc = "write" /\ pc' = "send"
        /\ UNCHANGED <<memory, loaded, batch, request, world, overruns>>
    BY <2>1 DEF Wrote
  <2>. HIDE DEF new
  <2>6. UNION {f.events : f \in disk \ kept} \subseteq Ids
    BY DEF TypeOK, File
  <2>7. Bounded(disk')
    <3>1. \A f \in disk' : f.born <= NewestBirth(disk) + 1
      <4>1. \A f \in disk : f.born \in Nat
        BY DEF TypeOK, File
      <4>2. \A f \in disk : f.born <= NewestBirth(disk) + 1
        BY <2>2, <4>1
      <4>3. disk' \subseteq disk \cup {new}
        BY <2>1, <2>5
      <4>. QED  BY <2>2, <2>3, <4>2, <4>3
    <3>. QED  BY <2>2, <3>1 DEF Bounded
  <2>8. TypeOK'
    BY <2>1, <2>3, <2>4, <2>5, <2>6
    DEF TypeOK, SnapshotOK, memory, world
  <2>. QED  BY <2>5, <2>7, <2>8 DEF SnapshotOK, Bounded
<1>10. CASE BatchAnswered
  <2>1. /\ events' \in Seq(Ids) /\ Len(events') <= MaxQueueSize
    BY <1>10, WithoutBatchFacts DEF BatchAnswered, TypeOK
  <2>2. NoFile \in File /\ <<>> \in Seq(Ids) /\ Len(<<>>) = 0
    BY DEF NoFile, File
  <2>3. Range(batch) \subseteq Ids
    BY DEF TypeOK, Range
  <2>. QED  BY <1>10, <2>1, <2>2, <2>3
            DEF BatchAnswered, TypeOK, SnapshotOK, Bounded, world
<1>11. CASE BatchFailed
  <2>1. /\ events' \in Seq(Ids) /\ Len(events') <= MaxQueueSize
    BY <1>11, WithoutBatchFacts DEF BatchFailed, TypeOK
  <2>2. NoFile \in File /\ <<>> \in Seq(Ids) /\ Len(<<>>) = 0
    BY DEF NoFile, File
  <2>. QED  BY <1>11, <2>1, <2>2 DEF BatchFailed, TypeOK, SnapshotOK, world
<1>12. CASE Accept
  BY <1>12, PayloadType DEF Accept, TypeOK, SnapshotOK, memory
<1>13. CASE Refuse
  BY <1>13 DEF Refuse, TypeOK, SnapshotOK, memory, world
<1>14. CASE Fail
  <2>1. Payload \subseteq Ids
    BY <1>14, PayloadType DEF Fail
  <2>2. late' \subseteq SUBSET Ids
    BY <1>14, <2>1 DEF Fail, Abandoned, TypeOK
  <2>. QED  BY <1>14, <2>2 DEF Fail, TypeOK, SnapshotOK, memory
<1>15. ASSUME NEW payload \in late, AcceptLate(payload)
       PROVE  TypeInv'
  BY <1>15 DEF AcceptLate, TypeOK, SnapshotOK, memory, worker
<1>16. CASE TransportChanges
  BY <1>16 DEF TransportChanges, TypeOK, SnapshotOK, memory, worker
<1>17. CASE PathChanges
  BY <1>17 DEF PathChanges, OneMoreBlock, TypeOK, SnapshotOK, worker
<1>18. CASE Crash
  <2>1. late' \subseteq SUBSET Ids
    <3>1. CASE request = "none"
      BY <1>18, <3>1 DEF Crash, Abandoned, TypeOK
    <3>2. CASE request # "none"
      BY <1>18, <3>2, PayloadType DEF Crash, Abandoned, TypeOK
    <3>. QED  BY <3>1, <3>2
  <2>2. NoFile \in File /\ <<>> \in Seq(Ids) /\ Len(<<>>) = 0
    BY DEF NoFile, File
  <2>3. Range(events) \subseteq Ids
    BY DEF TypeOK, Range
  <2>. QED  BY <1>18, <2>1, <2>2, <2>3 DEF Crash, TypeOK, SnapshotOK
<1>19. CASE UNCHANGED vars
  BY <1>19 DEF vars, memory, worker, world, TypeOK, SnapshotOK
<1>. QED
  BY <1>1, <1>2, <1>3, <1>4, <1>5, <1>6, <1>7, <1>8, <1>9, <1>10, <1>11,
     <1>12, <1>13, <1>14, <1>15, <1>16, <1>17, <1>18, <1>19
  DEF Next, FlushSync, Server

LEMMA TypeInvariant == Spec => []TypeInv
BY TypeInit, TypeNext, PTL DEF Spec

(* Whatever interleaving of app, flush, server and crash, every variable   *)
(* keeps its type, the queue its capacity and the snapshot of the directory*)
(* names only files that still exist.                                      *)
THEOREM TypeCorrect == Spec => []TypeOK
<1>1. TypeInv => TypeOK
  BY DEF TypeInv
<1>. QED  BY <1>1, TypeInvariant, PTL

-----------------------------------------------------------------------------
(* No silent loss.  The strengthening says what flushSync may rely on after*)
(* each of its unlocked calls: the batch it copied is still the front of   *)
(* the queue, the file it wrote still holds that batch, and an accepted    *)
(* request is one whose events the server has.                             *)

HandOK == InHand => /\ Len(batch) <= Len(events)
                    /\ overruns = 0 => \A i \in 1..Len(batch) :
                                         batch[i] = events[i]

FileOK == pc = "send" /\ file # NoFile => /\ file \in disk
                                          /\ file.events = Range(batch)

AnswerOK == request = "accepted" => Payload \subseteq stored

Accounted == overruns = 0 => Tracked \subseteq Held \cup stored \cup waived

LossInv == TypeInv /\ HandOK /\ FileOK /\ AnswerOK /\ Accounted

(* Taking the batch off the front leaves everything else in the queue.     *)
LEMMA WithoutBatchKeeps ==
    ASSUME LossInv, pc = "send", overruns = 0
    PROVE  Range(events) \subseteq Range(batch) \cup Range(WithoutBatch)
<1>1. /\ Len(batch) \in 0..Len(events)
      /\ \A i \in 1..Len(batch) : batch[i] = events[i]
  BY DEF LossInv, HandOK, InHand, TypeInv, TypeOK
<1>2. WithoutBatch = SubSeq(events, Len(batch) + 1, Len(events))
  BY <1>1 DEF WithoutBatch
<1>3. Range(events) \subseteq {events[i] : i \in 1..Len(batch)}
                               \cup Range(WithoutBatch)
  BY <1>1, <1>2, SuffixFacts DEF LossInv, TypeInv, TypeOK
<1>4. {events[i] : i \in 1..Len(batch)} \subseteq Range(batch)
  BY <1>1 DEF Range, LossInv, TypeInv, TypeOK
<1>. QED  BY <1>3, <1>4

LEMMA LossInit == Init => LossInv
BY TypeInit DEF Init, LossInv, HandOK, InHand, FileOK, AnswerOK, Accounted,
                Tracked

LEMMA LossEnqueue ==
    ASSUME LossInv, TypeInv', Enqueue
    PROVE  LossInv'
<1>. DEFINE queued == Append(events, next)
            kept   == KeepNewest(queued)
<1>1. /\ next \in Ids /\ queued \in Seq(Ids)
      /\ Len(queued) = Len(events) + 1
      /\ \A i \in 1..Len(events) : queued[i] = events[i]
      /\ Range(queued) = Range(events) \cup {next}
  <2>1. next \in Ids /\ events \in Seq(Ids)
    BY DEF Enqueue, LossInv, TypeInv, TypeOK, Ids
  <2>. QED  BY <2>1, AppendProperties, AppendRange
<1>2. /\ kept \in Seq(Ids)
      /\ Len(kept) <= Len(queued)
      /\ Len(queued) <= MaxQueueSize => kept = queued
      /\ Len(queued) > MaxQueueSize => Len(kept) = MaxQueueSize
  BY <1>1, KeepNewestFacts
<1>3. /\ events' = kept
      /\ next' = next + 1
      /\ waived' = waived \cup ((Range(queued) \ Range(kept)) \ OnDisk)
      /\ overruns' = IF InHand THEN overruns + (Len(queued) - Len(kept))
                                ELSE overruns
      /\ UNCHANGED <<worker, world, disk>>
  BY DEF Enqueue
<1>. HIDE DEF queued, kept
<1>4. overruns' = 0 => overruns = 0
  BY <1>1, <1>2, <1>3 DEF LossInv, TypeInv, TypeOK
<1>5. HandOK'
  <2>1. SUFFICES ASSUME InHand
                 PROVE  /\ Len(batch) <= Len(kept)
                        /\ overruns' = 0 => \A i \in 1..Len(batch) :
                                              batch[i] = kept[i]
    BY <1>3 DEF HandOK, InHand, worker
  <2>2. Len(batch) <= Len(kept)
    <3>1. Len(batch) <= Len(events) /\ Len(batch) <= MaxQueueSize
      BY <2>1, SizesAssumption DEF LossInv, HandOK, TypeInv, TypeOK
    <3>2. Len(kept) = Len(events) + 1 \/ Len(kept) = MaxQueueSize
      BY <1>1, <1>2, SizesAssumption DEF LossInv, TypeInv, TypeOK
    <3>. QED  BY <3>1, <3>2 DEF LossInv, TypeInv, TypeOK
  <2>3. ASSUME overruns' = 0
        PROVE  \A i \in 1..Len(batch) : batch[i] = kept[i]
    <3>1. kept = queued
      BY <1>1, <1>2, <1>3, <2>1, <2>3, SizesAssumption
      DEF LossInv, TypeInv, TypeOK
    <3>2. \A i \in 1..Len(batch) : i \in 1..Len(events)
                                   /\ batch[i] = events[i]
      BY <1>4, <2>1, <2>3 DEF LossInv, HandOK, TypeInv, TypeOK
    <3>. QED  BY <1>1, <3>1, <3>2
  <2>. QED  BY <2>2, <2>3
<1>6. FileOK' /\ AnswerOK'
  BY <1>3 DEF LossInv, FileOK, AnswerOK, Payload, worker, world
<1>7. Accounted'
  <2>1. SUFFICES ASSUME overruns' = 0
                 PROVE  Tracked' \subseteq Held' \cup stored' \cup waived'
    BY DEF Accounted
  <2>2. Tracked \subseteq Held \cup stored \cup waived
    BY <1>4, <2>1 DEF LossInv, Accounted
  <2>3. Tracked' \subseteq Tracked \cup {next}
    BY <1>3 DEF Tracked, LossInv, TypeInv, TypeOK
  <2>4. Held \cup {next} \subseteq Held' \cup waived'
    BY <1>1, <1>3 DEF Held, OnDisk
  <2>. QED  BY <1>3, <2>2, <2>3, <2>4 DEF world
<1>. QED  BY <1>5, <1>6, <1>7 DEF LossInv

LEMMA LossResendAnswered ==
    ASSUME LossInv, TypeInv', ResendAnswered
    PROVE  LossInv'
<1>. DEFINE sent == Oldest(loaded)
<1>1. /\ pc = "resend" /\ pc' = pc
      /\ request \in {"accepted", "refused"} /\ request' = "none"
      /\ disk' = disk \ {sent}
      /\ waived' = IF request = "refused" THEN waived \cup sent.events
                                           ELSE waived
      /\ UNCHANGED <<memory, batch, file, world, overruns>>
  BY DEF ResendAnswered
<1>2. request = "accepted" => sent.events \subseteq stored
  BY <1>1 DEF LossInv, AnswerOK, Payload
<1>. HIDE DEF sent
<1>3. OnDisk \subseteq OnDisk' \cup sent.events
  BY <1>1 DEF OnDisk
<1>4. Accounted'
  BY <1>1, <1>2, <1>3
  DEF LossInv, Accounted, Held, Tracked, memory, world
<1>. QED  BY <1>1, <1>4 DEF LossInv, HandOK, InHand, FileOK, AnswerOK

LEMMA LossWriteBatch ==
    ASSUME LossInv, TypeInv', WriteBatch
    PROVE  LossInv'
<1>. DEFINE new == [born |-> NewestBirth(disk) + 1, events |-> Range(batch)]
<1>0. PICK kept \in SUBSET disk : Wrote(kept)
  BY SomeKept
<1>1. /\ pc = "write" /\ pc' = "send"
      /\ \/ disk' = kept \cup {new} /\ file' = new
         \/ disk' = kept /\ file' = NoFile
      /\ waived' = waived \cup UNION {f.events : f \in disk \ kept}
      /\ UNCHANGED <<memory, loaded, batch, request, world, overruns>>
  BY <1>0 DEF Wrote
<1>2. kept \subseteq disk /\ new.events = Range(batch)
  OBVIOUS
<1>. HIDE DEF new
<1>3. HandOK'
  BY <1>1 DEF LossInv, HandOK, InHand, memory
<1>4. FileOK'
  BY <1>1, <1>2 DEF FileOK
<1>5. AnswerOK'
  BY <1>1 DEF LossInv, TypeInv, TypeOK, AnswerOK
<1>6. OnDisk \subseteq OnDisk' \cup waived'
  <2>1. OnDisk \subseteq (UNION {f.events : f \in kept})
                         \cup (UNION {f.events : f \in disk \ kept})
    BY DEF OnDisk
  <2>2. UNION {f.events : f \in kept} \subseteq OnDisk'
    BY <1>1 DEF OnDisk
  <2>. QED  BY <1>1, <2>1, <2>2
<1>7. Accounted'
  BY <1>1, <1>6 DEF LossInv, Accounted, Held, Tracked, memory, world
<1>. QED  BY <1>3, <1>4, <1>5, <1>7 DEF LossInv

LEMMA LossBatchAnswered ==
    ASSUME LossInv, TypeInv', BatchAnswered
    PROVE  LossInv'
<1>1. /\ pc = "send" /\ pc' = "take"
      /\ request \in {"accepted", "refused"} /\ request' = "none"
      /\ events' = WithoutBatch
      /\ disk' = disk \ {file}
      /\ waived' = IF request = "refused" THEN waived \cup Range(batch)
                                           ELSE waived
      /\ UNCHANGED <<next, world, overruns>>
  BY DEF BatchAnswered
<1>2. Range(batch) \subseteq stored' \cup waived'
  BY <1>1 DEF LossInv, AnswerOK, Payload, world
<1>3. OnDisk \subseteq OnDisk' \cup Range(batch)
  <2>1. file.events \subseteq Range(batch)
    BY <1>1 DEF LossInv, FileOK, NoFile
  <2>. QED  BY <1>1, <2>1 DEF OnDisk
<1>4. overruns = 0 => Range(events) \subseteq Range(batch) \cup Range(events')
  BY <1>1, WithoutBatchKeeps
<1>5. Accounted'
  BY <1>1, <1>2, <1>3, <1>4 DEF LossInv, Accounted, Held, Tracked, world
<1>. QED  BY <1>1, <1>5 DEF LossInv, HandOK, InHand, FileOK, AnswerOK

LEMMA LossBatchFailed ==
    ASSUME LossInv, TypeInv', BatchFailed
    PROVE  LossInv'
<1>1. /\ pc = "send" /\ pc' = "idle" /\ request' = "none"
      /\ events' = IF file # NoFile THEN WithoutBatch ELSE events
      /\ UNCHANGED <<next, world, disk, waived, overruns>>
  BY DEF BatchFailed
<1>2. overruns = 0 => Held \subseteq Held'
  <2>1. CASE file = NoFile
    BY <1>1, <2>1 DEF Held, OnDisk
  <2>2. CASE file # NoFile
    <3>1. Range(batch) \subseteq OnDisk
      BY <1>1, <2>2 DEF LossInv, FileOK, OnDisk
    <3>. QED  BY <1>1, <2>2, <3>1, WithoutBatchKeeps DEF Held, OnDisk
  <2>. QED  BY <2>1, <2>2
<1>3. Accounted'
  BY <1>1, <1>2 DEF LossInv, Accounted, Tracked, world
<1>. QED  BY <1>1, <1>3 DEF LossInv, HandOK, InHand, FileOK, AnswerOK

LEMMA LossTakeBatch ==
    ASSUME LossInv, TypeInv', TakeBatch
    PROVE  LossInv'
<1>1. /\ Len(batch') <= Len(events)
      /\ \A i \in 1..Len(batch') : batch'[i] = events[i]
  <2>. DEFINE k == Min({Len(events), MaxBatchSize})
  <2>1. events \in Seq(Ids) /\ batch' = SubSeq(events, 1, k)
    BY DEF TakeBatch, LossInv, TypeInv, TypeOK
  <2>2. /\ k \in 0..Len(events)
        /\ Len(batch') = k
        /\ \A i \in 1..k : batch'[i] = events[i]
    BY <2>1, PrefixFacts
  <2>. HIDE DEF k
  <2>. QED  BY <2>1, <2>2
<1>2. /\ pc = "take" /\ pc' = "write"
      /\ UNCHANGED <<memory, request, world, disk, waived, overruns>>
  BY DEF TakeBatch
<1>3. HandOK' /\ FileOK'
  BY <1>1, <1>2 DEF HandOK, FileOK, memory
<1>4. AnswerOK'
  BY <1>2 DEF LossInv, TypeInv, TypeOK, AnswerOK
<1>5. Accounted'
  BY <1>2 DEF LossInv, Accounted, Held, OnDisk, Tracked, memory, world
<1>. QED  BY <1>3, <1>4, <1>5 DEF LossInv

LEMMA LossNext == LossInv /\ [Next]_vars => LossInv'
<1>. SUFFICES ASSUME LossInv, [Next]_vars
              PROVE  LossInv'
  OBVIOUS
<1>. TypeInv'
  BY TypeNext DEF LossInv
<1>. USE DEF LossInv, HandOK, InHand, FileOK, AnswerOK, Accounted, Held,
             OnDisk, Tracked, Payload
<1>1. CASE RequestFlush
  BY <1>1 DEF RequestFlush, worker, world
<1>2. CASE StartFlush
  BY <1>2 DEF StartFlush, TypeInv, TypeOK, world
<1>3. CASE Send
  BY <1>3 DEF Send, memory, world
<1>4. CASE ResendEnds
  BY <1>4 DEF ResendEnds, memory, world
<1>5. CASE QueueDrained
  BY <1>5 DEF QueueDrained, TypeInv, TypeOK, memory, world
<1>6. CASE Accept
  BY <1>6 DEF Accept, memory
<1>7. CASE Refuse
  BY <1>7 DEF Refuse, memory, world
<1>8. CASE Fail
  BY <1>8 DEF Fail, memory
<1>9. ASSUME NEW payload \in late, AcceptLate(payload)
      PROVE  LossInv'
  BY <1>9 DEF AcceptLate, memory, worker
<1>10. CASE TransportChanges
  BY <1>10 DEF TransportChanges, memory, worker
<1>11. CASE PathChanges
  BY <1>11 DEF PathChanges, worker
<1>12. CASE Crash
  <2>1. Range(events) \cup OnDisk \subseteq OnDisk' \cup waived'
    BY <1>12 DEF Crash
  <2>. QED  BY <1>12, <2>1 DEF Crash
<1>13. CASE UNCHANGED vars
  BY <1>13 DEF vars, memory, worker, world
<1>. QED
  BY LossEnqueue, LossResendAnswered, LossTakeBatch, LossWriteBatch,
     LossBatchAnswered, LossBatchFailed,
     <1>1, <1>2, <1>3, <1>4, <1>5, <1>6, <1>7, <1>8, <1>9, <1>10, <1>11,
     <1>12, <1>13
  DEF Next, FlushSync, Server

(* An event the app tracked is on the device, on the server, or waived by a*)
(* documented rule, whatever crashes, lost answers, failed writes and      *)
(* evictions happen, unless the queue overflowed under a batch in hand.    *)
THEOREM NothingLostSilently == Spec => []NoSilentLoss
<1>1. LossInv => NoSilentLoss
  BY DEF LossInv, Accounted, NoSilentLoss, Missing
<1>. QED  BY <1>1, LossInit, LossNext, PTL DEF Spec

-----------------------------------------------------------------------------
(* Order.  Memory always holds the last Len(events) events tracked, for    *)
(* they come in one at a time and leave from the front only; so does a     *)
(* batch hold consecutive events, that begin no later than what memory     *)
(* holds.  Ends(s, n): s is a run of consecutive numbers that ends in n.   *)
Ends(s, n) == \A i \in 1..Len(s) : s[i] = n - Len(s) + i

LEMMA EndsRange ==
    ASSUME NEW n \in Nat, NEW s \in Seq(Ids), Ends(s, n)
    PROVE  Range(s) = (n - Len(s) + 1)..n
<1>1. DOMAIN s = 1..Len(s) /\ Len(s) \in Nat
  OBVIOUS
<1>2. ASSUME NEW x \in Range(s)
      PROVE  x \in (n - Len(s) + 1)..n
  <2>1. PICK i \in 1..Len(s) : x = s[i]
    BY <1>1 DEF Range
  <2>. QED  BY <1>1, <2>1 DEF Ends
<1>3. ASSUME NEW x \in (n - Len(s) + 1)..n
      PROVE  x \in Range(s)
  <2>1. x - n + Len(s) \in 1..Len(s) /\ s[x - n + Len(s)] = x
    BY <1>1, <1>3 DEF Ends
  <2>. QED  BY <1>1, <2>1 DEF Range
<1>. QED  BY <1>2, <1>3

LEMMA EndsSuffix ==
    ASSUME NEW n \in Nat, NEW s \in Seq(Ids), Ends(s, n),
           NEW k \in 0..Len(s)
    PROVE  Ends(SubSeq(s, k + 1, Len(s)), n)
<1>. DEFINE rest == SubSeq(s, k + 1, Len(s))
<1>1. /\ Len(rest) = Len(s) - k
      /\ \A i \in 1..Len(rest) : rest[i] = s[k + i]
  BY SuffixFacts
<1>. HIDE DEF rest
<1>2. ASSUME NEW i \in 1..Len(rest)
      PROVE  rest[i] = n - Len(rest) + i
  <2>1. Len(s) \in Nat /\ k + i \in 1..Len(s)
    BY <1>1
  <2>. QED  BY <1>1, <2>1 DEF Ends
<1>. QED  BY <1>2 DEF Ends, rest

Dense == Ends(events, next - 1)

HandOrdered ==
    InHand => /\ Len(batch) >= 1
              /\ Ends(batch, batch[1] + Len(batch) - 1)
              /\ batch[1] + Len(events) <= next

NoFileYet == pc # "send" => file = NoFile

FilesOrdered ==
    \A f, g \in disk : /\ f.born < g.born => Older(f.events, g.events)
                       /\ f.born = g.born => f = g

FilesBehind ==
    \A f \in disk \ {file} : /\ Older(f.events, Range(events))
                             /\ InHand => Older(f.events, Range(batch))

AllTracked ==
    /\ \A f \in disk : f.events \subseteq Tracked
    /\ stored \subseteq Tracked /\ waived \subseteq Tracked
    /\ late \subseteq SUBSET Tracked

OrderInv == /\ LossInv /\ Dense /\ HandOrdered /\ NoFileYet
            /\ FilesOrdered /\ FilesBehind /\ AllTracked

(* The queue and the batch in hand as intervals.                           *)
LEMMA QueueRange ==
    ASSUME TypeInv, Dense
    PROVE  /\ Len(events) \in Nat /\ next \in Nat \ {0}
           /\ Range(events) = (next - Len(events))..(next - 1)
           /\ Range(events) \subseteq Tracked
<1>1. events \in Seq(Ids) /\ next \in Nat \ {0} /\ next - 1 \in Nat
  BY SizesAssumption DEF TypeInv, TypeOK
<1>2. Range(events) = (next - 1 - Len(events) + 1)..(next - 1)
  BY <1>1, EndsRange DEF Dense
<1>3. Range(events) = (next - Len(events))..(next - 1)
  BY <1>1, <1>2
<1>4. Range(events) \subseteq Ids
  BY <1>1 DEF Range
<1>. QED  BY <1>1, <1>3, <1>4 DEF Tracked, Ids

LEMMA HandRange ==
    ASSUME OrderInv, InHand
    PROVE  /\ Len(batch) \in Nat \ {0} /\ batch[1] \in Nat \ {0}
           /\ Len(batch) <= Len(events)
           /\ batch[1] + Len(events) <= next
           /\ Range(batch) = batch[1]..(batch[1] + Len(batch) - 1)
           /\ Range(batch) \subseteq Tracked
<1>1. /\ batch \in Seq(Ids) /\ Len(batch) \in Nat \ {0}
      /\ batch[1] \in Nat \ {0}
  <2>1. batch \in Seq(Ids)
    BY DEF OrderInv, LossInv, TypeInv, TypeOK
  <2>2. Len(batch) >= 1
    BY DEF OrderInv, HandOrdered
  <2>3. batch[1] \in Ids
    BY <2>1, <2>2
  <2>. QED  BY <2>1, <2>2, <2>3 DEF Ids
<1>2. /\ Len(batch) <= Len(events) /\ batch[1] + Len(events) <= next
  BY DEF OrderInv, LossInv, HandOK, HandOrdered
<1>3. Range(batch)
        = ((batch[1] + Len(batch) - 1) - Len(batch) + 1)
            ..(batch[1] + Len(batch) - 1)
  <2>1. batch[1] + Len(batch) - 1 \in Nat
    BY <1>1
  <2>. QED  BY <1>1, <2>1, EndsRange DEF OrderInv, HandOrdered
<1>4. Range(batch) = batch[1]..(batch[1] + Len(batch) - 1)
  BY <1>1, <1>3
<1>5. Len(events) \in Nat /\ next \in Nat
  BY QueueRange DEF OrderInv, LossInv
<1>6. /\ batch[1] + Len(batch) - 1 <= next - 1
      /\ batch[1] + Len(batch) - 1 \in Nat
  BY <1>1, <1>2, <1>5
<1>7. Range(batch) \subseteq 1..(next - 1)
  BY <1>1, <1>4, <1>5, <1>6
<1>. QED  BY <1>1, <1>2, <1>4, <1>7 DEF Tracked

(* What is left once the batch is taken off the front is younger than it.  *)
LEMMA RestRange ==
    ASSUME OrderInv, InHand
    PROVE  /\ Ends(WithoutBatch, next - 1)
           /\ WithoutBatch \in Seq(Ids)
           /\ Len(WithoutBatch) = Len(events) - Len(batch)
           /\ Range(WithoutBatch) = (next - Len(events) + Len(batch))
                                      ..(next - 1)
           /\ Range(WithoutBatch) \subseteq Range(events)
           /\ Older(Range(batch), Range(WithoutBatch))
<1>1. /\ Len(batch) \in 0..Len(events) /\ events \in Seq(Ids)
      /\ next \in Nat /\ next - 1 \in Nat /\ Len(events) \in Nat
  BY HandRange, QueueRange DEF OrderInv, LossInv, TypeInv, TypeOK
<1>2. WithoutBatch = SubSeq(events, Len(batch) + 1, Len(events))
  BY <1>1 DEF WithoutBatch
<1>3. /\ WithoutBatch \in Seq(Ids)
      /\ Len(WithoutBatch) = Len(events) - Len(batch)
      /\ Range(WithoutBatch) \subseteq Range(events)
  BY <1>1, <1>2, SuffixFacts
<1>4. Ends(WithoutBatch, next - 1)
  BY <1>1, <1>2, EndsSuffix DEF OrderInv, Dense
<1>5. Range(WithoutBatch)
        = (next - 1 - (Len(events) - Len(batch)) + 1)..(next - 1)
  BY <1>1, <1>3, <1>4, EndsRange
<1>6. Range(WithoutBatch) = (next - Len(events) + Len(batch))..(next - 1)
  BY <1>1, <1>5
<1>. QED  BY <1>1, <1>3, <1>4, <1>6, HandRange DEF Older

(* A step that moves no event between app, hand and files keeps the order. *)
LEMMA OrderQuiet ==
    ASSUME OrderInv, LossInv', AllTracked',
           UNCHANGED <<events, next, batch, file, disk>>,
           InHand' <=> InHand, pc' = "send" <=> pc = "send"
    PROVE  OrderInv'
BY DEF OrderInv, Dense, HandOrdered, NoFileYet, FilesOrdered, FilesBehind,
       InHand

(* What a request carries was tracked.                                     *)
LEMMA PayloadTracked ==
    ASSUME OrderInv, request # "none"
    PROVE  Payload \subseteq Tracked
<1>1. pc = "send" \/ (pc = "resend" /\ loaded # {} /\ loaded \subseteq disk)
  BY DEF OrderInv, LossInv, TypeInv, TypeOK
<1>2. CASE pc = "send"
  BY <1>2, HandRange DEF Payload, InHand
<1>3. CASE pc = "resend"
  <2>1. Oldest(loaded) \in disk
    BY <1>1, <1>3, OldestExists DEF OrderInv, LossInv, TypeInv, TypeOK, File
  <2>. QED  BY <1>3, <2>1 DEF OrderInv, AllTracked, Payload
<1>. QED  BY <1>1, <1>2, <1>3

LEMMA AbandonedTracked ==
    ASSUME OrderInv, NEW left \in Abandoned
    PROVE  left \subseteq SUBSET Tracked
<1>1. CASE request = "sent"
  BY <1>1, PayloadTracked DEF OrderInv, AllTracked, Abandoned
<1>2. CASE request # "sent"
  BY <1>2 DEF OrderInv, AllTracked, Abandoned
<1>. QED  BY <1>1, <1>2

LEMMA OrderInit == Init => OrderInv
BY LossInit
DEF Init, OrderInv, Dense, Ends, HandOrdered, InHand, NoFileYet,
    FilesOrdered, FilesBehind, AllTracked

LEMMA OrderEnqueue ==
    ASSUME OrderInv, LossInv', Enqueue
    PROVE  OrderInv'
<1>. DEFINE queued == Append(events, next)
            kept   == KeepNewest(queued)
<1>1. /\ next \in Ids /\ events \in Seq(Ids) /\ queued \in Seq(Ids)
      /\ Len(queued) = Len(events) + 1
      /\ \A i \in 1..Len(events) : queued[i] = events[i]
      /\ queued[Len(events) + 1] = next
      /\ next \in Nat /\ Len(events) \in Nat
      /\ Range(queued) = Range(events) \cup {next}
  <2>1. next \in Ids /\ events \in Seq(Ids)
    BY DEF Enqueue, OrderInv, LossInv, TypeInv, TypeOK, Ids
  <2>2. next \in Nat /\ Len(events) \in Nat
    BY <2>1 DEF Ids
  <2>3. Range(queued) = Range(events) \cup {next}
    BY <2>1, AppendRange
  <2>4. /\ queued \in Seq(Ids) /\ Len(queued) = Len(events) + 1
        /\ \A i \in 1..Len(events) : queued[i] = events[i]
        /\ queued[Len(events) + 1] = next
    BY <2>1, AppendProperties
  <2>. QED  BY <2>1, <2>2, <2>3, <2>4
<1>2. Ends(queued, next)
  <2>1. ASSUME NEW i \in 1..Len(queued)
        PROVE  queued[i] = next - Len(queued) + i
    <3>1. CASE i = Len(events) + 1
      BY <1>1, <3>1
    <3>2. CASE i # Len(events) + 1
      <4>1. i \in 1..Len(events)
        BY <1>1, <2>1, <3>2
      <4>2. events[i] = (next - 1) - Len(events) + i
        BY <4>1 DEF OrderInv, Dense, Ends
      <4>. QED  BY <1>1, <4>1, <4>2
    <3>. QED  BY <3>1, <3>2
  <2>. QED  BY <2>1 DEF Ends
<1>3. /\ Ends(kept, next) /\ kept \in Seq(Ids)
      /\ Range(kept) \subseteq Range(queued)
      /\ Len(kept) = Len(queued) \/ Len(kept) = Len(queued) - 1
  <2>. DEFINE k == Len(queued) - MaxQueueSize
  <2>1. CASE Len(queued) > MaxQueueSize
    <3>1. Len(events) <= MaxQueueSize
      BY DEF OrderInv, LossInv, TypeInv, TypeOK
    <3>2. k = 1 /\ k \in 0..Len(queued)
      BY <1>1, <2>1, <3>1, SizesAssumption
    <3>3. kept = SubSeq(queued, k + 1, Len(queued))
      BY <2>1 DEF KeepNewest
    <3>. HIDE DEF queued, k, kept
    <3>4. Ends(kept, next)
      BY <1>1, <1>2, <3>2, <3>3, EndsSuffix
    <3>5. /\ kept \in Seq(Ids) /\ Len(kept) = Len(queued) - k
          /\ Range(kept) \subseteq Range(queued)
      BY <1>1, <3>2, <3>3, SuffixFacts
    <3>. QED  BY <3>2, <3>4, <3>5
  <2>2. CASE ~(Len(queued) > MaxQueueSize)
    BY <1>1, <1>2, <2>2 DEF KeepNewest
  <2>. QED  BY <2>1, <2>2
<1>4. /\ events' = kept
      /\ next' = next + 1
      /\ waived' = waived \cup ((Range(queued) \ Range(kept)) \ OnDisk)
      /\ UNCHANGED <<worker, world, disk>>
  BY DEF Enqueue
<1>. HIDE DEF queued, kept
<1>5. Dense'
  BY <1>1, <1>3, <1>4 DEF Dense
<1>6. HandOrdered'
  BY <1>1, <1>3, <1>4, HandRange DEF OrderInv, HandOrdered, InHand, worker
<1>7. NoFileYet' /\ FilesOrdered'
  BY <1>4 DEF OrderInv, NoFileYet, FilesOrdered, worker
<1>8. Tracked' = Tracked \cup {next} /\ next \notin Tracked
  BY <1>1, <1>4 DEF Tracked, Ids
<1>9. Range(events) \subseteq Tracked
  BY QueueRange DEF OrderInv, LossInv
<1>10. FilesBehind'
  <2>1. ASSUME NEW f \in disk \ {file}
        PROVE  /\ Older(f.events, Range(events'))
               /\ InHand => Older(f.events, Range(batch))
    <3>1. /\ Older(f.events, Range(events))
          /\ InHand => Older(f.events, Range(batch))
          /\ f.events \subseteq Tracked
      BY <2>1 DEF OrderInv, FilesBehind, AllTracked
    <3>2. \A s \in f.events : s < next
      BY <1>1, <3>1 DEF Tracked
    <3>3. Range(events') \subseteq Range(events) \cup {next}
      BY <1>1, <1>3, <1>4
    <3>. QED  BY <3>1, <3>2, <3>3 DEF Older
  <2>. QED  BY <1>4, <2>1 DEF FilesBehind, InHand, worker
<1>11. AllTracked'
  BY <1>1, <1>4, <1>8, <1>9 DEF OrderInv, AllTracked, world
<1>. QED  BY <1>5, <1>6, <1>7, <1>10, <1>11 DEF OrderInv

LEMMA OrderResendAnswered ==
    ASSUME OrderInv, LossInv', ResendAnswered
    PROVE  OrderInv'
<1>. DEFINE sent == Oldest(loaded)
<1>1. /\ pc = "resend" /\ pc' = pc /\ loaded # {} /\ loaded \subseteq disk
      /\ disk' = disk \ {sent}
      /\ waived' \in {waived, waived \cup sent.events}
      /\ UNCHANGED <<events, next, batch, file, stored, late>>
  BY DEF ResendAnswered, OrderInv, LossInv, TypeInv, TypeOK, memory, world
<1>2. sent \in disk
  BY <1>1, OldestExists DEF OrderInv, LossInv, TypeInv, TypeOK, File
<1>. HIDE DEF sent
<1>3. AllTracked'
  BY <1>1, <1>2 DEF OrderInv, AllTracked, Tracked
<1>4. Dense' /\ HandOrdered' /\ NoFileYet'
  BY <1>1 DEF OrderInv, Dense, HandOrdered, NoFileYet, InHand
<1>5. FilesOrdered' /\ FilesBehind'
  BY <1>1 DEF OrderInv, FilesOrdered, FilesBehind, InHand
<1>. QED  BY <1>3, <1>4, <1>5 DEF OrderInv

LEMMA OrderTakeBatch ==
    ASSUME OrderInv, LossInv', TakeBatch
    PROVE  OrderInv'
<1>. DEFINE k == Min({Len(events), MaxBatchSize})
<1>1. /\ pc = "take" /\ pc' = "write" /\ events # <<>>
      /\ batch' = SubSeq(events, 1, k) /\ file' = NoFile
      /\ UNCHANGED <<events, next, stored, late, disk, waived>>
  BY DEF TakeBatch, memory, world
<1>2. /\ events \in Seq(Ids) /\ Len(events) \in Nat \ {0}
      /\ next \in Nat \ {0}
  BY <1>1 DEF OrderInv, LossInv, TypeInv, TypeOK
<1>3. /\ k \in 1..Len(events) /\ Len(batch') = k /\ batch' \in Seq(Ids)
      /\ \A i \in 1..k : batch'[i] = events[i]
  <2>1. /\ k \in 0..Len(events) /\ Len(batch') = k /\ batch' \in Seq(Ids)
        /\ \A i \in 1..k : batch'[i] = events[i]
    BY <1>1, <1>2, PrefixFacts
  <2>2. k \in {Len(events), MaxBatchSize}
    <3>1. Len(events) \in Int /\ MaxBatchSize \in Int
      BY <1>2, SizesAssumption
    <3>2. \E x \in {Len(events), MaxBatchSize} :
             \A y \in {Len(events), MaxBatchSize} : x <= y
      BY <3>1
    <3>. QED  BY <3>2 DEF Min
  <2>3. k # 0
    BY <1>2, <2>2, SizesAssumption
  <2>. HIDE DEF k
  <2>4. k \in 1..Len(events)
    BY <1>2, <2>1, <2>3
  <2>. QED  BY <2>1, <2>4
<1>. HIDE DEF k
<1>4. \A i \in 1..k : batch'[i] = next - 1 - Len(events) + i
  BY <1>2, <1>3 DEF OrderInv, Dense, Ends
<1>5. batch'[1] = next - Len(events)
  BY <1>2, <1>3, <1>4
<1>6. HandOrdered'
  <2>1. Len(batch') >= 1 /\ batch'[1] + Len(events') <= next'
    BY <1>1, <1>2, <1>3, <1>5
  <2>2. Ends(batch', batch'[1] + Len(batch') - 1)
    BY <1>2, <1>3, <1>4, <1>5 DEF Ends
  <2>. QED  BY <2>1, <2>2 DEF HandOrdered
<1>7. Range(batch') \subseteq Range(events)
  <2>1. DOMAIN batch' = 1..k /\ DOMAIN events = 1..Len(events)
    BY <1>2, <1>3
  <2>. QED  BY <1>2, <1>3, <2>1 DEF Range
<1>8. FilesBehind'
  <2>1. file = NoFile
    BY <1>1 DEF OrderInv, NoFileYet
  <2>. QED  BY <1>1, <1>7, <2>1 DEF OrderInv, FilesBehind, Older
<1>9. Dense' /\ NoFileYet' /\ FilesOrdered' /\ AllTracked'
  BY <1>1
  DEF OrderInv, Dense, NoFileYet, FilesOrdered, AllTracked, Tracked
<1>. QED  BY <1>6, <1>8, <1>9 DEF OrderInv

LEMMA OrderWriteBatch ==
    ASSUME OrderInv, LossInv', WriteBatch
    PROVE  OrderInv'
<1>. DEFINE new == [born |-> NewestBirth(disk) + 1, events |-> Range(batch)]
<1>0. PICK kept \in SUBSET disk : Wrote(kept)
  BY SomeKept
<1>1. /\ pc = "write" /\ pc' = "send"
      /\ \/ disk' = kept \cup {new} /\ file' = new
         \/ disk' = kept /\ file' = NoFile
      /\ waived' = waived \cup UNION {f.events : f \in disk \ kept}
      /\ UNCHANGED <<events, next, batch, stored, late>>
  BY <1>0 DEF Wrote, memory, world
<1>2. /\ kept \subseteq disk /\ new.events = Range(batch)
      /\ new.born = NewestBirth(disk) + 1
  OBVIOUS
<1>3. /\ \A f \in disk : f.born \in Nat /\ f.born < new.born
      /\ new.born \in Nat
  <2>1. \A f \in disk : f.born \in Nat
    BY DEF OrderInv, LossInv, TypeInv, TypeOK, File
  <2>2. /\ NewestBirth(disk) \in Nat
        /\ \A f \in disk : f.born <= NewestBirth(disk)
    BY <2>1, NewestBirthBounds DEF OrderInv, LossInv, TypeInv
  <2>. HIDE DEF new
  <2>. QED  BY <1>2, <2>1, <2>2
<1>. HIDE DEF new
<1>5. file = NoFile /\ InHand /\ InHand'
  BY <1>1 DEF OrderInv, NoFileYet, InHand
<1>6. \A f \in disk \ {NoFile} : /\ Older(f.events, Range(events))
                                 /\ Older(f.events, Range(batch))
  BY <1>5 DEF OrderInv, FilesBehind
<1>7. \A f \in disk : Older(f.events, new.events)
  BY <1>2, <1>6 DEF Older, NoFile
<1>8. FilesOrdered'
  <2>1. disk' \subseteq disk \cup {new}
    BY <1>1, <1>2
  <2>2. ASSUME NEW f \in disk \cup {new}, NEW g \in disk \cup {new}
        PROVE  /\ f.born < g.born => Older(f.events, g.events)
               /\ f.born = g.born => f = g
    <3>1. CASE f \in disk /\ g \in disk
      BY <3>1 DEF OrderInv, FilesOrdered
    <3>2. CASE f \in disk /\ g = new
      BY <1>3, <1>7, <3>2
    <3>3. CASE f = new /\ g \in disk
      BY <1>3, <3>3
    <3>4. CASE f = new /\ g = new
      BY <1>3, <3>4
    <3>. QED  BY <2>2, <3>1, <3>2, <3>3, <3>4
  <2>. QED  BY <2>1, <2>2 DEF FilesOrdered
<1>9. FilesBehind'
  <2>1. ASSUME NEW f \in disk' \ {file'}
        PROVE  /\ Older(f.events, Range(events))
               /\ Older(f.events, Range(batch))
    <3>1. f \in disk
      BY <1>1, <1>2, <2>1
    <3>. QED  BY <1>6, <3>1 DEF Older, NoFile
  <2>. QED  BY <1>1, <2>1 DEF FilesBehind
<1>10. AllTracked'
  <2>1. Range(batch) \subseteq Tracked
    BY <1>5, HandRange
  <2>2. UNION {f.events : f \in disk \ kept} \subseteq Tracked
    BY DEF OrderInv, AllTracked
  <2>. QED  BY <1>1, <1>2, <2>1, <2>2 DEF OrderInv, AllTracked, Tracked
<1>11. Dense' /\ HandOrdered' /\ NoFileYet'
  BY <1>1, <1>5 DEF OrderInv, Dense, HandOrdered, NoFileYet
<1>. QED  BY <1>8, <1>9, <1>10, <1>11 DEF OrderInv

(* The batch in hand, saved or answered, leaves the front of the queue.    *)
LEMMA OrderLeaves ==
    ASSUME OrderInv, LossInv', pc = "send", pc' \in {"take", "idle"},
           events' = WithoutBatch, file' = NoFile,
           disk' = disk \/ disk' = disk \ {file},
           waived' \in {waived, waived \cup Range(batch)},
           UNCHANGED <<next, stored, late>>
    PROVE  OrderInv'
<1>1. InHand /\ ~InHand'
  BY DEF InHand
<1>2. Dense'
  BY <1>1, RestRange DEF Dense
<1>3. HandOrdered' /\ NoFileYet' /\ FilesOrdered'
  BY <1>1 DEF HandOrdered, NoFileYet, FilesOrdered, OrderInv
<1>4. FilesBehind'
  <2>1. ASSUME NEW f \in disk, f # NoFile
        PROVE  Older(f.events, Range(WithoutBatch))
    <3>1. CASE f = file
      <4>1. f.events = Range(batch)
        BY <2>1, <3>1 DEF OrderInv, LossInv, FileOK
      <4>. QED  BY <1>1, <4>1, RestRange
    <3>2. CASE f # file
      <4>1. Older(f.events, Range(events))
        BY <3>2 DEF OrderInv, FilesBehind
      <4>. QED  BY <1>1, <4>1, RestRange DEF Older
    <3>. QED  BY <3>1, <3>2
  <2>. QED  BY <1>1, <2>1 DEF FilesBehind
<1>5. AllTracked'
  BY <1>1, HandRange DEF OrderInv, AllTracked, Tracked
<1>. QED  BY <1>2, <1>3, <1>4, <1>5 DEF OrderInv

LEMMA OrderBatchAnswered ==
    ASSUME OrderInv, LossInv', BatchAnswered
    PROVE  OrderInv'
BY OrderLeaves DEF BatchAnswered, world

LEMMA OrderBatchFailed ==
    ASSUME OrderInv, LossInv', BatchFailed
    PROVE  OrderInv'
<1>1. CASE file # NoFile
  BY <1>1, OrderLeaves DEF BatchFailed, world
<1>2. CASE file = NoFile
  BY <1>2
  DEF BatchFailed, world, OrderInv, Dense, HandOrdered, NoFileYet,
      FilesOrdered, FilesBehind, AllTracked, Tracked, InHand
<1>. QED  BY <1>1, <1>2

LEMMA OrderCrash ==
    ASSUME OrderInv, LossInv', Crash
    PROVE  OrderInv'
<1>1. /\ pc' = "idle" /\ events' = <<>> /\ file' = NoFile
      /\ late' \in Abandoned
      /\ waived' = waived \cup (Range(events) \ OnDisk)
      /\ UNCHANGED <<next, stored, disk>>
  BY DEF Crash
<1>2. Range(events) \subseteq Tracked
  BY QueueRange DEF OrderInv, LossInv
<1>3. late' \subseteq SUBSET Tracked
  BY <1>1, AbandonedTracked
<1>4. AllTracked'
  BY <1>1, <1>2, <1>3 DEF OrderInv, AllTracked, Tracked
<1>5. Range(<<>>) = {}
  BY DEF Range
<1>6. Dense' /\ HandOrdered' /\ NoFileYet' /\ FilesOrdered' /\ FilesBehind'
  BY <1>1, <1>5
  DEF OrderInv, Dense, Ends, HandOrdered, NoFileYet, FilesOrdered,
      FilesBehind, Older, InHand
<1>. QED  BY <1>4, <1>6 DEF OrderInv

LEMMA OrderNext == OrderInv /\ [Next]_vars => OrderInv'
<1>. SUFFICES ASSUME OrderInv, [Next]_vars
              PROVE  OrderInv'
  OBVIOUS
<1>1. LossInv'
  BY LossNext DEF OrderInv
<1>2. ASSUME UNCHANGED <<next, stored, disk, waived>>,
             late' \subseteq SUBSET Tracked
      PROVE  AllTracked'
  BY <1>2 DEF OrderInv, AllTracked, Tracked
<1>3. late \subseteq SUBSET Tracked
  BY DEF OrderInv, AllTracked
<1>4. CASE RequestFlush
  BY <1>1, <1>2, <1>3, <1>4, OrderQuiet
  DEF RequestFlush, InHand, worker, world
<1>5. CASE StartFlush
  BY <1>1, <1>2, <1>3, <1>5, OrderQuiet DEF StartFlush, InHand, world
<1>6. CASE Send
  BY <1>1, <1>2, <1>3, <1>6, OrderQuiet DEF Send, InHand, memory, world
<1>7. CASE ResendEnds
  BY <1>1, <1>2, <1>3, <1>7, OrderQuiet DEF ResendEnds, InHand, memory, world
<1>8. CASE QueueDrained
  BY <1>1, <1>2, <1>3, <1>8, OrderQuiet
  DEF QueueDrained, InHand, memory, world
<1>9. CASE Accept
  <2>1. Payload \subseteq Tracked
    BY <1>9, PayloadTracked DEF Accept
  <2>2. AllTracked'
    BY <1>9, <2>1 DEF Accept, OrderInv, AllTracked, Tracked, memory
  <2>. QED  BY <1>1, <1>9, <2>2, OrderQuiet DEF Accept, InHand, memory
<1>10. CASE Refuse
  BY <1>1, <1>2, <1>3, <1>10, OrderQuiet DEF Refuse, InHand, memory, world
<1>11. CASE Fail
  <2>1. late' \subseteq SUBSET Tracked
    BY <1>11, AbandonedTracked DEF Fail
  <2>. QED  BY <1>1, <1>2, <1>11, <2>1, OrderQuiet DEF Fail, InHand, memory
<1>12. ASSUME NEW payload \in late, AcceptLate(payload)
       PROVE  OrderInv'
  <2>1. AllTracked'
    BY <1>12
    DEF AcceptLate, OrderInv, AllTracked, Tracked, memory
  <2>. QED  BY <1>1, <1>12, <2>1, OrderQuiet
            DEF AcceptLate, InHand, memory, worker
<1>13. CASE TransportChanges
  BY <1>1, <1>2, <1>3, <1>13, OrderQuiet
  DEF TransportChanges, InHand, memory, worker
<1>14. CASE PathChanges
  BY <1>1, <1>2, <1>3, <1>14, OrderQuiet DEF PathChanges, InHand, worker
<1>15. CASE UNCHANGED vars
  BY <1>1, <1>2, <1>3, <1>15, OrderQuiet
  DEF vars, InHand, memory, worker, world
<1>. QED
  BY <1>1, OrderEnqueue, OrderResendAnswered, OrderTakeBatch,
     OrderWriteBatch, OrderBatchAnswered, OrderBatchFailed, OrderCrash,
     <1>4, <1>5, <1>6, <1>7, <1>8, <1>9, <1>10, <1>11, <1>12, <1>13, <1>14,
     <1>15
  DEF Next, FlushSync, Server

LEMMA OrderInvariant == Spec => []OrderInv
BY OrderInit, OrderNext, PTL DEF Spec

(* Files by creation date and then memory hold the events in the order in  *)
(* which they were tracked, none twice but for the batch in hand, for any  *)
(* sizes of queue, batch and disk and whatever fails or overflows.         *)
THEOREM KeptInOrder == Spec => []OldestFirst
<1>1. OrderInv => OldestFirst
  <2>. SUFFICES ASSUME OrderInv
                PROVE  OldestFirst
    OBVIOUS
  <2>1. events \in Seq(Ids) /\ next \in Nat
    BY DEF OrderInv, LossInv, TypeInv, TypeOK
  <2>2. \A i, j \in 1..Len(events) : i < j => events[i] < events[j]
    BY <2>1 DEF OrderInv, Dense, Ends
  <2>3. DOMAIN events = 1..Len(events)
    BY <2>1
  <2>. QED  BY <2>2, <2>3 DEF OrderInv, FilesOrdered, FilesBehind, OldestFirst
<1>. QED  BY <1>1, OrderInvariant, PTL

(* What was answered for good has left the device for good: no other file  *)
(* and no place in memory holds it.                                        *)
THEOREM AnsweredForgotten == Spec => AnsweredLeaves
<1>1. ASSUME OrderInv, OrderInv', [Next]_vars,
             request \in {"accepted", "refused"}, request' = "none",
             crashes' = crashes
      PROVE  Payload \cap Held' = {}
  <2>1. crashes \in Nat
    BY <1>1 DEF OrderInv, LossInv, TypeInv, TypeOK
  <2>2. ResendAnswered \/ BatchAnswered
    <3>1. ~ Crash
      BY <1>1, <2>1 DEF Crash
    <3>2. ~ UNCHANGED request
      BY <1>1
    <3>. QED
      BY <1>1, <3>1, <3>2
      DEF Next, FlushSync, Server, Enqueue, RequestFlush, StartFlush, Send,
          ResendEnds, TakeBatch, QueueDrained, WriteBatch, BatchFailed,
          Accept, Refuse, Fail, AcceptLate, TransportChanges, PathChanges,
          vars, memory, worker
  <2>3. \A f \in disk : f.events \subseteq Nat /\ f.born \in Nat
    BY <1>1 DEF OrderInv, LossInv, TypeInv, TypeOK, File, Ids
  <2>4. CASE ResendAnswered
    <3>. DEFINE sent == Oldest(loaded)
    <3>1. /\ pc = "resend" /\ loaded # {} /\ loaded \subseteq disk
          /\ disk' = disk \ {sent} /\ events' = events
      BY <1>1, <2>4
      DEF ResendAnswered, OrderInv, LossInv, TypeInv, TypeOK, memory
    <3>2. sent \in disk /\ Payload = sent.events
      BY <2>3, <3>1, OldestExists DEF Payload
    <3>3. file = NoFile
      BY <1>1, <3>1 DEF OrderInv, NoFileYet
    <3>. HIDE DEF sent
    <3>4. sent.events \cap Range(events) = {}
      <4>1. CASE sent = NoFile
        BY <4>1 DEF NoFile
      <4>2. CASE sent # NoFile
        <5>1. Older(sent.events, Range(events))
          BY <1>1, <3>2, <3>3, <4>2 DEF OrderInv, FilesBehind
        <5>2. \A x \in sent.events : ~(x < x)
          BY <2>3, <3>2
        <5>. QED  BY <5>1, <5>2 DEF Older
      <4>. QED  BY <4>1, <4>2
    <3>5. ASSUME NEW f \in disk, f # sent
          PROVE  sent.events \cap f.events = {}
      <4>1. f.born < sent.born \/ sent.born < f.born
        BY <1>1, <2>3, <3>2, <3>5 DEF OrderInv, FilesOrdered
      <4>2. Older(f.events, sent.events) \/ Older(sent.events, f.events)
        BY <1>1, <3>2, <3>5, <4>1 DEF OrderInv, FilesOrdered
      <4>3. \A x \in sent.events : ~(x < x)
        BY <2>3, <3>2
      <4>. QED  BY <4>2, <4>3 DEF Older
    <3>. QED  BY <3>1, <3>2, <3>4, <3>5 DEF Held, OnDisk
  <2>5. CASE BatchAnswered
    <3>1. /\ pc = "send" /\ InHand /\ disk' = disk \ {file}
          /\ events' = WithoutBatch /\ Payload = Range(batch)
      BY <2>5 DEF BatchAnswered, InHand, Payload
    <3>2. Range(batch) \subseteq Nat
      BY <1>1, <3>1, HandRange DEF Tracked
    <3>3. \A x \in Range(batch) : ~(x < x)
      BY <3>2
    <3>4. Range(batch) \cap Range(WithoutBatch) = {}
      BY <1>1, <3>1, <3>3, RestRange DEF Older
    <3>5. ASSUME NEW f \in disk \ {file}
          PROVE  Range(batch) \cap f.events = {}
      BY <1>1, <3>1, <3>3, <3>5 DEF OrderInv, FilesBehind, Older
    <3>. QED  BY <3>1, <3>4, <3>5 DEF Held, OnDisk
  <2>. QED  BY <2>2, <2>4, <2>5
<1>2. OrderInv /\ OrderInv' /\ [Next]_vars
         => [(/\ request \in {"accepted", "refused"} /\ request' = "none"
              /\ crashes' = crashes)
             => Payload \cap Held' = {}]_vars
  BY <1>1
<1>. QED  BY <1>2, OrderInvariant, PTL DEF AnsweredLeaves, Spec

-----------------------------------------------------------------------------
(* The damage of overruns.  Each overflow under a batch shifts the queue by*)
(* one place against the batch in hand, and removeFirst then takes as many *)
(* unsent events as the queue was shifted.                                 *)
Shift == IF InHand THEN next - Len(events) - batch[1] ELSE 0

Skipped == Range(events) \ (Range(batch) \cup Range(WithoutBatch))

DamageInv == OrderInv /\ Cardinality(Missing) + Shift <= overruns

LEMMA ShiftType == OrderInv => Shift \in Nat
<1>1. CASE InHand
  BY <1>1, HandRange, QueueRange DEF OrderInv, LossInv, Shift
<1>2. CASE ~InHand
  BY <1>2 DEF Shift
<1>. QED  BY <1>1, <1>2

LEMMA ShiftTypes ==
    /\ OrderInv => Shift \in Nat
    /\ OrderInv' => (Shift \in Nat)'
BY ShiftType, PTL

LEMMA SkippedCount ==
    ASSUME OrderInv, InHand
    PROVE  IsFiniteSet(Skipped) /\ Cardinality(Skipped) <= Shift
<1>. DEFINE b == batch[1]
            k == Len(batch)
            n == next - Len(events)
<1>1. /\ k \in Nat \ {0} /\ b \in Nat /\ n \in Nat /\ b <= n
      /\ next \in Nat /\ Range(events) = n..(next - 1)
      /\ Range(batch) = b..(b + k - 1)
      /\ Range(WithoutBatch) = (n + k)..(next - 1)
  BY HandRange, QueueRange, RestRange DEF OrderInv, LossInv
<1>2. Shift = n - b
  BY DEF Shift
<1>. HIDE DEF b, k, n
<1>3. Skipped \subseteq (b + k)..(n + k - 1)
  BY <1>1 DEF Skipped
<1>4. /\ IsFiniteSet((b + k)..(n + k - 1))
      /\ Cardinality((b + k)..(n + k - 1)) = n - b
  <2>1. b + k \in Int /\ n + k - 1 \in Int
    BY <1>1
  <2>2. /\ IsFiniteSet((b + k)..(n + k - 1))
        /\ Cardinality((b + k)..(n + k - 1))
             = IF b + k > n + k - 1 THEN 0 ELSE (n + k - 1) - (b + k) + 1
    BY <2>1, FS_Interval
  <2>. QED  BY <1>1, <2>2
<1>5. IsFiniteSet(Skipped) /\ Cardinality(Skipped) <= n - b
  BY <1>3, <1>4, FS_Subset
<1>. QED  BY <1>2, <1>5

LEMMA MissingFinite ==
    ASSUME OrderInv
    PROVE  IsFiniteSet(Missing) /\ Cardinality(Missing) \in Nat
<1>1. next - 1 \in Int
  BY DEF OrderInv, LossInv, TypeInv, TypeOK
<1>2. IsFiniteSet(Tracked)
  BY <1>1, FS_Interval DEF Tracked
<1>3. Missing \subseteq Tracked
  BY DEF Missing
<1>. QED  BY <1>2, <1>3, FS_Subset, FS_CardinalityType

(* A step that lets go of the events of S only, unless the server has them *)
(* or a rule waives them, adds at most those to what is missing.           *)
LetsGo(S) == /\ stored \subseteq stored' /\ waived \subseteq waived'
             /\ Tracked' \subseteq Tracked \cup Held' \cup waived'
             /\ Held \subseteq Held' \cup stored' \cup waived' \cup S

LEMMA DamageBy ==
    ASSUME DamageInv, OrderInv', NEW S, IsFiniteSet(S), LetsGo(S),
           Cardinality(S) + Shift' + overruns <= Shift + overruns'
    PROVE  DamageInv'
<1>1. Missing' \subseteq Missing \cup S
  BY DEF LetsGo, Missing
<1>2. /\ IsFiniteSet(Missing) /\ Cardinality(Missing) \in Nat
      /\ Cardinality(S) \in Nat
  BY MissingFinite, FS_CardinalityType DEF DamageInv
<1>3. /\ IsFiniteSet(Missing \cup S)
      /\ Cardinality(Missing \cup S)
           = Cardinality(Missing) + Cardinality(S)
             - Cardinality(Missing \cap S)
  BY <1>2, FS_Union
<1>4. Cardinality(Missing \cap S) \in Nat
  BY <1>2, FS_Subset, FS_CardinalityType
<1>5. Cardinality(Missing') <= Cardinality(Missing \cup S)
  BY <1>1, <1>3, FS_Subset
<1>6. Cardinality(Missing') \in Nat /\ Cardinality(Missing \cup S) \in Nat
  BY <1>1, <1>3, FS_Subset, FS_CardinalityType
<1>7. /\ Shift \in Nat /\ (Shift \in Nat)'
      /\ overruns \in Nat /\ overruns' \in Nat
  BY ShiftTypes DEF DamageInv, OrderInv, LossInv, TypeInv, TypeOK
<1>8. Cardinality(Missing') + Shift' <= overruns'
  BY <1>2, <1>3, <1>4, <1>5, <1>6, <1>7 DEF DamageInv
<1>. QED  BY <1>8 DEF DamageInv

(* ... and one that lets go of none is paid for if the batch in hand goes, *)
(* or is shifted no further than overruns are counted.                     *)
LosesNone == LetsGo({})

Paid == \/ Shift' + overruns = Shift + overruns'
        \/ overruns' = overruns /\ Shift' \in {0, Shift}

LEMMA DamageNone ==
    ASSUME DamageInv, OrderInv', LosesNone, Paid
    PROVE  DamageInv'
<1>1. Missing' \subseteq Missing
  BY DEF LosesNone, LetsGo, Missing
<1>2. IsFiniteSet(Missing) /\ Cardinality(Missing) \in Nat
  BY MissingFinite DEF DamageInv
<1>3. /\ Cardinality(Missing') <= Cardinality(Missing)
      /\ Cardinality(Missing') \in Nat
  BY <1>1, <1>2, FS_Subset, FS_CardinalityType
<1>4. /\ Shift \in Nat /\ (Shift \in Nat)'
      /\ overruns \in Nat /\ overruns' \in Nat
  BY ShiftTypes DEF DamageInv, OrderInv, LossInv, TypeInv, TypeOK
<1>5. Cardinality(Missing') + Shift' <= overruns'
  BY <1>2, <1>3, <1>4 DEF DamageInv, Paid
<1>. QED  BY <1>5 DEF DamageInv

LEMMA LetsGoEnqueue ==
    ASSUME OrderInv, Enqueue
    PROVE  LosesNone /\ Paid
<1>. DEFINE queued == Append(events, next)
            kept   == KeepNewest(queued)
<1>1. /\ next \in Ids /\ queued \in Seq(Ids)
      /\ Len(queued) = Len(events) + 1
      /\ Len(events) \in Nat /\ next \in Nat
      /\ Range(queued) = Range(events) \cup {next}
  <2>1. next \in Ids /\ events \in Seq(Ids)
    BY DEF Enqueue, OrderInv, LossInv, TypeInv, TypeOK, Ids
  <2>2. next \in Nat /\ Len(events) \in Nat
    BY <2>1 DEF Ids
  <2>3. Range(queued) = Range(events) \cup {next}
    BY <2>1, AppendRange
  <2>4. queued \in Seq(Ids) /\ Len(queued) = Len(events) + 1
    BY <2>1, AppendProperties
  <2>. QED  BY <2>1, <2>2, <2>3, <2>4
<1>2. Len(kept) \in Nat
  BY <1>1, KeepNewestFacts
<1>3. /\ events' = kept
      /\ next' = next + 1
      /\ waived' = waived \cup ((Range(queued) \ Range(kept)) \ OnDisk)
      /\ overruns' = IF InHand THEN overruns + (Len(queued) - Len(kept))
                                ELSE overruns
      /\ UNCHANGED <<worker, world, disk>>
  BY DEF Enqueue
<1>. HIDE DEF queued, kept
<1>4. overruns \in Nat
  BY DEF OrderInv, LossInv, TypeInv, TypeOK
<1>5. Shift' + overruns = Shift + overruns'
  <2>1. CASE InHand
    <3>1. InHand' /\ batch' = batch /\ batch[1] \in Nat
      BY <1>3, <2>1, HandRange DEF InHand, worker
    <3>. QED  BY <1>1, <1>2, <1>3, <1>4, <2>1, <3>1 DEF Shift
  <2>2. CASE ~InHand
    BY <1>3, <1>4, <2>2 DEF Shift, InHand, worker
  <2>. QED  BY <2>1, <2>2
<1>6. Held \cup {next} \subseteq Held' \cup waived'
  BY <1>1, <1>3 DEF Held, OnDisk
<1>7. Tracked' \subseteq Tracked \cup {next}
  BY <1>1, <1>3 DEF Tracked
<1>8. stored' = stored /\ waived \subseteq waived'
  BY <1>3 DEF world
<1>. QED  BY <1>5, <1>6, <1>7, <1>8 DEF LosesNone, LetsGo, Paid

LEMMA LetsGoResend ==
    ASSUME OrderInv, ResendAnswered
    PROVE  LosesNone /\ Paid
<1>. DEFINE sent == Oldest(loaded)
<1>1. /\ pc = "resend" /\ pc' = pc
      /\ disk' = disk \ {sent}
      /\ request = "accepted" => sent.events \subseteq stored
      /\ request = "refused" => waived' = waived \cup sent.events
      /\ request \in {"accepted", "refused"} /\ waived \subseteq waived'
      /\ UNCHANGED <<events, next, batch, stored, overruns>>
  BY DEF ResendAnswered, OrderInv, LossInv, AnswerOK, Payload, memory, world
<1>. HIDE DEF sent
<1>2. OnDisk \subseteq OnDisk' \cup sent.events
  BY <1>1 DEF OnDisk
<1>3. Shift' = Shift
  BY <1>1 DEF Shift, InHand
<1>. QED  BY <1>1, <1>2, <1>3 DEF LosesNone, LetsGo, Held, Tracked, Paid

LEMMA LetsGoWrite ==
    ASSUME OrderInv, WriteBatch
    PROVE  LosesNone /\ Paid
<1>0. PICK kept \in SUBSET disk : Wrote(kept)
  BY SomeKept
<1>1. /\ pc = "write" /\ pc' = "send" /\ kept \subseteq disk'
      /\ waived' = waived \cup UNION {f.events : f \in disk \ kept}
      /\ UNCHANGED <<events, next, batch, stored, overruns>>
  BY <1>0 DEF Wrote, memory, world
<1>2. OnDisk \subseteq OnDisk' \cup waived'
  BY <1>1 DEF OnDisk
<1>3. Shift' = Shift
  BY <1>1 DEF Shift, InHand
<1>. QED  BY <1>1, <1>2, <1>3 DEF LosesNone, LetsGo, Held, Tracked, Paid

(* removeFirst(batch.count) takes the batch, and what had moved to its     *)
(* place.                                                                  *)
LEMMA LetsGoAnswered ==
    ASSUME OrderInv, BatchAnswered
    PROVE  LetsGo(Skipped) /\ InHand /\ Shift' = 0 /\ overruns' = overruns
<1>1. /\ pc = "send" /\ pc' = "take" /\ request \in {"accepted", "refused"}
      /\ events' = WithoutBatch /\ disk' = disk \ {file}
      /\ request = "refused" => waived' = waived \cup Range(batch)
      /\ request = "accepted" => Range(batch) \subseteq stored
      /\ waived \subseteq waived'
      /\ UNCHANGED <<next, stored, overruns>>
  BY DEF BatchAnswered, OrderInv, LossInv, AnswerOK, Payload, world
<1>2. Range(batch) \subseteq stored' \cup waived'
  BY <1>1
<1>3. OnDisk \subseteq OnDisk' \cup Range(batch)
  <2>1. file.events \subseteq Range(batch)
    BY <1>1 DEF OrderInv, LossInv, FileOK, NoFile
  <2>. QED  BY <1>1, <2>1 DEF OnDisk
<1>4. Range(events) \subseteq Range(events') \cup Range(batch) \cup Skipped
  BY <1>1 DEF Skipped
<1>. QED  BY <1>1, <1>2, <1>3, <1>4 DEF LetsGo, Held, Tracked, Shift, InHand

LEMMA LetsGoFailed ==
    ASSUME OrderInv, BatchFailed
    PROVE  LetsGo(Skipped) /\ InHand /\ Shift' = 0 /\ overruns' = overruns
<1>1. /\ pc = "send" /\ pc' = "idle"
      /\ events' = IF file # NoFile THEN WithoutBatch ELSE events
      /\ UNCHANGED <<next, stored, disk, waived, overruns>>
  BY DEF BatchFailed, world
<1>2. Held \subseteq Held' \cup Skipped
  <2>1. CASE file = NoFile
    BY <1>1, <2>1 DEF Held, OnDisk
  <2>2. CASE file # NoFile
    <3>1. Range(batch) \subseteq OnDisk
      BY <1>1, <2>2 DEF OrderInv, LossInv, FileOK, OnDisk
    <3>2. Range(events) \subseteq Range(events') \cup Range(batch) \cup Skipped
      BY <1>1, <2>2 DEF Skipped
    <3>. QED  BY <1>1, <3>1, <3>2 DEF Held, OnDisk
  <2>. QED  BY <2>1, <2>2
<1>. QED  BY <1>1, <1>2 DEF LetsGo, Tracked, Shift, InHand

(* The other steps keep hold of every event, and take no batch in hand.    *)
LEMMA LetsGoQuiet ==
    ASSUME UNCHANGED <<events, next, batch, disk, waived, overruns>>,
           stored \subseteq stored', InHand' => InHand
    PROVE  LosesNone /\ Paid
<1>1. Shift' \in {0, Shift}
  BY DEF Shift
<1>. QED  BY <1>1 DEF LosesNone, LetsGo, Held, OnDisk, Tracked, Paid

LEMMA DamageInit == Init => DamageInv
<1>. SUFFICES ASSUME Init
              PROVE  DamageInv
  OBVIOUS
<1>1. Missing = {} /\ Shift = 0 /\ overruns = 0
  BY DEF Init, Missing, Tracked, Shift, InHand
<1>. QED  BY <1>1, OrderInit, FS_EmptySet DEF DamageInv

LEMMA DamageNext == DamageInv /\ [Next]_vars => DamageInv'
<1>. SUFFICES ASSUME DamageInv, [Next]_vars
              PROVE  DamageInv'
  OBVIOUS
<1>1. OrderInv /\ OrderInv'
  BY OrderNext DEF DamageInv
<1>2. ASSUME LosesNone, Paid
      PROVE  DamageInv'
  BY <1>1, <1>2, DamageNone
<1>3. ASSUME LetsGo(Skipped), InHand, Shift' = 0, overruns' = overruns
      PROVE  DamageInv'
  <2>1. IsFiniteSet(Skipped) /\ Cardinality(Skipped) <= Shift
    BY <1>1, <1>3, SkippedCount
  <2>2. Cardinality(Skipped) \in Nat /\ Shift \in Nat /\ overruns \in Nat
    BY <1>1, <2>1, ShiftType, FS_CardinalityType
    DEF OrderInv, LossInv, TypeInv, TypeOK
  <2>3. Cardinality(Skipped) + Shift' + overruns <= Shift + overruns'
    BY <1>3, <2>1, <2>2
  <2>. QED  BY <1>1, <1>3, <2>1, <2>3, DamageBy
<1>5. CASE Enqueue
  BY <1>1, <1>2, <1>5, LetsGoEnqueue
<1>6. CASE ResendAnswered
  BY <1>1, <1>2, <1>6, LetsGoResend
<1>7. CASE WriteBatch
  BY <1>1, <1>2, <1>7, LetsGoWrite
<1>8. CASE BatchAnswered
  BY <1>1, <1>3, <1>8, LetsGoAnswered
<1>9. CASE BatchFailed
  BY <1>1, <1>3, <1>9, LetsGoFailed
<1>10. CASE TakeBatch
  <2>1. /\ UNCHANGED <<events, next, disk, waived, stored, overruns>>
        /\ InHand' /\ ~InHand
        /\ events # <<>>
    BY <1>10 DEF TakeBatch, InHand, memory, world
  <2>2. LosesNone
    BY <2>1 DEF LosesNone, LetsGo, Held, OnDisk, Tracked
  <2>3. batch'[1] = next - Len(events)
    <3>. DEFINE k == Min({Len(events), MaxBatchSize})
    <3>1. events \in Seq(Ids) /\ batch' = SubSeq(events, 1, k)
      BY <1>1, <1>10 DEF TakeBatch, OrderInv, LossInv, TypeInv, TypeOK
    <3>2. k \in 0..Len(events) /\ Len(batch') = k
          /\ \A i \in 1..k : batch'[i] = events[i]
      BY <3>1, PrefixFacts
    <3>3. Len(batch') >= 1
      BY <1>1, <2>1 DEF OrderInv, HandOrdered
    <3>. HIDE DEF k
    <3>4. 1 \in 1..Len(events) /\ batch'[1] = events[1]
      BY <3>1, <3>2, <3>3
    <3>5. events[1] = (next - 1) - Len(events) + 1
      BY <1>1, <3>4 DEF OrderInv, Dense, Ends
    <3>6. next \in Nat /\ Len(events) \in Nat
      BY <1>1, <3>1 DEF OrderInv, LossInv, TypeInv, TypeOK
    <3>. QED  BY <3>4, <3>5, <3>6
  <2>4. Shift' = 0
    <3>1. next \in Nat /\ Len(events) \in Nat
      BY <1>1 DEF OrderInv, LossInv, TypeInv, TypeOK
    <3>. QED  BY <2>1, <2>3, <3>1 DEF Shift
  <2>. QED  BY <1>2, <2>1, <2>2, <2>4 DEF Paid
<1>11. CASE Crash
  <2>1. Range(events) \cup OnDisk \subseteq OnDisk' \cup waived'
    BY <1>11 DEF Crash, OnDisk
  <2>2. LosesNone /\ Shift' = 0 /\ overruns' = overruns
    BY <1>11, <2>1
    DEF Crash, LosesNone, LetsGo, Held, OnDisk, Tracked, Shift, InHand
  <2>. QED  BY <1>2, <2>2 DEF Paid
<1>12. ASSUME UNCHANGED <<events, next, batch, disk, waived, overruns>>,
              stored \subseteq stored', InHand' => InHand
       PROVE  DamageInv'
  BY <1>2, <1>12, LetsGoQuiet
<1>13. CASE RequestFlush
  BY <1>12, <1>13 DEF RequestFlush, InHand, worker, world
<1>14. CASE StartFlush
  BY <1>12, <1>14 DEF StartFlush, InHand, world
<1>15. CASE Send
  BY <1>12, <1>15 DEF Send, InHand, memory, world
<1>16. CASE ResendEnds
  BY <1>12, <1>16 DEF ResendEnds, InHand, memory, world
<1>17. CASE QueueDrained
  BY <1>12, <1>17 DEF QueueDrained, InHand, memory, world
<1>18. CASE Accept
  BY <1>12, <1>18 DEF Accept, InHand, memory
<1>19. CASE Refuse
  BY <1>12, <1>19 DEF Refuse, InHand, memory, world
<1>20. CASE Fail
  BY <1>12, <1>20 DEF Fail, InHand, memory
<1>21. ASSUME NEW payload \in late, AcceptLate(payload)
       PROVE  DamageInv'
  BY <1>12, <1>21 DEF AcceptLate, InHand, memory, worker
<1>22. CASE TransportChanges
  BY <1>12, <1>22 DEF TransportChanges, InHand, memory, worker
<1>23. CASE PathChanges
  BY <1>12, <1>23 DEF PathChanges, InHand, worker
<1>24. CASE UNCHANGED vars
  BY <1>12, <1>24 DEF vars, InHand, memory, worker, world
<1>. QED
  BY <1>5, <1>6, <1>7, <1>8, <1>9, <1>10, <1>11, <1>13, <1>14, <1>15,
     <1>16, <1>17, <1>18, <1>19, <1>20, <1>21, <1>22, <1>23, <1>24
  DEF Next, FlushSync, Server

LEMMA DamageInvariant == Spec => []DamageInv
BY DamageInit, DamageNext, PTL DEF Spec

(* However the queue overflows under batches in hand, no more events vanish*)
(* than there were such overflows.                                         *)
THEOREM DamageBounded == Spec => []LossBounded
<1>1. DamageInv => LossBounded
  <2>. SUFFICES ASSUME DamageInv
                PROVE  Cardinality(Missing) <= overruns
    BY DEF LossBounded
  <2>1. /\ Shift \in Nat /\ Cardinality(Missing) \in Nat /\ overruns \in Nat
        /\ Cardinality(Missing) + Shift <= overruns
    BY ShiftType, MissingFinite
    DEF DamageInv, OrderInv, LossInv, TypeInv, TypeOK
  <2>. QED  BY <2>1
<1>. QED  BY <1>1, DamageInvariant, PTL

-----------------------------------------------------------------------------
(* The outbox.  Without an overrun every step of the pipeline tracks one   *)
(* event, stores events the device has or gave up, forgets events that are *)
(* stored or waived, or is none of the outbox's concern.                   *)

LEMMA ForgetStep ==
    ASSUME NEW W, W \subseteq Held, Held' \subseteq Held,
           Held \subseteq Held' \cup stored \cup W,
           waived' = waived \cup W, stored' = stored
    PROVE  Abstract!Next
<1>1. Abstract!Forget(Held \ Held', W)
  BY DEF Abstract!Forget
<1>2. Held \ Held' \in SUBSET Held /\ W \in SUBSET Held
  OBVIOUS
<1>. QED  BY <1>1, <1>2 DEF Abstract!Next

LEMMA ForgetStored ==
    ASSUME Held' \subseteq Held, Held \subseteq Held' \cup stored,
           waived' = waived, stored' = stored
    PROVE  Abstract!Next
<1>1. Abstract!Forget(Held \ Held', {})
  BY DEF Abstract!Forget
<1>2. Held \ Held' \in SUBSET Held /\ {} \in SUBSET Held
  OBVIOUS
<1>. QED  BY <1>1, <1>2 DEF Abstract!Next

LEMMA StoreStep ==
    ASSUME DamageInv, overruns = 0, NEW P, P \subseteq Tracked,
           stored' = stored \cup P, waived' = waived, Held' = Held
    PROVE  Abstract!Next
<1>1. Tracked \subseteq Held \cup stored \cup waived
  BY DEF DamageInv, OrderInv, LossInv, Accounted
<1>2. P \ stored \in SUBSET (Held \cup waived)
  BY <1>1
<1>3. Abstract!Store(P \ stored)
  BY DEF Abstract!Store
<1>. QED  BY <1>2, <1>3 DEF Abstract!Next

LEMMA TrackStep ==
    ASSUME DamageInv, Enqueue, overruns' = 0
    PROVE  Abstract!Next
<1>. DEFINE queued == Append(events, next)
            kept   == KeepNewest(queued)
<1>1. /\ next \in Ids /\ events \in Seq(Ids) /\ queued \in Seq(Ids)
      /\ Len(queued) = Len(events) + 1 /\ Len(events) \in Nat
      /\ Range(queued) = Range(events) \cup {next}
      /\ next \in Nat \ {0} /\ next \notin Tracked
  <2>1. next \in Ids /\ events \in Seq(Ids)
    BY DEF Enqueue, DamageInv, OrderInv, LossInv, TypeInv, TypeOK, Ids
  <2>2. next \in Nat \ {0} /\ Len(events) \in Nat /\ next \notin Tracked
    BY <2>1 DEF Ids, Tracked
  <2>3. Range(queued) = Range(events) \cup {next}
    BY <2>1, AppendRange
  <2>4. queued \in Seq(Ids) /\ Len(queued) = Len(events) + 1
    BY <2>1, AppendProperties
  <2>. QED  BY <2>1, <2>2, <2>3, <2>4
<1>2. /\ events' = kept
      /\ next' = next + 1
      /\ waived' = waived \cup ((Range(queued) \ Range(kept)) \ OnDisk)
      /\ UNCHANGED <<stored, disk>>
  BY DEF Enqueue, world
<1>3. /\ Range(events) = (next - Len(events))..(next - 1)
      /\ Range(events) \subseteq Tracked
      /\ OnDisk \subseteq Tracked /\ stored \subseteq Tracked
      /\ waived \subseteq Tracked
  BY QueueRange
  DEF DamageInv, OrderInv, LossInv, AllTracked, OnDisk
<1>4. next \notin Held \cup stored \cup waived
  BY <1>1, <1>3 DEF Held
<1>5. /\ kept \in Seq(Ids)
      /\ Len(kept) = Len(queued) => Range(kept) = Range(queued)
      /\ \/ Len(kept) = Len(queued)
         \/ Len(kept) = Len(queued) - 1 /\ Len(kept) >= 1
  <2>1. kept \in Seq(Ids)
    BY <1>1, KeepNewestFacts
  <2>2. CASE Len(queued) <= MaxQueueSize
    BY <1>1, <2>1, <2>2, KeepNewestFacts
  <2>3. CASE Len(queued) > MaxQueueSize
    <3>1. Len(kept) = MaxQueueSize
      BY <1>1, <2>3, KeepNewestFacts
    <3>2. Len(events) <= MaxQueueSize
      BY DEF DamageInv, OrderInv, LossInv, TypeInv, TypeOK
    <3>. HIDE DEF queued, kept
    <3>. QED  BY <1>1, <2>1, <2>3, <3>1, <3>2, SizesAssumption
  <2>. QED  BY <1>1, <2>2, <2>3, SizesAssumption
<1>6. Range(kept) = (next - Len(kept) + 1)..next
  <2>1. OrderInv'
    BY OrderNext DEF DamageInv, Next
  <2>2. (TypeInv /\ Dense)'
    BY <2>1 DEF OrderInv, LossInv
  <2>3. Ends(kept, next)
    <3>1. next' - 1 = next
      BY <1>1, <1>2
    <3>. QED  BY <1>2, <2>2, <3>1 DEF Dense
  <2>. QED  BY <1>1, <1>5, <2>3, EndsRange
<1>. HIDE DEF queued, kept
<1>7. CASE Len(kept) = Len(queued)
  <2>1. Held' = Held \cup {next} /\ waived' = waived
    BY <1>1, <1>2, <1>5, <1>7 DEF Held, OnDisk
  <2>2. Abstract!Track(next)
    BY <1>2, <1>4, <2>1 DEF Abstract!Track
  <2>. QED  BY <1>1, <2>2 DEF Abstract!Next
<1>8. CASE Len(kept) = Len(queued) - 1 /\ Len(kept) >= 1
  <2>. DEFINE old == next - Len(events)
  <2>1. /\ Range(queued) \ Range(kept) = {old}
        /\ old # next /\ old \in Range(events)
        /\ Range(kept) = (Range(events) \cup {next}) \ {old}
    <3>1. Len(kept) = Len(events) /\ old \in Int
      BY <1>1, <1>8
    <3>2. Range(kept) = (old + 1)..next
      BY <1>1, <1>6, <3>1
    <3>3. Range(queued) = old..(next - 1) \cup {next}
      BY <1>1, <1>3
    <3>4. old <= next - 1
      BY <1>1, <1>8, <3>1
    <3>. HIDE DEF old
    <3>. QED  BY <1>1, <1>3, <3>1, <3>2, <3>3, <3>4 DEF old
  <2>. HIDE DEF old
  <2>2. CASE old \in OnDisk
    <3>1. Held' = Held \cup {next} /\ waived' = waived
      BY <1>2, <2>1, <2>2 DEF Held, OnDisk
    <3>2. Abstract!Track(next)
      BY <1>2, <1>4, <3>1 DEF Abstract!Track
    <3>. QED  BY <1>1, <3>2 DEF Abstract!Next
  <2>3. CASE old \notin OnDisk
    <3>1. Held' = (Held \cup {next}) \ {old} /\ waived' = waived \cup {old}
      <4>1. next \notin OnDisk /\ OnDisk' = OnDisk
        BY <1>2, <1>4 DEF Held, OnDisk
      <4>. QED  BY <1>2, <2>1, <2>3, <4>1 DEF Held
    <3>2. old \in Held \cup {next}
      BY <2>1 DEF Held
    <3>3. Abstract!Track(next)
      BY <1>2, <1>4, <3>1, <3>2 DEF Abstract!Track
    <3>. QED  BY <1>1, <3>3 DEF Abstract!Next
  <2>. QED  BY <2>2, <2>3
<1>. QED  BY <1>5, <1>7, <1>8

(* Without an overrun the batch in hand is in memory, so nothing but the   *)
(* batch leaves with it.                                                   *)
LEMMA HandInMemory ==
    ASSUME DamageInv, InHand, overruns = 0
    PROVE  /\ Range(batch) \subseteq Range(events)
           /\ Range(WithoutBatch) \subseteq Range(events)
           /\ Range(events) \subseteq Range(batch) \cup Range(WithoutBatch)
<1>1. /\ IsFiniteSet(Skipped) /\ Cardinality(Skipped) <= Shift
      /\ Shift \in Nat
  BY SkippedCount, ShiftType DEF DamageInv
<1>2. Cardinality(Skipped) \in Nat /\ Cardinality(Missing) \in Nat
  BY <1>1, FS_CardinalityType, MissingFinite DEF DamageInv
<1>3. Shift = 0 /\ Cardinality(Skipped) = 0
  BY <1>1, <1>2 DEF DamageInv
<1>4. Skipped = {}
  BY <1>1, <1>3, FS_EmptySet
<1>5. Range(batch) \subseteq Range(events)
  <2>1. /\ Len(batch) \in Nat /\ batch[1] \in Nat /\ Len(events) \in Nat
        /\ next \in Nat /\ Len(batch) <= Len(events)
        /\ batch[1] = next - Len(events)
    BY <1>3, HandRange, QueueRange
    DEF DamageInv, OrderInv, LossInv, Shift
  <2>2. /\ Range(batch) = batch[1]..(batch[1] + Len(batch) - 1)
        /\ Range(events) = (next - Len(events))..(next - 1)
    BY HandRange, QueueRange DEF DamageInv, OrderInv, LossInv
  <2>. QED  BY <2>1, <2>2
<1>6. Range(WithoutBatch) \subseteq Range(events)
  BY RestRange DEF DamageInv
<1>. QED  BY <1>4, <1>5, <1>6 DEF Skipped

LEMMA OverrunsGrow ==
    ASSUME OrderInv, [Next]_vars
    PROVE  overruns' = overruns \/ (Enqueue /\ overruns' >= overruns)
<1>1. CASE Enqueue
  <2>. DEFINE queued == Append(events, next)
  <2>1. next \in Ids /\ events \in Seq(Ids)
    BY <1>1 DEF Enqueue, OrderInv, LossInv, TypeInv, TypeOK, Ids
  <2>2. queued \in Seq(Ids) /\ Len(queued) \in Nat
    BY <2>1, AppendProperties
  <2>3. /\ Len(KeepNewest(queued)) <= Len(queued)
        /\ Len(KeepNewest(queued)) \in Nat
    <3>. HIDE DEF queued
    <3>1. KeepNewest(queued) \in Seq(Ids)
      BY <2>2, KeepNewestFacts
    <3>2. Len(KeepNewest(queued)) <= Len(queued)
      BY <2>2, KeepNewestFacts
    <3>. QED  BY <3>1, <3>2
  <2>4. overruns' \in {overruns,
                       overruns + (Len(queued) - Len(KeepNewest(queued)))}
    BY <1>1 DEF Enqueue
  <2>5. overruns \in Nat
    BY DEF OrderInv, LossInv, TypeInv, TypeOK
  <2>. HIDE DEF queued
  <2>. QED  BY <1>1, <2>2, <2>3, <2>4, <2>5
<1>2. CASE ~Enqueue
  BY <1>2
  DEF Next, FlushSync, Server, RequestFlush, StartFlush, Send,
      ResendAnswered, ResendEnds, TakeBatch, QueueDrained, WriteBatch,
      BatchAnswered, BatchFailed, Accept, Refuse, Fail, AcceptLate,
      TransportChanges, PathChanges, Crash, vars
<1>. QED  BY <1>1, <1>2

LEMMA OutboxStep ==
    DamageInv /\ [Next]_vars /\ overruns' = 0
        => [Abstract!Next]_(Abstract!vars)
<1>. SUFFICES ASSUME DamageInv, [Next]_vars, overruns' = 0
              PROVE  Abstract!Next \/ UNCHANGED <<Held, stored, waived>>
  BY DEF Abstract!vars
<1>1. overruns = 0
  <2>1. DamageInv'
    BY DamageNext
  <2>2. overruns \in Nat /\ overruns <= overruns'
    <3>1. overruns \in Nat
      BY DEF DamageInv, OrderInv, LossInv, TypeInv, TypeOK
    <3>. QED  BY <3>1, OverrunsGrow DEF DamageInv
  <2>. QED  BY <2>2
<1>2. CASE Enqueue
  BY <1>2, TrackStep
<1>3. CASE Accept
  <2>1. Payload \subseteq Tracked
    BY <1>3, PayloadTracked DEF Accept, DamageInv
  <2>2. stored' = stored \cup Payload /\ waived' = waived /\ Held' = Held
    BY <1>3 DEF Accept, Held, OnDisk, memory
  <2>. QED  BY <1>1, <2>1, <2>2, StoreStep
<1>4. ASSUME NEW payload \in late, AcceptLate(payload)
      PROVE  Abstract!Next
  <2>1. payload \subseteq Tracked
    BY DEF DamageInv, OrderInv, AllTracked
  <2>2. stored' = stored \cup payload /\ waived' = waived /\ Held' = Held
    BY <1>4 DEF AcceptLate, Held, OnDisk, memory
  <2>. QED  BY <1>1, <2>1, <2>2, StoreStep
<1>5. CASE ResendAnswered
  <2>. DEFINE sent == Oldest(loaded)
  <2>1. /\ pc = "resend" /\ loaded # {} /\ loaded \subseteq disk
        /\ disk' = disk \ {sent} /\ events' = events /\ stored' = stored
        /\ request \in {"accepted", "refused"}
        /\ waived' = IF request = "refused" THEN waived \cup sent.events
                                             ELSE waived
    BY <1>5
    DEF ResendAnswered, DamageInv, OrderInv, LossInv, TypeInv, TypeOK,
        memory, world
  <2>2. sent \in disk
    BY <2>1, OldestExists
    DEF DamageInv, OrderInv, LossInv, TypeInv, TypeOK, File
  <2>3. request = "accepted" => sent.events \subseteq stored
    BY <2>1 DEF DamageInv, OrderInv, LossInv, AnswerOK, Payload
  <2>. HIDE DEF sent
  <2>4. /\ Held' \subseteq Held /\ sent.events \subseteq Held
        /\ Held \subseteq Held' \cup sent.events
    BY <2>1, <2>2 DEF Held, OnDisk
  <2>5. CASE request = "accepted"
    <3>1. waived' = waived
      BY <2>1, <2>5
    <3>2. Held \subseteq Held' \cup stored
      BY <2>3, <2>4, <2>5
    <3>. QED  BY <2>1, <2>4, <3>1, <3>2, ForgetStored
  <2>6. CASE request = "refused"
    <3>1. waived' = waived \cup sent.events
      BY <2>1, <2>6
    <3>2. Held \subseteq Held' \cup stored \cup sent.events
      BY <2>4
    <3>. QED  BY <2>1, <2>4, <3>1, <3>2, ForgetStep
  <2>. QED  BY <2>1, <2>5, <2>6
<1>6. CASE WriteBatch
  <2>0. PICK kept \in SUBSET disk : Wrote(kept)
    BY <1>6, SomeKept
  <2>. DEFINE gone == UNION {f.events : f \in disk \ kept}
              new  == [born |-> NewestBirth(disk) + 1,
                       events |-> Range(batch)]
  <2>1. /\ InHand /\ kept \subseteq disk /\ new.events = Range(batch)
        /\ disk' \in {kept, kept \cup {new}}
        /\ waived' = waived \cup gone
        /\ UNCHANGED <<events, stored>>
    BY <2>0 DEF Wrote, InHand, memory, world
  <2>2. Range(batch) \subseteq Range(events)
    BY <1>1, <2>1, HandInMemory
  <2>. HIDE DEF new
  <2>3. Held' \subseteq Held
    BY <2>1, <2>2 DEF Held, OnDisk
  <2>4. gone \subseteq Held /\ Held \subseteq Held' \cup stored \cup gone
    BY <2>1 DEF Held, OnDisk
  <2>. HIDE DEF gone
  <2>. QED  BY <2>1, <2>3, <2>4, ForgetStep
<1>7. CASE BatchAnswered
  <2>1. /\ InHand /\ pc = "send" /\ request \in {"accepted", "refused"}
        /\ events' = WithoutBatch /\ disk' = disk \ {file}
        /\ waived' = IF request = "refused" THEN waived \cup Range(batch)
                                             ELSE waived
        /\ stored' = stored
    BY <1>7 DEF BatchAnswered, InHand, world
  <2>2. request = "accepted" => Range(batch) \subseteq stored
    BY <2>1 DEF DamageInv, OrderInv, LossInv, AnswerOK, Payload
  <2>3. file.events \subseteq Range(batch)
    BY <2>1 DEF DamageInv, OrderInv, LossInv, FileOK, NoFile
  <2>4. /\ Held' \subseteq Held /\ Range(batch) \subseteq Held
        /\ Held \subseteq Held' \cup Range(batch)
    BY <1>1, <2>1, <2>3, HandInMemory DEF Held, OnDisk
  <2>5. CASE request = "accepted"
    <3>1. waived' = waived
      BY <2>1, <2>5
    <3>2. Held \subseteq Held' \cup stored
      BY <2>2, <2>4, <2>5
    <3>. QED  BY <2>1, <2>4, <3>1, <3>2, ForgetStored
  <2>6. CASE request = "refused"
    <3>1. waived' = waived \cup Range(batch)
      BY <2>1, <2>6
    <3>2. Held \subseteq Held' \cup stored \cup Range(batch)
      BY <2>4
    <3>. QED  BY <2>1, <2>4, <3>1, <3>2, ForgetStep
  <2>. QED  BY <2>1, <2>5, <2>6
<1>8. CASE BatchFailed
  <2>1. /\ InHand /\ pc = "send"
        /\ events' = IF file # NoFile THEN WithoutBatch ELSE events
        /\ UNCHANGED <<stored, disk, waived>>
    BY <1>8 DEF BatchFailed, InHand, world
  <2>2. file # NoFile => Range(batch) \subseteq OnDisk
    BY <2>1 DEF DamageInv, OrderInv, LossInv, FileOK, OnDisk
  <2>3. Held' = Held
    <3>1. CASE file = NoFile
      BY <2>1, <3>1 DEF Held, OnDisk
    <3>2. CASE file # NoFile
      BY <1>1, <2>1, <2>2, <3>2, HandInMemory DEF Held, OnDisk
    <3>. QED  BY <3>1, <3>2
  <2>. QED  BY <2>1, <2>3
<1>9. CASE Crash
  <2>1. /\ events' = <<>> /\ UNCHANGED <<stored, disk>>
        /\ waived' = waived \cup (Range(events) \ OnDisk)
    BY <1>9 DEF Crash
  <2>2. Held' = OnDisk
    BY <2>1 DEF Held, OnDisk, Range
  <2>3. /\ Range(events) \ OnDisk \subseteq Held /\ Held' \subseteq Held
        /\ Held \subseteq Held' \cup stored \cup (Range(events) \ OnDisk)
    BY <2>2 DEF Held
  <2>. QED  BY <2>1, <2>3, ForgetStep
<1>10. ASSUME UNCHANGED <<events, disk, stored, waived>>
       PROVE  UNCHANGED <<Held, stored, waived>>
  BY <1>10 DEF Held, OnDisk
<1>11. CASE \/ RequestFlush \/ StartFlush \/ Send \/ ResendEnds \/ TakeBatch
            \/ QueueDrained \/ Refuse \/ Fail \/ TransportChanges
            \/ PathChanges \/ UNCHANGED vars
  BY <1>10, <1>11
  DEF RequestFlush, StartFlush, Send, ResendEnds, TakeBatch, QueueDrained,
      Refuse, Fail, TransportChanges, PathChanges, vars, memory, worker,
      world
<1>. QED
  BY <1>2, <1>3, <1>4, <1>5, <1>6, <1>7, <1>8, <1>9, <1>11
  DEF Next, FlushSync, Server

LEMMA OutboxInit == Init => Abstract!Init
BY DEF Init, Abstract!Init, Held, OnDisk, Range

(* A pipeline that is never overrun is an outbox: whatever fails, is lost, *)
(* answered late or repeated, an event is stored only after it was tracked,*)
(* and forgotten only once it is stored or waived.                         *)
THEOREM OutboxUnlessOverrun ==
    Spec /\ [](overruns = 0) => ImplementsOutbox
<1>1. DamageInv /\ [Next]_vars /\ (overruns = 0)'
         => [Abstract!Next]_(Abstract!vars)
  BY OutboxStep
<1>. QED  BY <1>1, OutboxInit, DamageInvariant, PTL
          DEF Spec, ImplementsOutbox, Abstract!Spec

(* A queue that has room for every event tracked is never overrun ...      *)
LEMMA RoomyNext ==
    ASSUME MaxEvents <= MaxQueueSize, OrderInv, overruns = 0, [Next]_vars
    PROVE  overruns' = 0
<1>1. CASE Enqueue
  <2>. DEFINE queued == Append(events, next)
  <2>1. next \in Ids /\ events \in Seq(Ids)
    BY <1>1 DEF Enqueue, OrderInv, LossInv, TypeInv, TypeOK, Ids
  <2>2. queued \in Seq(Ids) /\ Len(queued) = Len(events) + 1
    BY <2>1, AppendProperties
  <2>3. Len(queued) <= MaxQueueSize
    <3>1. Len(events) = 0 \/ events[1] = (next - 1) - Len(events) + 1
      BY <2>1 DEF OrderInv, Dense, Ends
    <3>2. Len(events) <= next - 1
      <4>1. CASE Len(events) = 0
        BY <2>1, <4>1 DEF Ids
      <4>2. CASE Len(events) # 0
        <5>1. events[1] \in Ids
          BY <2>1, <4>2
        <5>. QED  BY <2>1, <3>1, <4>2, <5>1 DEF Ids
      <4>. QED  BY <4>1, <4>2
    <3>. QED  BY <2>1, <2>2, <3>2, SizesAssumption DEF Ids
  <2>4. KeepNewest(queued) = queued
    BY <2>2, <2>3, KeepNewestFacts
  <2>. QED  BY <1>1, <2>2, <2>4 DEF Enqueue
<1>2. CASE ~Enqueue
  BY <1>2, OverrunsGrow
<1>. QED  BY <1>1, <1>2

(* ... and so is an outbox for good.                                       *)
THEOREM RoomyIsOutbox ==
    ASSUME MaxEvents <= MaxQueueSize
    PROVE  Spec => ImplementsOutbox
<1>1. Init => overruns = 0
  BY DEF Init
<1>2. OrderInv /\ overruns = 0 /\ [Next]_vars => (overruns = 0)'
  BY RoomyNext
<1>. QED  BY <1>1, <1>2, OrderInvariant, OutboxUnlessOverrun, PTL DEF Spec

=============================================================================
