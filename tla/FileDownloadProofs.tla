------------------------- MODULE FileDownloadProofs -------------------------
(***************************************************************************)
(* Proofs about FileDownload, for every set of files, projects, admins and *)
(* inodes and every value of the bounds.                                   *)
(***************************************************************************)
EXTENDS FileDownload, FiniteSetTheorems, TLAPS

\* Every step of the pipeline keeps the types.
LEMMA TypeStep == TypeOK /\ JobInv /\ [Next]_vars => TypeOK'
<1> SUFFICES ASSUME TypeOK, JobInv, [Next]_vars PROVE TypeOK'
    OBVIOUS
<1> USE BoundsAssumption, FilesAssumption
<1> USE DEF TypeOK, Statuses, Pcs, HoldingPcs, RetrierPcs, Workers, Whole, Goto,
            AfterDownload, rows, disk, stream, tick
<1>1. ASSUME NEW p \in Projects, Cancel(p) PROVE TypeOK'
    BY <1>1 DEF Cancel
<1>2. ASSUME NEW p \in Projects, NEW f \in Files, Crawl(p, f) PROVE TypeOK'
    BY <1>2 DEF Crawl
<1>3. ASSUME NEW a \in Admins, AdminReset(a) PROVE TypeOK'
    BY <1>3 DEF AdminReset
<1>4. ASSUME NEW a \in Admins, NEW f \in Files, AdminCheck(a, f) PROVE TypeOK'
    BY <1>4 DEF AdminCheck
<1>5. CASE RetryTick
    BY <1>5 DEF RetryTick, ListRetryable, Retryable
<1>6. ASSUME NEW f \in Files, RetryNext(f) PROVE TypeOK'
    BY <1>6 DEF RetryNext
<1>7. ASSUME NEW f \in Files, ZombieStat(f) PROVE TypeOK'
    BY <1>7 DEF ZombieStat
<1>8. CASE ZombieList
    BY <1>8 DEF ZombieList
<1>9. CASE ZombieComplete
    BY <1>9 DEF ZombieComplete
<1>10. CASE ZombiePending
    BY <1>10 DEF ZombiePending
<1>11. CASE ZombieDone
    BY <1>11 DEF ZombieDone
<1>12. ASSUME NEW w \in Workers, Acquire(w) PROVE TypeOK'
    BY <1>12 DEF Acquire
<1>13. ASSUME NEW w \in Workers, AbandonAcquire(w) PROVE TypeOK'
    BY <1>13 DEF AbandonAcquire
<1>14. ASSUME NEW w \in Workers, PrepareFails(w) PROVE TypeOK'
    BY <1>14 DEF PrepareFails
<1>15. ASSUME NEW w \in Workers, MarkDownloading(w) PROVE TypeOK'
  <2>1. try' \in [Workers -> 0 .. MaxRetries]
    BY <1>15 DEF MarkDownloading
  <2> QED
    BY <1>15, <2>1 DEF MarkDownloading
<1>16. ASSUME NEW w \in Workers, RequestDenied(w) PROVE TypeOK'
    BY <1>16 DEF RequestDenied
<1>17. ASSUME NEW w \in Workers, AttemptFails(w) PROVE TypeOK'
  <2>1. try' \in [Workers -> 0 .. MaxRetries]
    BY <1>17 DEF AttemptFails
  <2>2. pos' \in [Workers -> 0 .. NChunks]
    BY <1>17 DEF AttemptFails
  <2>3. pc' \in [Workers -> Pcs]
    BY <1>17 DEF AttemptFails
  <2> QED
    BY <1>17, <2>1, <2>2, <2>3 DEF AttemptFails
<1>18. ASSUME NEW w \in Workers, BackoffElapsed(w) PROVE TypeOK'
    BY <1>18 DEF BackoffElapsed
<1>19. ASSUME NEW w \in Workers, BackoffCancelled(w) PROVE TypeOK'
    BY <1>19 DEF BackoffCancelled
<1>20. ASSUME NEW w \in Workers, CreateTemp(w) PROVE TypeOK'
  <2>1. job[w] \in Files
    BY <1>20 DEF CreateTemp, JobInv, BusyPcs
  <2>2. pos' \in [Workers -> 0 .. NChunks]
    BY <1>20 DEF CreateTemp
  <2>3. content' \in [Inodes -> SUBSET Whole]
    BY <1>20 DEF CreateTemp
  <2>4. /\ temp' \in [Files -> Inodes \cup {NoInode}]
       /\ fd' \in [Workers -> Inodes \cup {NoInode}]
    BY <1>20, <2>1 DEF CreateTemp, FreeInodes
  <2> QED
    BY <1>20, <2>1, <2>2, <2>3, <2>4 DEF CreateTemp
<1>21. ASSUME NEW w \in Workers, WriteChunk(w) PROVE TypeOK'
  <2>1. pos' \in [Workers -> 0 .. NChunks]
    BY <1>21 DEF WriteChunk
  <2>2. pos[w] + 1 \in Whole
    BY <1>21 DEF WriteChunk
  <2>3. content' \in [Inodes -> SUBSET Whole]
    BY <1>21, <2>2 DEF WriteChunk
  <2> QED
    BY <1>21, <2>1, <2>2, <2>3 DEF WriteChunk
<1>22. ASSUME NEW w \in Workers, FinishCopy(w) PROVE TypeOK'
    BY <1>22 DEF FinishCopy
<1>23. ASSUME NEW w \in Workers, Verify(w) PROVE TypeOK'
    BY <1>23 DEF Verify
<1>24. ASSUME NEW w \in Workers, Rename(w) PROVE TypeOK'
    BY <1>24 DEF Rename
<1>25. ASSUME NEW w \in Workers, MarkComplete(w) PROVE TypeOK'
    BY <1>25 DEF MarkComplete
<1>26. ASSUME NEW w \in Workers, IncrementRetryCount(w) PROVE TypeOK'
    BY <1>26 DEF IncrementRetryCount
<1>27. ASSUME NEW w \in Workers, ReadRetryCount(w) PROVE TypeOK'
    BY <1>27 DEF ReadRetryCount
<1>28. ASSUME NEW w \in Workers, MarkFailedPermanent(w) PROVE TypeOK'
    BY <1>28 DEF MarkFailedPermanent
<1>29. ASSUME NEW w \in Workers, Exit(w) PROVE TypeOK'
  <2>1. try' \in [Workers -> 0 .. MaxRetries]
    BY <1>29 DEF Exit
  <2>2. temp' \in [Files -> Inodes \cup {NoInode}]
    BY <1>29 DEF Exit
  <2> QED
    BY <1>29, <2>1, <2>2 DEF Exit
<1>30. CASE CrashRestart
    BY <1>30 DEF CrashRestart
<1>31. CASE UNCHANGED vars
    BY <1>31 DEF vars
<1>32. QED
    BY <1>1, <1>2, <1>3, <1>4, <1>5, <1>6, <1>7, <1>8, <1>9, <1>10, <1>11, <1>12, <1>13, <1>14, <1>15, <1>16, <1>17, <1>18, <1>19, <1>20, <1>21, <1>22, <1>23, <1>24, <1>25, <1>26, <1>27, <1>28, <1>29, <1>30, <1>31 DEF Next, Work, RetrierStep, Step

\* Every step keeps a busy worker on a file, its descriptor open only to copy.
LEMMA JobStep == TypeOK /\ JobInv /\ [Next]_vars => JobInv'
<1> SUFFICES ASSUME TypeOK, JobInv, [Next]_vars PROVE JobInv'
    OBVIOUS
<1> USE BoundsAssumption, FilesAssumption, WorkersDisjoint
<1> USE DEF TypeOK, JobInv, BusyPcs, HoldingPcs, Workers, Goto, AfterDownload,
            rows, disk, stream, tick
<1>1. ASSUME NEW p \in Projects, Cancel(p) PROVE JobInv'
    BY <1>1 DEF Cancel
<1>2. ASSUME NEW p \in Projects, NEW f \in Files, Crawl(p, f) PROVE JobInv'
    BY <1>2 DEF Crawl
<1>3. ASSUME NEW a \in Admins, AdminReset(a) PROVE JobInv'
    BY <1>3 DEF AdminReset
<1>4. ASSUME NEW a \in Admins, NEW f \in Files, AdminCheck(a, f) PROVE JobInv'
    BY <1>4 DEF AdminCheck
<1>5. CASE RetryTick
    BY <1>5 DEF RetryTick
<1>6. ASSUME NEW f \in Files, RetryNext(f) PROVE JobInv'
    BY <1>6 DEF RetryNext
<1>7. ASSUME NEW f \in Files, ZombieStat(f) PROVE JobInv'
    BY <1>7 DEF ZombieStat
<1>8. CASE ZombieList
    BY <1>8 DEF ZombieList
<1>9. CASE ZombieComplete
    BY <1>9 DEF ZombieComplete
<1>10. CASE ZombiePending
    BY <1>10 DEF ZombiePending
<1>11. CASE ZombieDone
    BY <1>11 DEF ZombieDone
<1>12. ASSUME NEW w \in Workers, Acquire(w) PROVE JobInv'
    BY <1>12 DEF Acquire
<1>13. ASSUME NEW w \in Workers, AbandonAcquire(w) PROVE JobInv'
    BY <1>13 DEF AbandonAcquire
<1>14. ASSUME NEW w \in Workers, PrepareFails(w) PROVE JobInv'
    BY <1>14 DEF PrepareFails
<1>15. ASSUME NEW w \in Workers, MarkDownloading(w) PROVE JobInv'
    BY <1>15 DEF MarkDownloading
<1>16. ASSUME NEW w \in Workers, RequestDenied(w) PROVE JobInv'
    BY <1>16 DEF RequestDenied
<1>17. ASSUME NEW w \in Workers, AttemptFails(w) PROVE JobInv'
    BY <1>17 DEF AttemptFails
<1>18. ASSUME NEW w \in Workers, BackoffElapsed(w) PROVE JobInv'
    BY <1>18 DEF BackoffElapsed
<1>19. ASSUME NEW w \in Workers, BackoffCancelled(w) PROVE JobInv'
    BY <1>19 DEF BackoffCancelled
<1>20. ASSUME NEW w \in Workers, CreateTemp(w) PROVE JobInv'
  <2>1. fd'[w] \in Inodes
    BY <1>20 DEF CreateTemp, FreeInodes
  <2> QED
    BY <1>20, <2>1 DEF CreateTemp
<1>21. ASSUME NEW w \in Workers, WriteChunk(w) PROVE JobInv'
    BY <1>21 DEF WriteChunk
<1>22. ASSUME NEW w \in Workers, FinishCopy(w) PROVE JobInv'
    BY <1>22 DEF FinishCopy
<1>23. ASSUME NEW w \in Workers, Verify(w) PROVE JobInv'
    BY <1>23 DEF Verify
<1>24. ASSUME NEW w \in Workers, Rename(w) PROVE JobInv'
    BY <1>24 DEF Rename
<1>25. ASSUME NEW w \in Workers, MarkComplete(w) PROVE JobInv'
    BY <1>25 DEF MarkComplete
<1>26. ASSUME NEW w \in Workers, IncrementRetryCount(w) PROVE JobInv'
    BY <1>26 DEF IncrementRetryCount
<1>27. ASSUME NEW w \in Workers, ReadRetryCount(w) PROVE JobInv'
    BY <1>27 DEF ReadRetryCount
<1>28. ASSUME NEW w \in Workers, MarkFailedPermanent(w) PROVE JobInv'
    BY <1>28 DEF MarkFailedPermanent
<1>29. ASSUME NEW w \in Workers, Exit(w) PROVE JobInv'
    BY <1>29 DEF Exit
<1>30. CASE CrashRestart
    BY <1>30 DEF CrashRestart
<1>31. CASE UNCHANGED vars
    BY <1>31 DEF vars
<1>32. QED
    BY <1>1, <1>2, <1>3, <1>4, <1>5, <1>6, <1>7, <1>8, <1>9, <1>10, <1>11, <1>12, <1>13, <1>14, <1>15, <1>16, <1>17, <1>18, <1>19, <1>20, <1>21, <1>22, <1>23, <1>24, <1>25, <1>26, <1>27, <1>28, <1>29, <1>30, <1>31 DEF Next, Work, RetrierStep, Step

\* The first half of SlotsBounded.
SlotsMatch == slots = {w \in Workers : Holding(w)}

\* Every step keeps the channel's tokens and the calls inside in agreement:
\* each return path of DownloadFile gives its slot back exactly once.
LEMMA SlotsMatchStep ==
    TypeOK /\ JobInv /\ SlotsMatch /\ [Next]_vars => SlotsMatch'
<1> SUFFICES ASSUME TypeOK, JobInv, SlotsMatch, [Next]_vars PROVE SlotsMatch'
    OBVIOUS
<1> USE WorkersDisjoint
<1> USE DEF TypeOK, SlotsMatch, Holding, HoldingPcs, Workers, Goto, AfterDownload,
            rows, disk, stream, tick
<1>1. ASSUME NEW p \in Projects, Cancel(p) PROVE SlotsMatch'
    BY <1>1 DEF Cancel
<1>2. ASSUME NEW p \in Projects, NEW f \in Files, Crawl(p, f) PROVE SlotsMatch'
    BY <1>2 DEF Crawl
<1>3. ASSUME NEW a \in Admins, AdminReset(a) PROVE SlotsMatch'
    BY <1>3 DEF AdminReset
<1>4. ASSUME NEW a \in Admins, NEW f \in Files, AdminCheck(a, f) PROVE SlotsMatch'
    BY <1>4 DEF AdminCheck
<1>5. CASE RetryTick
    BY <1>5 DEF RetryTick
<1>6. ASSUME NEW f \in Files, RetryNext(f) PROVE SlotsMatch'
    BY <1>6 DEF RetryNext
<1>7. ASSUME NEW f \in Files, ZombieStat(f) PROVE SlotsMatch'
    BY <1>7 DEF ZombieStat
<1>8. CASE ZombieList
    BY <1>8 DEF ZombieList
<1>9. CASE ZombieComplete
    BY <1>9 DEF ZombieComplete
<1>10. CASE ZombiePending
    BY <1>10 DEF ZombiePending
<1>11. CASE ZombieDone
    BY <1>11 DEF ZombieDone
<1>12. ASSUME NEW w \in Workers, Acquire(w) PROVE SlotsMatch'
    BY <1>12 DEF Acquire
<1>13. ASSUME NEW w \in Workers, AbandonAcquire(w) PROVE SlotsMatch'
    BY <1>13 DEF AbandonAcquire
<1>14. ASSUME NEW w \in Workers, PrepareFails(w) PROVE SlotsMatch'
    BY <1>14 DEF PrepareFails
<1>15. ASSUME NEW w \in Workers, MarkDownloading(w) PROVE SlotsMatch'
    BY <1>15 DEF MarkDownloading
<1>16. ASSUME NEW w \in Workers, RequestDenied(w) PROVE SlotsMatch'
    BY <1>16 DEF RequestDenied
<1>17. ASSUME NEW w \in Workers, AttemptFails(w) PROVE SlotsMatch'
    BY <1>17 DEF AttemptFails
<1>18. ASSUME NEW w \in Workers, BackoffElapsed(w) PROVE SlotsMatch'
    BY <1>18 DEF BackoffElapsed
<1>19. ASSUME NEW w \in Workers, BackoffCancelled(w) PROVE SlotsMatch'
    BY <1>19 DEF BackoffCancelled
<1>20. ASSUME NEW w \in Workers, CreateTemp(w) PROVE SlotsMatch'
    BY <1>20 DEF CreateTemp
<1>21. ASSUME NEW w \in Workers, WriteChunk(w) PROVE SlotsMatch'
    BY <1>21 DEF WriteChunk
<1>22. ASSUME NEW w \in Workers, FinishCopy(w) PROVE SlotsMatch'
    BY <1>22 DEF FinishCopy
<1>23. ASSUME NEW w \in Workers, Verify(w) PROVE SlotsMatch'
    BY <1>23 DEF Verify
<1>24. ASSUME NEW w \in Workers, Rename(w) PROVE SlotsMatch'
    BY <1>24 DEF Rename
<1>25. ASSUME NEW w \in Workers, MarkComplete(w) PROVE SlotsMatch'
    BY <1>25 DEF MarkComplete
<1>26. ASSUME NEW w \in Workers, IncrementRetryCount(w) PROVE SlotsMatch'
    BY <1>26 DEF IncrementRetryCount
<1>27. ASSUME NEW w \in Workers, ReadRetryCount(w) PROVE SlotsMatch'
    BY <1>27 DEF ReadRetryCount
<1>28. ASSUME NEW w \in Workers, MarkFailedPermanent(w) PROVE SlotsMatch'
    BY <1>28 DEF MarkFailedPermanent
<1>29. ASSUME NEW w \in Workers, Exit(w) PROVE SlotsMatch'
    BY <1>29 DEF Exit
<1>30. CASE CrashRestart
    BY <1>30 DEF CrashRestart
<1>31. CASE UNCHANGED vars
    BY <1>31 DEF vars
<1>32. QED
    BY <1>1, <1>2, <1>3, <1>4, <1>5, <1>6, <1>7, <1>8, <1>9, <1>10, <1>11, <1>12, <1>13, <1>14, <1>15, <1>16, <1>17, <1>18, <1>19, <1>20, <1>21, <1>22, <1>23, <1>24, <1>25, <1>26, <1>27, <1>28, <1>29, <1>30, <1>31 DEF Next, Work, RetrierStep, Step

\* Tokens are put into the channel only by Acquire, and only when it has room.
LEMMA SlotsBoundStep ==
    ASSUME IsFiniteSet(slots), Cardinality(slots) <= MaxConcurrent, [Next]_vars
    PROVE  IsFiniteSet(slots') /\ Cardinality(slots') <= MaxConcurrent
<1> USE BoundsAssumption
<1>0. Cardinality(slots) \in Nat
    BY FS_CardinalityType
<1>1. CASE slots' = slots
    BY <1>1
<1>2. ASSUME NEW w \in Workers, Acquire(w)
      PROVE  IsFiniteSet(slots') /\ Cardinality(slots') <= MaxConcurrent
  <2>1. /\ IsFiniteSet(slots \cup {w})
        /\ Cardinality(slots \cup {w})
              = IF w \in slots THEN Cardinality(slots) ELSE Cardinality(slots) + 1
    BY FS_AddElement
  <2>2. QED
    BY <1>0, <1>2, <2>1 DEF Acquire
<1>3. ASSUME NEW w, slots' = slots \ {w}
      PROVE  IsFiniteSet(slots') /\ Cardinality(slots') <= MaxConcurrent
  <2>1. /\ IsFiniteSet(slots \ {w})
        /\ Cardinality(slots \ {w})
              = IF w \in slots THEN Cardinality(slots) - 1 ELSE Cardinality(slots)
    BY FS_RemoveElement
  <2>2. QED
    BY <1>0, <1>3, <2>1
<1>4. CASE slots' = {}
    BY <1>4, FS_EmptySet
<1>5. ASSUME NEW w \in Workers, Step(w)
      PROVE  slots' = slots \/ slots' = slots \ {w}
    BY <1>5 DEF Step, AbandonAcquire, PrepareFails, MarkDownloading, RequestDenied,
       AttemptFails, BackoffElapsed, BackoffCancelled, CreateTemp, WriteChunk,
       FinishCopy, Verify, Rename, MarkComplete, IncrementRetryCount,
       ReadRetryCount, MarkFailedPermanent, Exit
<1>6. RetrierStep => slots' = slots
    BY DEF RetrierStep, RetryTick, RetryNext, ZombieStat, ZombieList,
       ZombieComplete, ZombiePending, ZombieDone
<1>7. QED
    BY <1>1, <1>2, <1>3, <1>4, <1>5, <1>6
       DEF Next, Work, Cancel, Crawl, AdminReset, AdminCheck, CrashRestart, vars

\* An idle process, an empty table and an empty disk satisfy the invariants.
LEMMA InitOK ==
    Init => TypeOK /\ JobInv /\ SlotsMatch /\ IsFiniteSet(slots)
            /\ Cardinality(slots) <= MaxConcurrent
<1> SUFFICES ASSUME Init PROVE TypeOK /\ JobInv /\ SlotsMatch
                  /\ IsFiniteSet(slots) /\ Cardinality(slots) <= MaxConcurrent
    OBVIOUS
<1> USE BoundsAssumption
<1>1. TypeOK /\ JobInv
    BY DEF Init, TypeOK, JobInv, BusyPcs, HoldingPcs, RetrierPcs, Pcs, Statuses, Whole
<1>2. SlotsMatch
    BY DEF Init, SlotsMatch, Holding, HoldingPcs
<1>3. IsFiniteSet(slots) /\ Cardinality(slots) <= MaxConcurrent
    BY FS_EmptySet DEF Init
<1>4. QED
    BY <1>1, <1>2, <1>3

\* Type correctness of the pipeline's state.
THEOREM TypeCorrect == Spec => [](TypeOK /\ JobInv)
<1>1. Init => TypeOK /\ JobInv
    BY InitOK
<1>2. TypeOK /\ JobInv /\ [Next]_vars => TypeOK' /\ JobInv'
    BY TypeStep, JobStep
<1>3. QED
    BY <1>1, <1>2, PTL DEF Spec

\* The semaphore of FileService: its tokens are exactly the calls inside, and
\* there are never more than MaxConcurrent of them, whatever the number of
\* crawls, retries and requests.
THEOREM SlotsBoundedAlways == Spec => []SlotsBounded
<1> DEFINE Bound == IsFiniteSet(slots) /\ Cardinality(slots) <= MaxConcurrent
<1>1. Init => SlotsMatch /\ Bound
    BY InitOK
<1>2. TypeOK /\ JobInv /\ SlotsMatch /\ Bound /\ [Next]_vars
          => SlotsMatch' /\ Bound'
    BY SlotsMatchStep, SlotsBoundStep
<1>3. SlotsMatch /\ Bound => SlotsBounded
    BY DEF SlotsMatch, SlotsBounded
<1>4. QED
    BY <1>1, <1>2, <1>3, TypeCorrect, PTL DEF Spec

\* No step commits a row before its file is there, or takes the file away.
LEMMA CommitStep == TypeOK /\ JobInv /\ CommitInv /\ [Next]_vars => CommitInv'
<1> SUFFICES ASSUME TypeOK, JobInv, CommitInv, [Next]_vars PROVE CommitInv'
    OBVIOUS
<1> USE BoundsAssumption, FilesAssumption, WorkersDisjoint
<1> USE DEF TypeOK, JobInv, BusyPcs, HoldingPcs, CommitInv, CompleteHasFile, Workers,
            Goto, AfterDownload, NonEmptyAt, rows, disk, stream, tick
<1>1. ASSUME NEW p \in Projects, Cancel(p) PROVE CommitInv'
    BY <1>1 DEF Cancel
<1>2. ASSUME NEW p \in Projects, NEW f \in Files, Crawl(p, f) PROVE CommitInv'
    BY <1>2 DEF Crawl
<1>3. ASSUME NEW a \in Admins, AdminReset(a) PROVE CommitInv'
    BY <1>3 DEF AdminReset
<1>4. ASSUME NEW a \in Admins, NEW f \in Files, AdminCheck(a, f) PROVE CommitInv'
    BY <1>4 DEF AdminCheck
<1>5. CASE RetryTick
    BY <1>5 DEF RetryTick
<1>6. ASSUME NEW f \in Files, RetryNext(f) PROVE CommitInv'
    BY <1>6 DEF RetryNext
<1>7. ASSUME NEW f \in Files, ZombieStat(f) PROVE CommitInv'
    BY <1>7 DEF ZombieStat
<1>8. CASE ZombieList
    BY <1>8 DEF ZombieList
<1>9. CASE ZombieComplete
    BY <1>9 DEF ZombieComplete
<1>10. CASE ZombiePending
    BY <1>10 DEF ZombiePending
<1>11. CASE ZombieDone
    BY <1>11 DEF ZombieDone
<1>12. ASSUME NEW w \in Workers, Acquire(w) PROVE CommitInv'
    BY <1>12 DEF Acquire
<1>13. ASSUME NEW w \in Workers, AbandonAcquire(w) PROVE CommitInv'
    BY <1>13 DEF AbandonAcquire
<1>14. ASSUME NEW w \in Workers, PrepareFails(w) PROVE CommitInv'
    BY <1>14 DEF PrepareFails
<1>15. ASSUME NEW w \in Workers, MarkDownloading(w) PROVE CommitInv'
    BY <1>15 DEF MarkDownloading
<1>16. ASSUME NEW w \in Workers, RequestDenied(w) PROVE CommitInv'
    BY <1>16 DEF RequestDenied
<1>17. ASSUME NEW w \in Workers, AttemptFails(w) PROVE CommitInv'
    BY <1>17 DEF AttemptFails
<1>18. ASSUME NEW w \in Workers, BackoffElapsed(w) PROVE CommitInv'
    BY <1>18 DEF BackoffElapsed
<1>19. ASSUME NEW w \in Workers, BackoffCancelled(w) PROVE CommitInv'
    BY <1>19 DEF BackoffCancelled
<1>20. ASSUME NEW w \in Workers, CreateTemp(w) PROVE CommitInv'
    BY <1>20 DEF CreateTemp
<1>21. ASSUME NEW w \in Workers, WriteChunk(w) PROVE CommitInv'
    BY <1>21 DEF WriteChunk
<1>22. ASSUME NEW w \in Workers, FinishCopy(w) PROVE CommitInv'
    BY <1>22 DEF FinishCopy
<1>23. ASSUME NEW w \in Workers, Verify(w) PROVE CommitInv'
    BY <1>23 DEF Verify
<1>24. ASSUME NEW w \in Workers, Rename(w) PROVE CommitInv'
    BY <1>24 DEF Rename
<1>25. ASSUME NEW w \in Workers, MarkComplete(w) PROVE CommitInv'
    BY <1>25 DEF MarkComplete
<1>26. ASSUME NEW w \in Workers, IncrementRetryCount(w) PROVE CommitInv'
    BY <1>26 DEF IncrementRetryCount
<1>27. ASSUME NEW w \in Workers, ReadRetryCount(w) PROVE CommitInv'
    BY <1>27 DEF ReadRetryCount
<1>28. ASSUME NEW w \in Workers, MarkFailedPermanent(w) PROVE CommitInv'
    BY <1>28 DEF MarkFailedPermanent
<1>29. ASSUME NEW w \in Workers, Exit(w) PROVE CommitInv'
    BY <1>29 DEF Exit
<1>30. CASE CrashRestart
    BY <1>30 DEF CrashRestart
<1>31. CASE UNCHANGED vars
    BY <1>31 DEF vars
<1>32. QED
    BY <1>1, <1>2, <1>3, <1>4, <1>5, <1>6, <1>7, <1>8, <1>9, <1>10, <1>11, <1>12, <1>13, <1>14, <1>15, <1>16, <1>17, <1>18, <1>19, <1>20, <1>21, <1>22, <1>23, <1>24, <1>25, <1>26, <1>27, <1>28, <1>29, <1>30, <1>31 DEF Next, Work, RetrierStep, Step

\* A 'complete' row always has a file behind it: both ways a row becomes
\* 'complete' (MarkComplete after the rename, and the zombie reset after its
\* stat) come after the file, and nothing in the pipeline removes one.
THEOREM CompleteHasFileAlways == Spec => []CompleteHasFile
<1>1. Init => CommitInv
    BY DEF Init, CommitInv, CompleteHasFile
<1>2. TypeOK /\ JobInv /\ CommitInv /\ [Next]_vars => CommitInv'
    BY CommitStep
<1>3. CommitInv => CompleteHasFile
    BY DEF CommitInv
<1>4. QED
    BY <1>1, <1>2, <1>3, TypeCorrect, PTL DEF Spec

\* Without overlap, no step damages a served file: descriptors stay private,
\* what is renamed is whole, and unlinking a temp path harms nobody else.
LEMMA IntactStep ==
    TypeOK /\ JobInv /\ NoOverlap /\ IntactInv /\ [Next]_vars => IntactInv'
<1> SUFFICES ASSUME TypeOK, JobInv, NoOverlap, IntactInv, [Next]_vars
             PROVE  IntactInv'
    OBVIOUS
<1> DEFINE Quiet ==
      /\ UNCHANGED <<disk, fd, pos>>
      /\ \A v \in Workers :
            /\ pc'[v] = "copy" => pc[v] = "copy" /\ job'[v] = job[v]
            /\ pc'[v] \in {"verify", "rename"} =>
                  pc[v] \in {"verify", "rename"} /\ job'[v] = job[v]
<1>0. Quiet => IntactInv'
    BY DEF IntactInv, PathsApart, FdApart, PrefixInv, FinalIntact, disk
<1> USE BoundsAssumption, FilesAssumption, WorkersDisjoint
<1> USE DEF TypeOK, JobInv, NoOverlap, Holding, BusyPcs, HoldingPcs, IntactInv,
            PathsApart, FdApart, PrefixInv, FinalIntact, Workers,
            Goto, AfterDownload, Whole, rows, disk, stream, tick
<1>1. ASSUME NEW p \in Projects, Cancel(p) PROVE Quiet
    BY <1>1 DEF Cancel
<1>2. ASSUME NEW p \in Projects, NEW f \in Files, Crawl(p, f) PROVE Quiet
    BY <1>2 DEF Crawl
<1>3. ASSUME NEW a \in Admins, AdminReset(a) PROVE Quiet
    BY <1>3 DEF AdminReset
<1>4. ASSUME NEW a \in Admins, NEW f \in Files, AdminCheck(a, f) PROVE Quiet
    BY <1>4 DEF AdminCheck
<1>5. RetryTick => Quiet
    BY DEF RetryTick
<1>6. ASSUME NEW f \in Files, RetryNext(f) PROVE Quiet
    BY <1>6 DEF RetryNext
<1>7. ASSUME NEW f \in Files, ZombieStat(f) PROVE IntactInv'
  <2>1. PathsApart'
    BY <1>7 DEF ZombieStat
  <2>2. FdApart'
    BY <1>7 DEF ZombieStat
  <2>3. PrefixInv'
    <3>1. \A v \in Workers : pc'[v] \in {"copy", "verify", "rename"} =>
            pc[v] = pc'[v] /\ job'[v] = job[v] /\ temp'[job[v]] \in {temp[job[v]], NoInode}
      BY <1>7 DEF ZombieStat
    <3>2. UNCHANGED <<fd, pos, content>>
      BY <1>7 DEF ZombieStat
    <3>3. QED
      BY <3>1, <3>2
  <2>4. FinalIntact'
    BY <1>7 DEF ZombieStat
  <2> QED
    BY <1>7, <2>1, <2>2, <2>3, <2>4 DEF ZombieStat
<1>8. ZombieList => Quiet
    BY DEF ZombieList
<1>9. ZombieComplete => Quiet
    BY DEF ZombieComplete
<1>10. ZombiePending => Quiet
    BY DEF ZombiePending
<1>11. ZombieDone => Quiet
    BY DEF ZombieDone
<1>12. ASSUME NEW w \in Workers, Acquire(w) PROVE Quiet
    BY <1>12 DEF Acquire
<1>13. ASSUME NEW w \in Workers, AbandonAcquire(w) PROVE Quiet
    BY <1>13 DEF AbandonAcquire
<1>14. ASSUME NEW w \in Workers, PrepareFails(w) PROVE Quiet
    BY <1>14 DEF PrepareFails
<1>15. ASSUME NEW w \in Workers, MarkDownloading(w) PROVE Quiet
    BY <1>15 DEF MarkDownloading
<1>16. ASSUME NEW w \in Workers, RequestDenied(w) PROVE Quiet
    BY <1>16 DEF RequestDenied
<1>17. ASSUME NEW w \in Workers, AttemptFails(w) PROVE IntactInv'
    BY <1>17 DEF AttemptFails
<1>18. ASSUME NEW w \in Workers, BackoffElapsed(w) PROVE Quiet
    BY <1>18 DEF BackoffElapsed
<1>19. ASSUME NEW w \in Workers, BackoffCancelled(w) PROVE Quiet
    BY <1>19 DEF BackoffCancelled
<1>20. ASSUME NEW w \in Workers, CreateTemp(w) PROVE IntactInv'
  <2>1. PathsApart'
    BY <1>20 DEF CreateTemp, FreeInodes
  <2>2. FdApart'
    BY <1>20 DEF CreateTemp, FreeInodes
  <2>3. PrefixInv'
    BY <1>20 DEF CreateTemp, FreeInodes
  <2>4. FinalIntact'
    BY <1>20 DEF CreateTemp, FreeInodes
  <2> QED
    BY <1>20, <2>1, <2>2, <2>3, <2>4 DEF CreateTemp
<1>21. ASSUME NEW w \in Workers, WriteChunk(w) PROVE IntactInv'
  <2>1. PathsApart'
    BY <1>21 DEF WriteChunk
  <2>2. FdApart'
    BY <1>21 DEF WriteChunk
  <2>3. PrefixInv'
    <3>1. pos[w] \in 0 .. NChunks /\ pos'[w] = pos[w] + 1 /\ fd[w] \in Inodes
      BY <1>21 DEF WriteChunk
    <3>2. content'[fd[w]] = 1 .. pos'[w]
      <4>1. content[fd[w]] = 1 .. pos[w]
        BY <1>21 DEF WriteChunk
      <4>2. content'[fd[w]] = (1 .. pos[w]) \cup {pos[w] + 1}
        BY <1>21, <3>1, <4>1 DEF WriteChunk
      <4>3. (1 .. pos[w]) \cup {pos[w] + 1} = 1 .. (pos[w] + 1)
        BY <3>1
      <4>4. QED
        BY <3>1, <4>2, <4>3
    <3>3. ASSUME NEW v \in Workers, v # w, pc[v] = "copy"
          PROVE  content'[fd[v]] = 1 .. pos'[v]
      BY <1>21, <3>3 DEF WriteChunk
    <3>4. ASSUME NEW v \in Workers, pc[v] \in {"verify", "rename"},
                 job[v] \in SizeKnown, temp[job[v]] # NoInode
          PROVE  content'[temp[job[v]]] = Whole
      <4>1. temp[job[v]] # fd[w]
        BY <1>21, <3>4 DEF WriteChunk
      <4>2. QED
        BY <1>21, <3>4, <4>1 DEF WriteChunk
    <3>5. UNCHANGED <<pc, job, temp, fd>>
      BY <1>21 DEF WriteChunk
    <3>6. QED
      BY <3>2, <3>3, <3>4, <3>5
  <2>4. FinalIntact'
    BY <1>21 DEF WriteChunk
  <2> QED
    BY <1>21, <2>1, <2>2, <2>3, <2>4 DEF WriteChunk
<1>22. ASSUME NEW w \in Workers, FinishCopy(w) PROVE IntactInv'
  <2>1. PathsApart'
    BY <1>22 DEF FinishCopy, CopyDone
  <2>2. FdApart'
    BY <1>22 DEF FinishCopy, CopyDone
  <2>3. PrefixInv'
    BY <1>22 DEF FinishCopy, CopyDone
  <2>4. FinalIntact'
    BY <1>22 DEF FinishCopy, CopyDone
  <2> QED
    BY <1>22, <2>1, <2>2, <2>3, <2>4 DEF FinishCopy
<1>23. ASSUME NEW w \in Workers, Verify(w) PROVE Quiet
    BY <1>23 DEF Verify
<1>24. ASSUME NEW w \in Workers, Rename(w) PROVE IntactInv'
  <2>1. PathsApart'
    BY <1>24 DEF Rename
  <2>2. ASSUME NEW v \in Workers, pc'[v] = "copy"
        PROVE  job[v] \in Files /\ job[v] # job[w] /\ pc[v] = "copy" /\ v # w
    BY <1>24, <2>2 DEF Rename
  <2>3. FdApart'
    <3>1. CASE temp[job[w]] = NoInode
      BY <1>24, <2>2, <3>1 DEF Rename
    <3>2. CASE temp[job[w]] # NoInode
      <4>1. ASSUME NEW v \in Workers, pc'[v] = "copy"
            PROVE  /\ temp'[job[v]] = temp[job[v]]
                   /\ \A g \in Files : fd[v] # final'[g]
                   /\ \A g \in Files : fd[v] = temp'[g] => g = job[v]
        BY <1>24, <2>2, <3>2, <4>1 DEF Rename
      <4>2. UNCHANGED <<fd, job>>
        BY <1>24 DEF Rename
      <4>3. QED
        BY <2>2, <4>1, <4>2
    <3>3. QED
      BY <3>1, <3>2
  <2>4. PrefixInv'
    <3>1. ASSUME NEW v \in Workers, pc'[v] \in {"copy", "verify", "rename"}
          PROVE  v # w /\ pc[v] = pc'[v] /\ temp'[job[v]] = temp[job[v]]
      BY <1>24, <3>1 DEF Rename
    <3>2. UNCHANGED <<fd, pos, content, job>>
      BY <1>24 DEF Rename
    <3>3. QED
      BY <3>1, <3>2
  <2>5. FinalIntact'
    BY <1>24 DEF Rename
  <2> QED
    BY <1>24, <2>1, <2>3, <2>4, <2>5 DEF Rename
<1>25. ASSUME NEW w \in Workers, MarkComplete(w) PROVE Quiet
    BY <1>25 DEF MarkComplete
<1>26. ASSUME NEW w \in Workers, IncrementRetryCount(w) PROVE Quiet
    BY <1>26 DEF IncrementRetryCount
<1>27. ASSUME NEW w \in Workers, ReadRetryCount(w) PROVE Quiet
    BY <1>27 DEF ReadRetryCount
<1>28. ASSUME NEW w \in Workers, MarkFailedPermanent(w) PROVE Quiet
    BY <1>28 DEF MarkFailedPermanent
<1>29. ASSUME NEW w \in Workers, Exit(w) PROVE IntactInv'
    BY <1>29 DEF Exit
<1>30. CASE CrashRestart
    BY <1>30 DEF CrashRestart
<1>31. UNCHANGED vars => Quiet
    BY DEF vars
<1>32. QED
    BY <1>0, <1>1, <1>2, <1>3, <1>4, <1>5, <1>6, <1>7, <1>8, <1>9, <1>10, <1>11, <1>12, <1>13, <1>14, <1>15, <1>16, <1>17, <1>18, <1>19, <1>20, <1>21, <1>22, <1>23, <1>24, <1>25, <1>26, <1>27, <1>28, <1>29, <1>30, <1>31 DEF Next, Work, RetrierStep, Step

\* With one slot, two calls inside are one call.
LEMMA OneSlotNoOverlap ==
    ASSUME MaxConcurrent = 1, SlotsMatch, IsFiniteSet(slots),
           Cardinality(slots) <= MaxConcurrent
    PROVE  NoOverlap
<1> SUFFICES ASSUME NEW v \in Workers, NEW w \in Workers, Holding(v), Holding(w)
             PROVE  v = w
    BY DEF NoOverlap
<1>1. {v, w} \in SUBSET slots
    BY DEF SlotsMatch
<1>2. Cardinality(slots) = 1
  <2>1. Cardinality(slots) \in Nat
    BY FS_CardinalityType
  <2>2. Cardinality(slots) # 0
    BY <1>1, FS_EmptySet
  <2>3. QED
    BY <2>1, <2>2
<1>3. PICK x : slots = {x}
    BY <1>2, FS_Singleton
<1>4. QED
    BY <1>1, <1>3

\* The temp-file-and-rename pattern delivers what it is for as long as no two
\* calls of DownloadFile hold a slot for the same file: local_path never
\* holds a partial body, through cancellations, zombie resets that unlink the
\* temp file of a running download, failed attempts and crashes.
THEOREM IntactWithoutOverlap == Spec /\ []NoOverlap => []FinalIntact
<1>1. Init => IntactInv
    BY BoundsAssumption, FilesAssumption
       DEF Init, IntactInv, PathsApart, FdApart, PrefixInv, FinalIntact
<1>2. TypeOK /\ JobInv /\ NoOverlap /\ IntactInv /\ [Next]_vars => IntactInv'
    BY IntactStep
<1>3. IntactInv => FinalIntact
    BY DEF IntactInv
<1>4. QED
    BY <1>1, <1>2, <1>3, TypeCorrect, PTL DEF Spec

\* With max_concurrent set to 1 the code guarantees that by itself.
THEOREM IntactWithOneSlot == MaxConcurrent = 1 => (Spec => []FinalIntact)
<1> SUFFICES ASSUME MaxConcurrent = 1 PROVE Spec => []FinalIntact
    OBVIOUS
<1> DEFINE Bound == IsFiniteSet(slots) /\ Cardinality(slots) <= MaxConcurrent
<1>1. Init => SlotsMatch /\ Bound
    BY InitOK
<1>2. TypeOK /\ JobInv /\ SlotsMatch /\ Bound /\ [Next]_vars
          => SlotsMatch' /\ Bound'
    BY SlotsMatchStep, SlotsBoundStep
<1>3. SlotsMatch /\ Bound => NoOverlap
    BY OneSlotNoOverlap
<1>4. Spec => []NoOverlap
    BY <1>1, <1>2, <1>3, TypeCorrect, PTL DEF Spec
<1>5. QED
    BY <1>4, IntactWithoutOverlap, PTL
=============================================================================
