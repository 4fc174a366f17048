--------------------------- MODULE ISOQueueProofs ---------------------------
(***************************************************************************)
(* The semaphore of DownloadISO is kept, and a resume never doubles, skips *)
(* or mixes bytes, for any number of entries, workers and chunks.          *)
(***************************************************************************)
EXTENDS ISOQueue, FiniteSetTheorems, TLAPS

-----------------------------------------------------------------------------
(* Types. *)

RowTypes ==
    /\ dl \in [Entries -> Statuses]
    /\ stale \subseteq Entries
    /\ queue \subseteq Entries
    /\ changed \in BOOLEAN
    /\ asked \in [Requests -> SUBSET Entries]
    /\ target \in [Requests -> Entries \cup {NoEntry}]

DiskTypes ==
    /\ tmp \in [Entries -> Inodes \cup {NoInode}]
    /\ final \in [Entries -> Inodes \cup {NoInode}]
    /\ content \in [Inodes -> Seq(Chunks)]

ContextTypes ==
    /\ slots \subseteq Workers
    /\ cancels \in [Entries -> Workers \cup {NoOne}]
    /\ cancelled \in [Workers -> BOOLEAN]

CallTypes ==
    /\ pc \in [Workers -> Pcs]
    /\ job \in [Workers -> Entries \cup {NoEntry}]
    /\ fd \in [Workers -> Inodes \cup {NoInode}]
    /\ append \in [Workers -> BOOLEAN]
    /\ size \in [Workers -> Nat]
    /\ pos \in [Workers -> 0 .. NChunks]
    /\ result \in [Workers -> Results]

LEMMA TypeParts == TypeOK <=> RowTypes /\ DiskTypes /\ ContextTypes /\ CallTypes
  BY DEF TypeOK, RowTypes, DiskTypes, ContextTypes, CallTypes

\* A worker has an entry from the start of a download to the end of its report.
WorkingPcs == HoldingPcs \cup {"acquire", "report", "markdone", "markpending"}
JobsNamed == \A w \in Workers : pc[w] \in WorkingPcs => job[w] \in Entries

Types == RowTypes /\ DiskTypes /\ ContextTypes /\ CallTypes /\ JobsNamed

\* What the steps of DownloadISO leave alone.
LEMMA StepFrame ==
    ASSUME NEW w \in Workers, Acquire(w) \/ Step(w)
    PROVE  UNCHANGED <<rows, listing, reqs>>
  BY DEF Step, Acquire, StatTemp, RequestFails, StartFresh, Resume, WriteChunk, CopyInterrupted,
         CopyBroken, FinishCopy, Rename, Checksum, Return, Fails, Open

LEMMA RequestFrame ==
    ASSUME NEW r \in Requests, Request(r)
    PROVE  UNCHANGED <<disk, slots, pc, job, fd, append, size, pos, result, listing>>
  BY DEF Request, QueueDownloadAll, CancelFires, RequestLost, RetryCatalogDownload,
         CancelDownload, WritePending, call

LEMMA RowTypesKept ==
    ASSUME Types, [Next]_vars
    PROVE  RowTypes'
  <1> USE DEF Types
  <1>1. CASE UNCHANGED <<rows, listing, reqs>>
    BY <1>1 DEF RowTypes, rows, listing, reqs
  <1>2. ASSUME NEW r \in Requests, Request(r) PROVE RowTypes'
    <2>1. ASSUME NEW e \in Entries, RetryCatalogDownload(r, e) PROVE RowTypes'
      BY <2>1 DEF RetryCatalogDownload, RowTypes, rows, listing
    <2>2. ASSUME NEW e \in Entries, CancelDownload(r, e) PROVE RowTypes'
      BY <2>2 DEF CancelDownload, RowTypes, rows, listing
    <2>3. ASSUME NEW e \in Entries, WritePending(r, e) PROVE RowTypes'
      BY <2>3 DEF WritePending, RowTypes, listing, Statuses
    <2>4. CASE QueueDownloadAll(r)
      BY <2>4 DEF QueueDownloadAll, RowTypes, rows, listing
    <2>5. CASE RequestLost(r)
      BY <2>5 DEF RequestLost, RowTypes, rows, listing
    <2>6. CASE CancelFires(r)
      <3>1. target[r] \in Entries
        BY <2>6 DEF CancelFires, RowTypes
      <3>2. UNCHANGED <<dl, stale, queue, changed>>
        BY <2>6 DEF CancelFires, rows, listing
      <3>3. target' \in [Requests -> Entries \cup {NoEntry}]
        BY <2>6 DEF CancelFires, RowTypes
      <3>4. asked' = asked \/ asked' = [asked EXCEPT ![r] = {target[r]}]
        BY <2>6 DEF CancelFires
      <3>5. asked' \in [Requests -> SUBSET Entries]
        BY <3>1, <3>4 DEF RowTypes
      <3> QED BY <3>2, <3>3, <3>5 DEF RowTypes
    <2> QED BY <1>2, <2>1, <2>2, <2>3, <2>4, <2>5, <2>6 DEF Request
  <1>3. CASE QueueStep
    <2>1. CASE ProcessQueue
      BY <2>1 DEF ProcessQueue, RowTypes, rows, reqs
    <2>2. CASE MarkStale
      BY <2>2 DEF MarkStale, RowTypes, reqs, Statuses
    <2>3. CASE StaleChecked
      BY <2>3 DEF StaleChecked, RowTypes, rows, reqs
    <2>4. CASE QueueDone
      BY <2>4 DEF QueueDone, RowTypes, rows, listing, reqs
    <2>5. CASE Report
      BY <2>5 DEF Report, RowTypes, listing, reqs, Statuses
    <2>6. ASSUME NEW e \in Entries, ResetStale(e) PROVE RowTypes'
      BY <2>6 DEF ResetStale, RowTypes, rows, reqs
    <2>7. ASSUME NEW e \in Entries, Pick(e) PROVE RowTypes'
      BY <2>7 DEF Pick, RowTypes, reqs, Statuses
    <2> QED BY <1>3, <2>1, <2>2, <2>3, <2>4, <2>5, <2>6, <2>7 DEF QueueStep
  <1>4. CASE CrashRestart
    BY <1>4 DEF CrashRestart, RowTypes, rows
  <1>5. ASSUME NEW d \in Direct, ClientGone(d) \/ \E e \in Entries : DownloadFromCatalog(d, e)
        PROVE  RowTypes'
    BY <1>1, <1>5 DEF ClientGone, DownloadFromCatalog
  <1>6. ASSUME NEW e \in Entries, DeleteISO(e) PROVE RowTypes'
    BY <1>1, <1>6 DEF DeleteISO
  <1> QED BY <1>1, <1>2, <1>3, <1>4, <1>5, <1>6, StepFrame DEF Next, Work, vars

LEMMA ContextTypesKept ==
    ASSUME Types, [Next]_vars
    PROVE  ContextTypes'
  <1> USE DEF Types
  <1>1. CASE UNCHANGED <<slots, cancels, cancelled>>
    BY <1>1 DEF ContextTypes
  <1>2. ASSUME NEW r \in Requests, Request(r) PROVE ContextTypes'
    <2>1. CASE CancelFires(r)
      <3>1. slots' = slots
        BY <2>1 DEF CancelFires
      <3>2. target[r] \in Entries
        BY <2>1 DEF CancelFires, RowTypes
      <3>3. \/ UNCHANGED <<cancels, cancelled>>
            \/ /\ cancelled' = [cancelled EXCEPT ![cancels[target[r]]] = TRUE]
               /\ cancels' = [cancels EXCEPT ![target[r]] = NoOne]
        BY <2>1 DEF CancelFires
      <3> QED BY <3>1, <3>2, <3>3 DEF ContextTypes
    <2>2. CASE ~CancelFires(r)
      BY <1>1, <1>2, <2>2
      DEF Request, QueueDownloadAll, RequestLost, RetryCatalogDownload, CancelDownload,
          WritePending, call
    <2> QED BY <2>1, <2>2
  <1>3. ASSUME NEW w \in Workers, NEW e \in Entries, Begin(w, e) PROVE ContextTypes'
    BY <1>3 DEF Begin, ContextTypes
  <1>4. CASE QueueStep
    BY <1>1, <1>3, <1>4
    DEF QueueStep, ProcessQueue, MarkStale, StaleChecked, QueueDone, Report, ResetStale, Pick, Workers
  <1>5. CASE CrashRestart
    BY <1>5 DEF CrashRestart, ContextTypes
  <1>6. ASSUME NEW d \in Direct, ClientGone(d) PROVE ContextTypes'
    BY <1>6 DEF ClientGone, ContextTypes, Workers
  <1>7. ASSUME NEW d \in Direct, NEW e \in Entries, DownloadFromCatalog(d, e) PROVE ContextTypes'
    BY <1>3, <1>7 DEF DownloadFromCatalog, Workers
  <1>8. ASSUME NEW e \in Entries, DeleteISO(e) PROVE ContextTypes'
    BY <1>1, <1>8 DEF DeleteISO, call
  <1>9. ASSUME NEW w \in Workers, Acquire(w) \/ Return(w) PROVE ContextTypes'
    BY <1>9 DEF Acquire, Return, ContextTypes
  <1>10. ASSUME NEW w \in Workers, Step(w), ~Return(w) PROVE ContextTypes'
    BY <1>1, <1>10
    DEF Step, StatTemp, RequestFails, StartFresh, Resume, WriteChunk, CopyInterrupted,
        CopyBroken, FinishCopy, Rename, Checksum, Fails, Open
  <1>11. CASE UNCHANGED vars
    BY <1>1, <1>11 DEF vars, call
  <1> QED BY <1>2, <1>4, <1>5, <1>6, <1>7, <1>8, <1>9, <1>10, <1>11 DEF Next, Work

LEMMA CallTypesKept ==
    ASSUME Types, [Next]_vars
    PROVE  CallTypes'
  <1> USE DEF Types
  <1>1. CASE UNCHANGED <<pc, job, fd, append, size, pos, result>>
    BY <1>1 DEF CallTypes
  <1>2. ASSUME NEW r \in Requests, Request(r) PROVE CallTypes'
    BY <1>1, <1>2, RequestFrame
  <1>3. ASSUME NEW w \in Workers, NEW e \in Entries, Begin(w, e) PROVE CallTypes'
    BY <1>3 DEF Begin, Goto, CallTypes, Pcs
  <1>4. CASE QueueStep
    <2>1. Queue \in Workers
      BY DEF Workers
    <2>2. CASE ProcessQueue \/ QueueDone
      BY <2>1, <2>2 DEF ProcessQueue, QueueDone, Goto, CallTypes, Pcs, QueuePcs
    <2>3. CASE MarkStale
      BY <2>1, <2>3 DEF MarkStale, Goto, CallTypes, Pcs, QueuePcs
    <2>4. CASE StaleChecked
      BY <2>1, <2>4 DEF StaleChecked, Goto, CallTypes, Pcs, QueuePcs
    <2>5. CASE Report
      BY <2>1, <2>5 DEF Report, Goto, CallTypes, Pcs, QueuePcs, Results
    <2>6. ASSUME NEW e \in Entries, ResetStale(e) PROVE CallTypes'
      BY <2>1, <2>6 DEF ResetStale, Goto, CallTypes, Pcs, QueuePcs
    <2>7. ASSUME NEW e \in Entries, Pick(e) PROVE CallTypes'
      BY <1>3, <2>1, <2>7 DEF Pick
    <2> QED BY <1>4, <2>2, <2>3, <2>4, <2>5, <2>6, <2>7 DEF QueueStep
  <1>5. CASE CrashRestart
    BY <1>5, BoundsAssumption DEF CrashRestart, CallTypes, Pcs, Results
  <1>6. ASSUME NEW d \in Direct, ClientGone(d) PROVE CallTypes'
    BY <1>1, <1>6 DEF ClientGone
  <1>7. ASSUME NEW d \in Direct, NEW e \in Entries, DownloadFromCatalog(d, e) PROVE CallTypes'
    BY <1>3, <1>7 DEF DownloadFromCatalog, Workers
  <1>8. ASSUME NEW e \in Entries, DeleteISO(e) PROVE CallTypes'
    BY <1>1, <1>8 DEF DeleteISO, call
  <1>9. ASSUME NEW w \in Workers, Acquire(w) \/ Step(w) PROVE CallTypes'
    <2>1. ASSUME NEW why \in Results, NEW paths, Fails(w, why, paths) PROVE CallTypes'
      BY <2>1 DEF Fails, Goto, CallTypes, Pcs, HoldingPcs
    <2>2. CASE Acquire(w)
      BY <2>2 DEF Acquire, Goto, CallTypes, Pcs, HoldingPcs
    <2>3. CASE StatTemp(w)
      <3>1. SizeAt(tmp[job[w]]) \in Nat
        BY <2>3 DEF StatTemp, SizeAt, DiskTypes, JobsNamed, WorkingPcs, HoldingPcs
      <3> QED BY <2>3, <3>1 DEF StatTemp, Goto, CallTypes, Pcs, HoldingPcs
    <2>4. CASE RequestFails(w) \/ CopyInterrupted(w) \/ CopyBroken(w)
      BY <2>1, <2>4 DEF RequestFails, CopyInterrupted, CopyBroken, Results
    <2>5. CASE StartFresh(w)
      <3>1. PICK i \in IF tmp[job[w]] # NoInode /\ size[w] = 0
                        THEN {tmp[job[w]]} ELSE FreeInodes : Open(w, i, FALSE)
        BY <2>5 DEF StartFresh
      <3>2. i \in Inodes
        BY <2>5, <3>1
        DEF StartFresh, FreeInodes, DiskTypes, JobsNamed, WorkingPcs, HoldingPcs
      <3>3. pos' = [pos EXCEPT ![w] = 0] /\ 0 \in 0 .. NChunks
        BY <2>5, BoundsAssumption DEF StartFresh
      <3> QED BY <3>1, <3>2, <3>3 DEF Open, Goto, CallTypes, Pcs, HoldingPcs
    <2>6. CASE Resume(w)
      <3>1. CASE Fails(w, "error", TempRemoved(w))
        BY <2>1, <3>1 DEF Results
      <3>2. CASE /\ tmp[job[w]] # NoInode
                 /\ Open(w, tmp[job[w]], TRUE)
                 /\ pos' = [pos EXCEPT ![w] = size[w]]
        <4>1. tmp[job[w]] \in Inodes
          BY <2>6, <3>2 DEF Resume, DiskTypes, JobsNamed, WorkingPcs, HoldingPcs
        <4>2. size[w] \in 0 .. NChunks
          BY <2>6, BoundsAssumption DEF Resume
        <4> QED BY <3>2, <4>1, <4>2 DEF Open, Goto, CallTypes, Pcs, HoldingPcs
      <3> QED BY <2>6, <3>1, <3>2 DEF Resume
    <2>7. CASE WriteChunk(w)
      <3>1. pos[w] + 1 \in 0 .. NChunks
        BY <2>7, BoundsAssumption DEF WriteChunk, CallTypes
      <3> QED BY <2>7, <3>1 DEF WriteChunk, CallTypes
    <2>8. CASE FinishCopy(w)
      BY <2>8 DEF FinishCopy, Goto, CallTypes, Pcs, HoldingPcs
    <2>9. CASE Rename(w)
      <3>1. CASE Fails(w, "error", tmp)
        BY <2>1, <3>1 DEF Results
      <3>2. CASE ~Fails(w, "error", tmp)
        BY <2>9, <3>2 DEF Rename, Goto, CallTypes, Pcs, HoldingPcs, Results
      <3> QED BY <3>1, <3>2
    <2>10. CASE Checksum(w)
      BY <2>10 DEF Checksum, Goto, CallTypes, Pcs, HoldingPcs, Results
    <2>11. CASE Return(w)
      <3>1. 0 \in 0 .. NChunks
        BY BoundsAssumption
      <3> QED BY <2>11, <3>1 DEF Return, Goto, CallTypes, Pcs, QueuePcs, Results
    <2> QED BY <1>9, <2>2, <2>3, <2>4, <2>5, <2>6, <2>7, <2>8, <2>9, <2>10, <2>11 DEF Step
  <1>10. CASE UNCHANGED vars
    BY <1>1, <1>10 DEF vars, call
  <1> QED BY <1>2, <1>4, <1>5, <1>6, <1>7, <1>8, <1>9, <1>10 DEF Next, Work

\* A write at an offset leaves a sequence of chunks.
LEMMA WriteAtTyped ==
    ASSUME NEW s \in Seq(Chunks), NEW p \in Nat, NEW c \in Chunks
    PROVE  WriteAt(s, p, c) \in Seq(Chunks)
  <1> DEFINE n == IF p > Len(s) THEN p ELSE Len(s)
             v(k) == IF k = p THEN c ELSE IF k <= Len(s) THEN s[k] ELSE Wrong
  <1>1. n \in Nat
    OBVIOUS
  <1>2. \A k \in 1 .. n : v(k) \in Chunks
    BY BoundsAssumption DEF Chunks, Wrong
  <1>3. WriteAt(s, p, c) = [k \in 1 .. n |-> v(k)]
    BY DEF WriteAt
  <1> HIDE DEF n, v
  <1> QED BY <1>1, <1>2, <1>3

LEMMA DiskTypesKept ==
    ASSUME Types, [Next]_vars
    PROVE  DiskTypes'
  <1> USE DEF Types
  <1>1. CASE UNCHANGED <<tmp, final, content>>
    BY <1>1 DEF DiskTypes
  <1>2. ASSUME NEW r \in Requests, Request(r) PROVE DiskTypes'
    BY <1>1, <1>2, RequestFrame DEF disk
  <1>3. CASE QueueStep
    <2>1. ASSUME NEW e \in Entries, ResetStale(e) PROVE DiskTypes'
      BY <2>1 DEF ResetStale, DiskTypes
    <2> QED
      BY <1>1, <1>3, <2>1
      DEF QueueStep, ProcessQueue, MarkStale, StaleChecked, QueueDone, Report, Pick, disk
  <1>4. CASE CrashRestart
    BY <1>1, <1>4 DEF CrashRestart, disk
  <1>5. ASSUME NEW d \in Direct, ClientGone(d) \/ \E e \in Entries : DownloadFromCatalog(d, e)
        PROVE  DiskTypes'
    BY <1>1, <1>5 DEF ClientGone, DownloadFromCatalog, disk
  <1>6. ASSUME NEW e \in Entries, DeleteISO(e) PROVE DiskTypes'
    BY <1>6 DEF DeleteISO, DiskTypes
  <1>7. ASSUME NEW w \in Workers, Acquire(w) \/ Step(w) PROVE DiskTypes'
    <2>1. ASSUME NEW why, NEW paths \in {tmp, TempRemoved(w)}, Fails(w, why, paths)
          PROVE  DiskTypes'
      BY <2>1 DEF Fails, TempRemoved, DiskTypes
    <2>2. CASE Acquire(w) \/ StatTemp(w) \/ FinishCopy(w) \/ Return(w)
      BY <1>1, <2>2 DEF Acquire, StatTemp, FinishCopy, Return, disk
    <2>3. CASE RequestFails(w) \/ CopyInterrupted(w) \/ CopyBroken(w)
      BY <2>1, <2>3 DEF RequestFails, CopyInterrupted, CopyBroken
    <2>4. CASE StartFresh(w)
      <3>1. PICK i \in IF tmp[job[w]] # NoInode /\ size[w] = 0
                        THEN {tmp[job[w]]} ELSE FreeInodes :
              /\ Open(w, i, FALSE)
              /\ tmp' = [tmp EXCEPT ![job[w]] = i]
              /\ content' = [content EXCEPT ![i] = <<>>]
        BY <2>4 DEF StartFresh
      <3>2. i \in Inodes
        BY <2>4, <3>1
        DEF StartFresh, FreeInodes, DiskTypes, JobsNamed, WorkingPcs, HoldingPcs
      <3>3. <<>> \in Seq(Chunks)
        OBVIOUS
      <3> QED BY <3>1, <3>2, <3>3 DEF Open, DiskTypes
    <2>5. CASE Resume(w)
      <3>1. CASE Fails(w, "error", TempRemoved(w))
        BY <2>1, <3>1
      <3> QED BY <1>1, <2>5, <3>1 DEF Resume, Open
    <2>6. CASE WriteChunk(w)
      <3>1. PICK c \in {pos[w] + 1} \cup (IF Corrupts THEN {Wrong} ELSE {}) :
              content' = [content EXCEPT ![fd[w]] =
                            IF append[w] THEN Append(@, c) ELSE WriteAt(@, pos[w] + 1, c)]
        BY <2>6 DEF WriteChunk
      <3>2. c \in Chunks /\ pos[w] + 1 \in Nat
        BY <2>6, <3>1, BoundsAssumption DEF WriteChunk, CallTypes, Chunks, Wrong
      <3>3. \A s \in Seq(Chunks) : Append(s, c) \in Seq(Chunks) /\ WriteAt(s, pos[w] + 1, c) \in Seq(Chunks)
        <4> TAKE s \in Seq(Chunks)
        <4>1. Append(s, c) \in Seq(Chunks)
          BY <3>2
        <4> QED BY <3>2, <4>1, WriteAtTyped
      <3>4. content' \in [Inodes -> Seq(Chunks)]
        BY <3>1, <3>3 DEF DiskTypes
      <3> QED BY <2>6, <3>4 DEF WriteChunk, DiskTypes
    <2>7. CASE Rename(w)
      <3>1. CASE Fails(w, "error", tmp)
        BY <2>1, <3>1
      <3>2. CASE ~Fails(w, "error", tmp)
        <4>1. tmp[job[w]] \in Inodes \cup {NoInode}
          BY <2>7 DEF Rename, DiskTypes, JobsNamed, WorkingPcs, HoldingPcs
        <4> QED BY <2>7, <3>2, <4>1 DEF Rename, TempRemoved, DiskTypes
      <3> QED BY <3>1, <3>2
    <2>8. CASE Checksum(w)
      BY <2>8 DEF Checksum, DiskTypes
    <2> QED BY <1>7, <2>2, <2>3, <2>4, <2>5, <2>6, <2>7, <2>8 DEF Step
  <1>8. CASE UNCHANGED vars
    BY <1>1, <1>8 DEF vars, disk
  <1> QED BY <1>2, <1>3, <1>4, <1>5, <1>6, <1>7, <1>8 DEF Next, Work

LEMMA JobsNamedKept ==
    ASSUME Types, [Next]_vars
    PROVE  JobsNamed'
  <1> USE DEF Types
  <1>1. ASSUME \A w \in Workers : pc'[w] \in WorkingPcs => pc[w] \in WorkingPcs /\ job'[w] = job[w]
        PROVE  JobsNamed'
    BY <1>1 DEF JobsNamed
  <1>2. ASSUME NEW r \in Requests, Request(r) PROVE JobsNamed'
    BY <1>1, <1>2, RequestFrame
  <1>3. ASSUME NEW w \in Workers, NEW e \in Entries, Begin(w, e) PROVE JobsNamed'
    BY <1>3 DEF Begin, Goto, CallTypes, JobsNamed
  <1>4. CASE QueueStep
    <2>1. Queue \in Workers
      BY DEF Workers
    <2>2. CASE ProcessQueue \/ QueueDone
      BY <1>1, <2>1, <2>2 DEF ProcessQueue, QueueDone, Goto, CallTypes, WorkingPcs, HoldingPcs
    <2>3. CASE MarkStale
      BY <1>1, <2>1, <2>3 DEF MarkStale, Goto, CallTypes, WorkingPcs, HoldingPcs
    <2>4. CASE StaleChecked
      BY <1>1, <2>1, <2>4 DEF StaleChecked, Goto, CallTypes, WorkingPcs, HoldingPcs
    <2>5. CASE Report
      BY <1>1, <2>1, <2>5 DEF Report, Goto, CallTypes, WorkingPcs, HoldingPcs
    <2>6. ASSUME NEW e \in Entries, ResetStale(e) PROVE JobsNamed'
      BY <2>1, <2>6 DEF ResetStale, Goto, CallTypes, JobsNamed
    <2>7. ASSUME NEW e \in Entries, Pick(e) PROVE JobsNamed'
      BY <1>3, <2>1, <2>7 DEF Pick
    <2> QED BY <1>4, <2>2, <2>3, <2>4, <2>5, <2>6, <2>7 DEF QueueStep
  <1>5. CASE CrashRestart
    BY <1>1, <1>5 DEF CrashRestart, WorkingPcs, HoldingPcs
  <1>6. ASSUME NEW d \in Direct, ClientGone(d) PROVE JobsNamed'
    BY <1>1, <1>6 DEF ClientGone
  <1>7. ASSUME NEW d \in Direct, NEW e \in Entries, DownloadFromCatalog(d, e) PROVE JobsNamed'
    BY <1>3, <1>7 DEF DownloadFromCatalog, Workers
  <1>8. ASSUME NEW e \in Entries, DeleteISO(e) PROVE JobsNamed'
    BY <1>1, <1>8 DEF DeleteISO, call
  <1>9. ASSUME NEW w \in Workers, Acquire(w) \/ Step(w) PROVE JobsNamed'
    <2>1. CASE Return(w)
      BY <1>1, <2>1 DEF Return, Goto, CallTypes, WorkingPcs, HoldingPcs
    <2>2. CASE ~Return(w)
      <3>1. pc[w] \in HoldingPcs \cup {"acquire"} /\ job' = job
        BY <1>9, <2>2
        DEF Step, Acquire, StatTemp, RequestFails, StartFresh, Resume, WriteChunk, CopyInterrupted,
            CopyBroken, FinishCopy, Rename, Checksum, Fails, Open, HoldingPcs
      <3>2. \A v \in Workers \ {w} : pc'[v] = pc[v]
        BY <1>9, <2>2
        DEF Step, Acquire, StatTemp, RequestFails, StartFresh, Resume, WriteChunk, CopyInterrupted,
            CopyBroken, FinishCopy, Rename, Checksum, Fails, Open, Goto, CallTypes
      <3> QED BY <1>1, <3>1, <3>2 DEF WorkingPcs
    <2> QED BY <2>1, <2>2
  <1>10. CASE UNCHANGED vars
    BY <1>1, <1>10 DEF vars, call
  <1> QED BY <1>2, <1>4, <1>5, <1>6, <1>7, <1>8, <1>9, <1>10 DEF Next, Work

LEMMA TypesInit == Init => Types
  <1> SUFFICES ASSUME Init PROVE Types
    OBVIOUS
  <1>1. RowTypes
    BY DEF Init, RowTypes, Statuses
  <1>2. DiskTypes
    <2>1. <<>> \in Seq(Chunks)
      OBVIOUS
    <2>2. content \in [Inodes -> Seq(Chunks)]
      BY <2>1 DEF Init
    <2> QED BY <2>2 DEF Init, DiskTypes
  <1>3. ContextTypes
    BY DEF Init, ContextTypes
  <1>4. CallTypes
    <2>1. 0 \in 0 .. NChunks /\ 0 \in Nat
      BY BoundsAssumption
    <2> QED BY <2>1 DEF Init, CallTypes, Pcs, Results
  <1>5. JobsNamed
    BY DEF Init, JobsNamed, WorkingPcs, HoldingPcs
  <1> QED BY <1>1, <1>2, <1>3, <1>4, <1>5 DEF Types

LEMMA TypesNext == Types /\ [Next]_vars => Types'
  BY RowTypesKept, DiskTypesKept, ContextTypesKept, CallTypesKept, JobsNamedKept DEF Types

\* Type correctness of the download queue.
THEOREM TypeCorrect == Spec => []TypeOK
  <1>1. Types => TypeOK
    BY TypeParts DEF Types
  <1> QED BY <1>1, TypesInit, TypesNext, PTL DEF Spec

-----------------------------------------------------------------------------
(* The semaphore. *)

SlotsInv ==
    /\ IsFiniteSet(slots)
    /\ SlotsBounded

\* Outside Acquire, Return and a crash nobody enters or leaves DownloadISO.
LEMMA SlotsFrame ==
    ASSUME Types, [Next]_vars, ~CrashRestart,
           \A w \in Workers : ~Acquire(w) /\ ~Return(w)
    PROVE  slots' = slots /\ \A v \in Workers : Holding(v)' = Holding(v)
  <1> USE DEF Holding
  <1>1. ASSUME NEW w \in Workers, slots' = slots,
               \A v \in Workers \ {w} : pc'[v] = pc[v],
               pc[w] \in HoldingPcs <=> pc'[w] \in HoldingPcs
        PROVE  slots' = slots /\ \A v \in Workers : Holding(v)' = Holding(v)
    BY <1>1
  <1>2. CASE UNCHANGED <<slots, pc>>
    BY <1>2
  <1>3. CASE QueueStep
    <2>1. Queue \in Workers /\ pc \in [Workers -> Pcs] /\ slots' = slots
      BY <1>3
      DEF Workers, Types, CallTypes, QueueStep, ProcessQueue, MarkStale, StaleChecked, QueueDone,
          Report, ResetStale, Pick, Begin
    <2>2. \A v \in Workers \ {Queue} : pc'[v] = pc[v]
      BY <1>3, <2>1
      DEF QueueStep, ProcessQueue, MarkStale, StaleChecked, QueueDone, Report, ResetStale, Pick,
          Begin, Goto
    <2>3. pc[Queue] \notin HoldingPcs /\ pc'[Queue] \notin HoldingPcs
      BY <1>3, <2>1
      DEF QueueStep, ProcessQueue, MarkStale, StaleChecked, QueueDone, Report, ResetStale, Pick,
          Begin, Goto, HoldingPcs
    <2> QED BY <1>1, <2>1, <2>2, <2>3
  <1>4. ASSUME NEW d \in Direct, NEW e \in Entries, DownloadFromCatalog(d, e)
        PROVE  slots' = slots /\ \A v \in Workers : Holding(v)' = Holding(v)
    <2>1. d \in Workers
      BY DEF Workers
    <2> QED BY <1>1, <1>4, <2>1
      DEF DownloadFromCatalog, Begin, Goto, Types, CallTypes, HoldingPcs
  <1>5. ASSUME NEW w \in Workers, Step(w), ~Return(w)
        PROVE  slots' = slots /\ \A v \in Workers : Holding(v)' = Holding(v)
    <2>1. /\ pc \in [Workers -> Pcs] /\ slots' = slots /\ pc[w] \in HoldingPcs
          /\ \E where \in HoldingPcs : pc' = [pc EXCEPT ![w] = where] \/ pc' = pc
      BY <1>5
      DEF Step, StatTemp, RequestFails, StartFresh, Resume, WriteChunk, CopyInterrupted,
          CopyBroken, FinishCopy, Rename, Checksum, Fails, Open, Goto, Types, CallTypes, HoldingPcs
    <2> QED BY <1>1, <2>1
  <1>6. ASSUME NEW r \in Requests, Request(r) PROVE UNCHANGED <<slots, pc>>
    BY <1>6, RequestFrame
  <1>7. ASSUME NEW d \in Direct, ClientGone(d) PROVE UNCHANGED <<slots, pc>>
    BY <1>7 DEF ClientGone
  <1>8. ASSUME NEW e \in Entries, DeleteISO(e) PROVE UNCHANGED <<slots, pc>>
    BY <1>8 DEF DeleteISO, call
  <1>9. CASE UNCHANGED vars
    BY <1>2, <1>9 DEF vars, call
  <1> QED BY <1>2, <1>3, <1>4, <1>5, <1>6, <1>7, <1>8, <1>9 DEF Next, Work

LEMMA SlotsNext ==
    ASSUME Types, SlotsInv, [Next]_vars
    PROVE  SlotsInv'
  <1>1. CASE CrashRestart
    <2>1. slots' = {} /\ \A w \in Workers : ~Holding(w)'
      BY <1>1 DEF CrashRestart, Holding, HoldingPcs
    <2> QED BY <2>1, FS_EmptySet, BoundsAssumption DEF SlotsInv, SlotsBounded
  <1>2. ASSUME NEW w \in Workers, Acquire(w) PROVE SlotsInv'
    <2>1. slots' = slots \cup {w} /\ Cardinality(slots) < MaxConcurrent
      BY <1>2 DEF Acquire
    <2>2. \A v \in Workers : Holding(v)' = (v = w \/ Holding(v))
      BY <1>2 DEF Acquire, Goto, Holding, HoldingPcs, Types, CallTypes
    <2>3. slots' = {v \in Workers : Holding(v)'}
      BY <2>1, <2>2 DEF SlotsInv, SlotsBounded
    <2>4. IsFiniteSet(slots) /\ Cardinality(slots) \in Nat
      BY FS_CardinalityType DEF SlotsInv
    <2>5. /\ IsFiniteSet(slots')
          /\ Cardinality(slots') = IF w \in slots THEN Cardinality(slots) ELSE Cardinality(slots) + 1
      BY <2>1, <2>4, FS_AddElement
    <2>6. Cardinality(slots') <= MaxConcurrent
      BY <2>1, <2>4, <2>5, BoundsAssumption
    <2> QED BY <2>3, <2>5, <2>6 DEF SlotsInv, SlotsBounded
  <1>3. ASSUME NEW w \in Workers, Return(w) PROVE SlotsInv'
    <2>1. slots' = slots \ {w}
      BY <1>3 DEF Return
    <2>2. \A v \in Workers : Holding(v)' = (v # w /\ Holding(v))
      BY <1>3 DEF Return, Goto, Holding, HoldingPcs, Types, CallTypes
    <2>3. slots' = {v \in Workers : Holding(v)'}
      BY <2>1, <2>2 DEF SlotsInv, SlotsBounded
    <2>4. IsFiniteSet(slots) /\ Cardinality(slots) \in Nat /\ Cardinality(slots) <= MaxConcurrent
      BY FS_CardinalityType DEF SlotsInv, SlotsBounded
    <2>5. /\ IsFiniteSet(slots')
          /\ Cardinality(slots') = IF w \in slots THEN Cardinality(slots) - 1 ELSE Cardinality(slots)
      BY <2>1, <2>4, FS_RemoveElement
    <2>6. Cardinality(slots') <= MaxConcurrent
      BY <2>4, <2>5, BoundsAssumption
    <2> QED BY <2>3, <2>5, <2>6 DEF SlotsInv, SlotsBounded
  <1>4. CASE ~CrashRestart /\ \A w \in Workers : ~Acquire(w) /\ ~Return(w)
    BY <1>4, SlotsFrame DEF SlotsInv, SlotsBounded
  <1> QED BY <1>1, <1>2, <1>3, <1>4

LEMMA SlotsInit == Init => SlotsInv
  <1> SUFFICES ASSUME Init PROVE SlotsInv
    OBVIOUS
  <1>1. slots = {} /\ \A w \in Workers : ~Holding(w)
    BY DEF Init, Holding, HoldingPcs
  <1> QED BY <1>1, FS_EmptySet, BoundsAssumption DEF SlotsInv, SlotsBounded

\* DownloadISO's semaphore: a token for every call inside it and no other,
\* whatever errors, cancels and restarts there are, and never more than
\* MaxConcurrent.
THEOREM SemaphoreKept == Spec => []SlotsBounded
  <1>1. Types /\ SlotsInv /\ [Next]_vars => (Types /\ SlotsInv)'
    BY TypesNext, SlotsNext
  <1>2. SlotsInv => SlotsBounded
    BY DEF SlotsInv
  <1> QED BY <1>1, <1>2, TypesInit, SlotsInit, PTL DEF Spec

-----------------------------------------------------------------------------
(* The files. *)

\* No two calls inside DownloadISO are for the same entry.
NoOverlap ==
    \A v, w \in Workers : Holding(v) /\ Holding(w) /\ job[v] = job[w] => v = w

\* Every chunk is at its place, or wrong.
InOrder(s) == \A k \in 1 .. Len(s) : s[k] \in {k, Wrong}

\* No two temp paths share an inode, and none is at a final path.
PathsApart ==
    \A e, g \in Entries : tmp[e] # NoInode =>
        tmp[e] # final[g] /\ (tmp[e] = tmp[g] => e = g)

\* A descriptor is of one call; it is not at a final path, and at no temp path
\* but that of the call's own entry.
OpenApart ==
    \A w \in Workers : fd[w] # NoInode =>
        /\ \A v \in Workers : fd[v] = fd[w] => v = w
        /\ \A e \in Entries : fd[w] # final[e] /\ (fd[w] = tmp[e] => e = job[w])

TmpInOrder == \A e \in Entries : tmp[e] # NoInode => InOrder(content[tmp[e]])

\* The open file holds what the call has copied or found there; its path may
\* be gone (ResetStaleDownloads), but is never another file.
Own(w) ==
    /\ pc[w] = "copy" <=> fd[w] # NoInode
    /\ pc[w] = "copy" => /\ tmp[job[w]] \in {fd[w], NoInode}
                         /\ Len(content[fd[w]]) = pos[w]
                         /\ InOrder(content[fd[w]])
    /\ pc[w] = "rename" => (tmp[job[w]] # NoInode => Len(content[tmp[job[w]]]) = NChunks)

FilesInv ==
    /\ PathsApart
    /\ OpenApart
    /\ TmpInOrder
    /\ FinalWhole
    /\ \A w \in Workers : Own(w)

\* Paths may go, and a call may leave the part that has its file open.
LEMMA Recedes ==
    ASSUME Types, FilesInv, NEW w \in Workers, content' = content,
           \A e \in Entries : tmp'[e] \in {tmp[e], NoInode} /\ final'[e] \in {final[e], NoInode},
           \A v \in Workers \ {w} :
               pc'[v] = pc[v] /\ job'[v] = job[v] /\ fd'[v] = fd[v] /\ pos'[v] = pos[v],
           \/ fd'[w] = NoInode /\ pc'[w] \notin {"copy", "rename"}
           \/ pc'[w] = pc[w] /\ job'[w] = job[w] /\ fd'[w] = fd[w] /\ pos'[w] = pos[w]
    PROVE  FilesInv'
  <1>1. \A v \in Workers : fd'[v] # NoInode => fd'[v] = fd[v] /\ job'[v] = job[v]
    OBVIOUS
  <1>2. PathsApart'
    BY DEF FilesInv, PathsApart
  <1>3. OpenApart'
    BY <1>1 DEF FilesInv, OpenApart
  <1>4. TmpInOrder' /\ FinalWhole'
    BY DEF FilesInv, TmpInOrder, FinalWhole, InOrder
  <1>5. ASSUME NEW v \in Workers, pc'[v] = pc[v], job'[v] = job[v], fd'[v] = fd[v], pos'[v] = pos[v]
        PROVE  Own(v)'
    <2>1. Own(v) /\ (pc[v] \in {"copy", "rename"} => job[v] \in Entries)
      BY DEF FilesInv, Types, JobsNamed, WorkingPcs, HoldingPcs
    <2> QED BY <1>5, <2>1 DEF Own, InOrder
  <1>6. ASSUME fd'[w] = NoInode, pc'[w] \notin {"copy", "rename"} PROVE Own(w)'
    BY <1>6 DEF Own
  <1> QED BY <1>2, <1>3, <1>4, <1>5, <1>6 DEF FilesInv

\* The call opens i, its temp file, which is not another call's.
LEMMA Opens ==
    ASSUME Types, FilesInv, NoOverlap, NEW w \in Workers, NEW i \in Inodes,
           pc[w] = "response", pc' = [pc EXCEPT ![w] = "copy"],
           fd' = [fd EXCEPT ![w] = i], job' = job, final' = final,
           tmp' = [tmp EXCEPT ![job[w]] = i],
           i = tmp[job[w]] \/ i \in FreeInodes,
           \A j \in Inodes \ {i} : content'[j] = content[j],
           InOrder(content'[i]), Len(content'[i]) = pos'[w],
           \A v \in Workers \ {w} : pos'[v] = pos[v]
    PROVE  FilesInv'
  <1>1. job[w] \in Entries /\ i # NoInode /\ Holding(w)
    BY BoundsAssumption DEF Types, JobsNamed, WorkingPcs, HoldingPcs, Holding
  <1>2. \A e \in Entries : final[e] # i /\ (tmp[e] = i => e = job[w])
    BY <1>1 DEF FilesInv, PathsApart, FreeInodes
  <1>3. \A v \in Workers : fd[v] # i
    <2> TAKE v \in Workers
    <2>1. CASE i \in FreeInodes
      BY <2>1 DEF FreeInodes
    <2>2. ASSUME i = tmp[job[w]], fd[v] = i PROVE FALSE
      <3>1. job[w] = job[v] /\ pc[v] = "copy"
        BY <1>1, <2>2 DEF FilesInv, OpenApart, Own
      <3> QED BY <1>1, <3>1 DEF NoOverlap, Holding, HoldingPcs
    <2> QED BY <2>1, <2>2
  <1>4. /\ \A e \in Entries : tmp'[e] = IF e = job[w] THEN i ELSE tmp[e]
        /\ \A v \in Workers : fd'[v] = IF v = w THEN i ELSE fd[v]
        /\ \A v \in Workers : pc'[v] = IF v = w THEN "copy" ELSE pc[v]
    BY DEF Types, DiskTypes, CallTypes
  <1>5. PathsApart'
    BY <1>1, <1>2, <1>4 DEF FilesInv, PathsApart
  <1>6. OpenApart'
    <2>1. ASSUME NEW v \in Workers \ {w}, fd[v] # NoInode
          PROVE  job[v] # job[w]
      <3>1. Holding(v)
        BY <2>1 DEF FilesInv, Own, Holding, HoldingPcs
      <3> QED BY <1>1, <3>1 DEF NoOverlap
    <2> SUFFICES ASSUME NEW v \in Workers, fd'[v] # NoInode
                 PROVE  /\ \A u \in Workers : fd'[u] = fd'[v] => u = v
                        /\ \A e \in Entries : fd'[v] # final[e] /\ (fd'[v] = tmp'[e] => e = job[v])
      BY DEF OpenApart
    <2>2. CASE v = w
      BY <1>2, <1>3, <1>4, <2>2
    <2>3. CASE v # w
      BY <1>3, <1>4, <2>1, <2>3 DEF FilesInv, OpenApart
    <2> QED BY <2>2, <2>3
  <1>7. TmpInOrder'
    <2>1. \A e \in Entries \ {job[w]} : tmp[e] # NoInode => tmp[e] \in Inodes \ {i}
      BY <1>2 DEF Types, DiskTypes
    <2>2. \A e \in Entries \ {job[w]} : tmp[e] # NoInode => content'[tmp[e]] = content[tmp[e]]
      BY <2>1
    <2>3. \A e \in Entries \ {job[w]} : tmp[e] # NoInode => InOrder(content'[tmp[e]])
      BY <2>2 DEF FilesInv, TmpInOrder
    <2> QED BY <1>4, <2>3 DEF TmpInOrder
  <1>8. FinalWhole'
    <2>1. \A e \in Entries : final[e] # NoInode => content'[final[e]] = content[final[e]]
      BY <1>2 DEF Types, DiskTypes
    <2> QED BY <2>1 DEF FilesInv, FinalWhole
  <1>9. Own(w)'
    BY <1>1, <1>4 DEF Own, InOrder
  <1>10. ASSUME NEW v \in Workers \ {w} PROVE Own(v)'
    <2>1. Own(v) /\ pc'[v] = pc[v] /\ fd'[v] = fd[v] /\ pos'[v] = pos[v]
      BY <1>4 DEF FilesInv
    <2>2. ASSUME pc[v] \in {"copy", "rename"}
          PROVE  job[v] \in Entries /\ tmp'[job[v]] = tmp[job[v]] /\ tmp[job[v]] # i
      <3>1. job[v] \in Entries /\ Holding(v)
        BY <2>2 DEF Types, JobsNamed, WorkingPcs, HoldingPcs, Holding
      <3>2. job[v] # job[w]
        BY <1>1, <3>1 DEF NoOverlap
      <3> QED BY <1>2, <1>4, <3>1, <3>2
    <2>3. CASE pc[v] = "copy"
      <3>1. fd[v] \in Inodes \ {i}
        BY <1>3, <2>1, <2>3 DEF Own, Types, CallTypes
      <3>2. content'[fd[v]] = content[fd[v]]
        BY <3>1
      <3> QED BY <2>1, <2>2, <2>3, <3>2 DEF Own, InOrder
    <2>4. CASE pc[v] = "rename"
      <3>1. tmp[job[v]] # NoInode => tmp[job[v]] \in Inodes \ {i}
        BY <2>2, <2>4 DEF Types, DiskTypes
      <3>2. tmp[job[v]] # NoInode => content'[tmp[job[v]]] = content[tmp[job[v]]]
        BY <3>1
      <3> QED BY <2>1, <2>2, <2>4, <3>2 DEF Own, InOrder
    <2>5. CASE pc[v] \notin {"copy", "rename"}
      BY <2>1, <2>5 DEF Own
    <2> QED BY <2>3, <2>4, <2>5
  <1> QED BY <1>5, <1>6, <1>7, <1>8, <1>9, <1>10 DEF FilesInv

LEMMA StartFreshStep ==
    ASSUME Types, FilesInv, NoOverlap, NEW w \in Workers, StartFresh(w)
    PROVE  FilesInv'
  <1>1. PICK i \in IF tmp[job[w]] # NoInode /\ size[w] = 0
                    THEN {tmp[job[w]]} ELSE FreeInodes :
          /\ Open(w, i, FALSE)
          /\ tmp' = [tmp EXCEPT ![job[w]] = i]
          /\ content' = [content EXCEPT ![i] = <<>>]
    BY DEF StartFresh
  <1>2. pc[w] = "response" /\ i \in Inodes /\ (i = tmp[job[w]] \/ i \in FreeInodes)
    BY <1>1 DEF StartFresh, FreeInodes, Types, DiskTypes, JobsNamed, WorkingPcs, HoldingPcs
  <1>3. /\ pc' = [pc EXCEPT ![w] = "copy"]
        /\ fd' = [fd EXCEPT ![w] = i] /\ job' = job /\ final' = final
    BY <1>1 DEF Open, Goto
  <1>4. content'[i] = <<>> /\ \A j \in Inodes \ {i} : content'[j] = content[j]
    BY <1>1, <1>2 DEF Types, DiskTypes
  <1>5. pos'[w] = 0 /\ \A v \in Workers \ {w} : pos'[v] = pos[v]
    BY DEF StartFresh, Types, CallTypes
  <1>6. InOrder(content'[i]) /\ Len(content'[i]) = pos'[w]
    <2>1. Len(<<>>) = 0 /\ 1 .. 0 = {}
      OBVIOUS
    <2> QED BY <1>4, <1>5, <2>1 DEF InOrder
  <1> QED BY <1>1, <1>2, <1>3, <1>4, <1>5, <1>6, Opens

\* The length is the one the Range header was made from, so what follows fits.
LEMMA ResumeStep ==
    ASSUME Types, FilesInv, NoOverlap, NEW w \in Workers, Resume(w),
           ~Fails(w, "error", TempRemoved(w))
    PROVE  FilesInv'
  <1> DEFINE i == tmp[job[w]]
  <1>1. /\ pc[w] = "response" /\ i # NoInode /\ SizeAt(i) = size[w]
        /\ Open(w, i, TRUE) /\ pos' = [pos EXCEPT ![w] = size[w]]
        /\ tmp' = tmp /\ content' = content
    BY DEF Resume
  <1>2. job[w] \in Entries /\ i \in Inodes
    BY <1>1 DEF Types, DiskTypes, JobsNamed, WorkingPcs, HoldingPcs
  <1>3. /\ pc' = [pc EXCEPT ![w] = "copy"]
        /\ fd' = [fd EXCEPT ![w] = i] /\ job' = job /\ final' = final
    BY <1>1 DEF Open, Goto
  <1>4. pos'[w] = size[w] /\ \A v \in Workers \ {w} : pos'[v] = pos[v]
    BY <1>1 DEF Types, CallTypes
  <1>5. InOrder(content'[i]) /\ Len(content'[i]) = pos'[w]
    BY <1>1, <1>2, <1>4 DEF FilesInv, TmpInOrder, SizeAt
  <1>6. tmp' = [tmp EXCEPT ![job[w]] = i]
    BY <1>1, <1>2 DEF Types, DiskTypes
  <1>7. \A j \in Inodes \ {i} : content'[j] = content[j]
    BY <1>1
  <1> HIDE DEF i
  <1>8. i = tmp[job[w]] \/ i \in FreeInodes
    BY DEF i
  <1> QED BY <1>1, <1>2, <1>3, <1>4, <1>5, <1>6, <1>7, <1>8, Opens

\* A chunk after the last one, with O_APPEND or at the offset.
LEMMA ChunkInOrder ==
    ASSUME NEW s \in Seq(Chunks), InOrder(s), NEW c \in {Len(s) + 1, Wrong}
    PROVE  /\ Len(Append(s, c)) = Len(s) + 1 /\ InOrder(Append(s, c))
           /\ Len(WriteAt(s, Len(s) + 1, c)) = Len(s) + 1 /\ InOrder(WriteAt(s, Len(s) + 1, c))
  <1> DEFINE n == Len(s)
  <1>1. n \in Nat
    OBVIOUS
  <1>2. Len(Append(s, c)) = n + 1 /\ \A k \in 1 .. n + 1 :
            Append(s, c)[k] = IF k = n + 1 THEN c ELSE s[k]
    OBVIOUS
  <1>3. InOrder(Append(s, c))
    BY <1>1, <1>2 DEF InOrder
  <1> DEFINE u == WriteAt(s, n + 1, c)
  <1>4. u = [k \in 1 .. n + 1 |-> IF k = n + 1 THEN c ELSE IF k <= n THEN s[k] ELSE Wrong]
    BY <1>1 DEF WriteAt
  <1>5. Len(u) = n + 1
    BY <1>1, <1>4
  <1>6. \A k \in 1 .. n + 1 : u[k] = IF k = n + 1 THEN c ELSE s[k]
    BY <1>1, <1>4
  <1> HIDE DEF u
  <1>7. InOrder(u)
    BY <1>1, <1>5, <1>6 DEF InOrder
  <1> QED BY <1>2, <1>3, <1>5, <1>7 DEF u

LEMMA WriteChunkStep ==
    ASSUME Types, FilesInv, NoOverlap, NEW w \in Workers, WriteChunk(w)
    PROVE  FilesInv'
  <1> DEFINE i == fd[w]
             s == content[i]
  <1>1. /\ pc[w] = "copy" /\ i \in Inodes /\ i # NoInode /\ s \in Seq(Chunks)
        /\ Len(s) = pos[w] /\ InOrder(s) /\ job[w] \in Entries
        /\ tmp[job[w]] \in {i, NoInode}
    BY BoundsAssumption
    DEF WriteChunk, FilesInv, Own, Types, CallTypes, DiskTypes, JobsNamed, WorkingPcs, HoldingPcs
  <1>2. PICK c \in {Len(s) + 1, Wrong} :
          content' = [content EXCEPT ![i] =
                        IF append[w] THEN Append(s, c) ELSE WriteAt(s, Len(s) + 1, c)]
    BY <1>1 DEF WriteChunk
  <1>3. /\ Len(content'[i]) = pos[w] + 1 /\ InOrder(content'[i])
        /\ \A j \in Inodes \ {i} : content'[j] = content[j]
    BY <1>1, <1>2, ChunkInOrder DEF Types, DiskTypes
  <1>4. /\ UNCHANGED <<tmp, final, pc, job, fd>>
        /\ pos'[w] = pos[w] + 1 /\ \A v \in Workers \ {w} : pos'[v] = pos[v]
    BY DEF WriteChunk, Types, CallTypes
  <1>5. /\ \A e \in Entries : final[e] # i /\ (tmp[e] = i => e = job[w])
        /\ \A v \in Workers \ {w} : fd[v] # i
    BY <1>1 DEF FilesInv, OpenApart
  <1>6. PathsApart' /\ OpenApart'
    BY <1>4 DEF FilesInv, PathsApart, OpenApart
  <1>7. FinalWhole'
    <2>1. \A e \in Entries : final[e] # NoInode => content'[final[e]] = content[final[e]]
      BY <1>3, <1>5 DEF Types, DiskTypes
    <2> QED BY <1>4, <2>1 DEF FilesInv, FinalWhole
  <1>8. TmpInOrder'
    <2>1. \A e \in Entries : tmp[e] # NoInode /\ tmp[e] # i => content'[tmp[e]] = content[tmp[e]]
      BY <1>3 DEF Types, DiskTypes
    <2> QED BY <1>3, <1>4, <2>1 DEF FilesInv, TmpInOrder, InOrder
  <1>9. Own(w)'
    BY <1>1, <1>3, <1>4 DEF FilesInv, Own, InOrder
  <1>10. ASSUME NEW v \in Workers \ {w} PROVE Own(v)'
    <2>1. Own(v) /\ UNCHANGED <<tmp, pc, job, fd>> /\ pos'[v] = pos[v]
      BY <1>4 DEF FilesInv
    <2>2. CASE pc[v] = "copy"
      <3>1. fd[v] \in Inodes \ {i}
        BY <1>5, <2>1, <2>2 DEF Own, Types, CallTypes
      <3>2. content'[fd[v]] = content[fd[v]]
        BY <1>3, <3>1
      <3> QED BY <2>1, <2>2, <3>2 DEF Own, InOrder
    <2>3. CASE pc[v] = "rename"
      <3>1. job[v] \in Entries /\ Holding(v) /\ Holding(w)
        BY <1>1, <2>3 DEF Types, JobsNamed, WorkingPcs, HoldingPcs, Holding
      <3>2. tmp[job[v]] # NoInode => tmp[job[v]] \in Inodes \ {i}
        BY <1>5, <3>1 DEF Types, DiskTypes, NoOverlap
      <3>3. tmp[job[v]] # NoInode => content'[tmp[job[v]]] = content[tmp[job[v]]]
        BY <1>3, <3>2
      <3> QED BY <2>1, <2>3, <3>3 DEF Own
    <2>4. CASE pc[v] \notin {"copy", "rename"}
      BY <2>1, <2>4 DEF Own
    <2> QED BY <2>2, <2>3, <2>4
  <1> QED BY <1>6, <1>7, <1>8, <1>9, <1>10 DEF FilesInv

LEMMA FinishCopyStep ==
    ASSUME Types, FilesInv, NEW w \in Workers, FinishCopy(w)
    PROVE  FilesInv'
  <1>1. /\ pc[w] = "copy" /\ pos[w] = NChunks
        /\ fd' = [fd EXCEPT ![w] = NoInode] /\ pc' = [pc EXCEPT ![w] = "rename"]
        /\ UNCHANGED <<tmp, final, content, job, pos>>
    BY DEF FinishCopy, Goto, disk
  <1>2. /\ \A v \in Workers : fd'[v] = IF v = w THEN NoInode ELSE fd[v]
        /\ \A v \in Workers : pc'[v] = IF v = w THEN "rename" ELSE pc[v]
    BY <1>1 DEF Types, CallTypes
  <1>3. PathsApart' /\ TmpInOrder' /\ FinalWhole'
    BY <1>1 DEF FilesInv, PathsApart, TmpInOrder, FinalWhole
  <1>4. OpenApart'
    BY <1>1, <1>2 DEF FilesInv, OpenApart
  <1>5. Own(w)'
    BY <1>1, <1>2 DEF FilesInv, Own
  <1>6. ASSUME NEW v \in Workers \ {w} PROVE Own(v)'
    BY <1>1, <1>2 DEF FilesInv, Own
  <1> QED BY <1>3, <1>4, <1>5, <1>6 DEF FilesInv

LEMMA RenameStep ==
    ASSUME Types, FilesInv, NoOverlap, NEW w \in Workers, Rename(w), ~Fails(w, "error", tmp)
    PROVE  FilesInv'
  <1> DEFINE i == tmp[job[w]]
  <1>1. /\ pc[w] = "rename" /\ i # NoInode
        /\ final' = [final EXCEPT ![job[w]] = i]
        /\ tmp' = [tmp EXCEPT ![job[w]] = NoInode]
        /\ UNCHANGED <<content, job, fd, pos>>
        /\ \E where \in {"checksum", "return"} : pc' = [pc EXCEPT ![w] = where]
    BY DEF Rename, TempRemoved, Goto
  <1>2. job[w] \in Entries /\ i \in Inodes /\ fd[w] = NoInode
    BY <1>1 DEF FilesInv, Own, Types, DiskTypes, JobsNamed, WorkingPcs, HoldingPcs
  <1>3. Len(content[i]) = NChunks /\ InOrder(content[i])
    BY <1>1, <1>2 DEF FilesInv, Own, TmpInOrder
  <1>4. /\ \A e \in Entries : final'[e] = IF e = job[w] THEN i ELSE final[e]
        /\ \A e \in Entries : tmp'[e] = IF e = job[w] THEN NoInode ELSE tmp[e]
        /\ pc'[w] \notin {"copy", "rename"} /\ \A v \in Workers \ {w} : pc'[v] = pc[v]
    BY <1>1, <1>2 DEF Types, CallTypes, DiskTypes
  <1>5. PathsApart'
    BY <1>1, <1>2, <1>4 DEF FilesInv, PathsApart
  <1>6. OpenApart'
    <2>1. \A v \in Workers : fd[v] # i
      <3> SUFFICES ASSUME NEW v \in Workers, fd[v] = i PROVE FALSE
        OBVIOUS
      <3>1. job[w] = job[v] /\ pc[v] = "copy"
        BY <1>1, <1>2 DEF FilesInv, OpenApart, Own
      <3> QED BY <1>1, <3>1 DEF NoOverlap, Holding, HoldingPcs
    <2> QED BY <1>1, <1>4, <2>1 DEF FilesInv, OpenApart
  <1>7. TmpInOrder'
    BY <1>1, <1>4 DEF FilesInv, TmpInOrder
  <1>8. FinalWhole'
    <2>1. \A k \in 1 .. NChunks : content[i][k] \in {k, Wrong}
      BY <1>3 DEF InOrder
    <2> QED BY <1>1, <1>3, <1>4, <2>1 DEF FilesInv, FinalWhole
  <1>9. Own(w)'
    BY <1>1, <1>2, <1>4 DEF Own
  <1>10. ASSUME NEW v \in Workers \ {w} PROVE Own(v)'
    <2>1. Own(v) /\ pc'[v] = pc[v] /\ UNCHANGED <<content, job, fd, pos>>
      BY <1>1, <1>4 DEF FilesInv
    <2>2. pc[v] \in {"copy", "rename"} => tmp'[job[v]] \in {tmp[job[v]], NoInode}
      BY <1>4 DEF Types, JobsNamed, WorkingPcs, HoldingPcs
    <2> QED BY <2>1, <2>2 DEF Own
  <1> QED BY <1>5, <1>6, <1>7, <1>8, <1>9, <1>10 DEF FilesInv

\* Leaving with an error, the temp path kept or removed.
LEMMA FailsStep ==
    ASSUME Types, FilesInv, NEW w \in Workers, NEW why, NEW paths \in {tmp, TempRemoved(w)},
           Fails(w, why, paths)
    PROVE  FilesInv'
  <1>1. /\ fd' = [fd EXCEPT ![w] = NoInode] /\ pc' = [pc EXCEPT ![w] = "return"]
        /\ UNCHANGED <<final, content, job, pos>> /\ tmp' = paths
    BY DEF Fails, Goto
  <1>2. /\ fd'[w] = NoInode /\ pc'[w] = "return"
        /\ \A v \in Workers \ {w} : fd'[v] = fd[v] /\ pc'[v] = pc[v]
    BY <1>1 DEF Types, CallTypes
  <1>3. \A e \in Entries : tmp'[e] \in {tmp[e], NoInode}
    BY <1>1 DEF TempRemoved, Types, DiskTypes
  <1> QED BY <1>1, <1>2, <1>3, Recedes

\* The steps of the queue between two downloads.
LEMMA QueueFiles ==
    ASSUME Types, FilesInv, QueueStep
    PROVE  FilesInv'
  <1>1. Queue \in Workers /\ pc \in [Workers -> Pcs] /\ job \in [Workers -> Entries \cup {NoEntry}]
    BY DEF Workers, Types, CallTypes
  <1>2. UNCHANGED <<final, content, fd, pos>>
    BY DEF QueueStep, ProcessQueue, MarkStale, StaleChecked, QueueDone, Report, ResetStale, Pick,
           Begin, disk
  <1>3. \A e \in Entries : tmp'[e] \in {tmp[e], NoInode}
    BY DEF QueueStep, ProcessQueue, MarkStale, StaleChecked, QueueDone, Report, ResetStale, Pick,
           disk, Types, DiskTypes
  <1>4. pc[Queue] # "copy" /\ pc'[Queue] \notin {"copy", "rename"}
    BY <1>1
    DEF QueueStep, ProcessQueue, MarkStale, StaleChecked, QueueDone, Report, ResetStale, Pick,
        Begin, Goto
  <1>5. \A v \in Workers \ {Queue} : pc'[v] = pc[v] /\ job'[v] = job[v]
    BY <1>1
    DEF QueueStep, ProcessQueue, MarkStale, StaleChecked, QueueDone, Report, ResetStale, Pick,
        Begin, Goto
  <1>6. fd'[Queue] = NoInode
    BY <1>1, <1>2, <1>4 DEF FilesInv, Own
  <1> QED BY <1>1, <1>2, <1>3, <1>4, <1>5, <1>6, Recedes

LEMMA FilesNext ==
    ASSUME Types, FilesInv, NoOverlap, [Next]_vars
    PROVE  FilesInv'
  <1>1. Queue \in Workers
    BY DEF Workers
  <1>2. CASE UNCHANGED <<tmp, content, pc, job, fd, pos>>
             /\ \A e \in Entries : final'[e] \in {final[e], NoInode}
    BY <1>1, <1>2, Recedes
  <1>3. CASE UNCHANGED vars
    BY <1>2, <1>3 DEF vars, disk, call
  <1>4. ASSUME NEW r \in Requests, Request(r) PROVE FilesInv'
    BY <1>2, <1>4, RequestFrame DEF disk
  <1>5. ASSUME NEW e \in Entries, DeleteISO(e) PROVE FilesInv'
    BY <1>2, <1>5 DEF DeleteISO, call, Types, DiskTypes
  <1>6. ASSUME NEW d \in Direct, ClientGone(d) PROVE FilesInv'
    BY <1>2, <1>6 DEF ClientGone, disk
  <1>7. ASSUME NEW d \in Direct, NEW e \in Entries, DownloadFromCatalog(d, e) PROVE FilesInv'
    <2>1. /\ d \in Workers /\ UNCHANGED <<tmp, final, content, fd, pos>>
          /\ pc[d] = "idle" /\ pc' = [pc EXCEPT ![d] = "acquire"] /\ job' = [job EXCEPT ![d] = e]
      BY <1>7 DEF DownloadFromCatalog, Begin, Goto, disk, Workers
    <2>2. /\ pc'[d] = "acquire" /\ \A v \in Workers \ {d} : pc'[v] = pc[v] /\ job'[v] = job[v]
      BY <2>1 DEF Types, CallTypes
    <2>3. fd'[d] = NoInode
      BY <2>1 DEF FilesInv, Own
    <2> QED BY <2>1, <2>2, <2>3, Recedes
  <1>8. CASE CrashRestart
    <2>1. /\ UNCHANGED <<tmp, final, content>>
          /\ \A w \in Workers : fd'[w] = NoInode /\ pc'[w] = "idle"
      BY <1>8 DEF CrashRestart, disk
    <2>2. PathsApart' /\ TmpInOrder' /\ FinalWhole'
      BY <2>1 DEF FilesInv, PathsApart, TmpInOrder, FinalWhole
    <2>3. OpenApart' /\ \A w \in Workers : Own(w)'
      BY <2>1 DEF OpenApart, Own
    <2> QED BY <2>2, <2>3 DEF FilesInv
  <1>9. ASSUME NEW w \in Workers, Acquire(w) \/ StatTemp(w) PROVE FilesInv'
    <2>1. /\ UNCHANGED <<tmp, final, content, job, fd, pos>> /\ pc[w] # "copy"
          /\ pc'[w] \notin {"copy", "rename"} /\ \A v \in Workers \ {w} : pc'[v] = pc[v]
      BY <1>9 DEF Acquire, StatTemp, Goto, disk, Types, CallTypes
    <2>2. fd'[w] = NoInode
      BY <2>1 DEF FilesInv, Own
    <2> QED BY <2>1, <2>2, Recedes
  <1>10. ASSUME NEW w \in Workers, Return(w) PROVE FilesInv'
    <2>1. /\ UNCHANGED <<tmp, final, content, fd>> /\ pc[w] = "return"
          /\ pc'[w] \notin {"copy", "rename"}
          /\ \A v \in Workers \ {w} : pc'[v] = pc[v] /\ job'[v] = job[v] /\ pos'[v] = pos[v]
      BY <1>10 DEF Return, Goto, disk, Types, CallTypes
    <2>2. fd'[w] = NoInode
      BY <2>1 DEF FilesInv, Own
    <2> QED BY <2>1, <2>2, Recedes
  <1>11. ASSUME NEW w \in Workers, Checksum(w) PROVE FilesInv'
    <2>1. /\ UNCHANGED <<tmp, content, job, fd, pos>> /\ pc[w] = "checksum"
          /\ \A e \in Entries : final'[e] \in {final[e], NoInode}
          /\ pc'[w] = "return" /\ \A v \in Workers \ {w} : pc'[v] = pc[v]
      BY <1>11 DEF Checksum, Goto, Types, CallTypes, DiskTypes
    <2>2. fd'[w] = NoInode
      BY <2>1 DEF FilesInv, Own
    <2> QED BY <2>1, <2>2, Recedes
  <1>12. ASSUME NEW w \in Workers, RequestFails(w) \/ CopyInterrupted(w) \/ CopyBroken(w)
         PROVE  FilesInv'
    BY <1>12, FailsStep DEF RequestFails, CopyInterrupted, CopyBroken
  <1>13. ASSUME NEW w \in Workers, Resume(w) \/ Rename(w) PROVE FilesInv'
    BY <1>13, FailsStep, ResumeStep, RenameStep
  <1> QED
    BY <1>3, <1>4, <1>5, <1>6, <1>7, <1>8, <1>9, <1>10, <1>11, <1>12, <1>13,
       QueueFiles, StartFreshStep, WriteChunkStep, FinishCopyStep
    DEF Next, Work, Step

LEMMA FilesInit == Init => FilesInv
  <1> SUFFICES ASSUME Init PROVE FilesInv
    OBVIOUS
  <1>1. /\ \A e \in Entries : tmp[e] = NoInode /\ final[e] = NoInode
        /\ \A w \in Workers : fd[w] = NoInode /\ pc[w] = "idle"
    BY DEF Init
  <1>2. PathsApart /\ OpenApart /\ TmpInOrder /\ FinalWhole
    BY <1>1 DEF PathsApart, OpenApart, TmpInOrder, FinalWhole
  <1>3. \A w \in Workers : Own(w)
    BY <1>1 DEF Own
  <1> QED BY <1>2, <1>3 DEF FilesInv

\* A resume never doubles, skips or mixes bytes: as long as no two downloads of
\* the same entry overlap, what reaches the final path is the image in length
\* and order, after any number of cancels, lost connections and crashes.
THEOREM ResumeKeepsOrder == Spec /\ []NoOverlap => []FinalWhole
  <1>1. Types /\ FilesInv /\ NoOverlap /\ [Next]_vars => (Types /\ FilesInv)'
    BY TypesNext, FilesNext
  <1>2. FilesInv => FinalWhole
    BY DEF FilesInv
  <1> QED BY <1>1, <1>2, TypesInit, FilesInit, PTL DEF Spec

\* With one slot the semaphore itself keeps downloads apart, those of requests
\* and those of the queue.
THEOREM OneSlotKeepsOrder ==
    ASSUME MaxConcurrent = 1
    PROVE  Spec => []FinalWhole
  <1>1. SlotsInv => NoOverlap
    <2> SUFFICES ASSUME SlotsInv, NEW v \in Workers, NEW w \in Workers, Holding(v), Holding(w), v # w
                 PROVE  FALSE
      BY DEF NoOverlap
    <2>1. IsFiniteSet(slots) /\ Cardinality(slots) <= 1 /\ {v, w} \subseteq slots
      BY DEF SlotsInv, SlotsBounded
    <2>2. Cardinality({v, w}) <= Cardinality(slots) /\ Cardinality(slots) \in Nat
      BY <2>1, FS_Subset, FS_CardinalityType
    <2>3. Cardinality({v} \cup {w}) = 2 /\ {v, w} = {v} \cup {w}
      <3>1. IsFiniteSet({v}) /\ Cardinality({v}) = 1 /\ w \notin {v}
        BY FS_Singleton
      <3>2. Cardinality({v} \cup {w}) = 1 + 1
        BY <3>1, FS_AddElement
      <3> QED BY <3>2
    <2> QED BY <2>1, <2>2, <2>3
  <1>2. Types /\ SlotsInv /\ [Next]_vars => (Types /\ SlotsInv)'
    BY TypesNext, SlotsNext
  <1>3. Spec => []NoOverlap
    BY <1>1, <1>2, TypesInit, SlotsInit, PTL DEF Spec
  <1> QED BY <1>3, ResumeKeepsOrder, PTL

-----------------------------------------------------------------------------
(* The report. *)

\* No two workers are busy with the same entry, from the start of a download to
\* its return, and for the queue to its report.
OwnEntry ==
    \A v, w \in Workers : job[v] = job[w] /\ job[v] # NoEntry => v = w

\* What the queue is about to report as done has its checksum.
Verified ==
    /\ pc[Queue] \in {"return", "report"}
    /\ result[Queue] = "ok"
    /\ job[Queue] \in Checksummed
    => (final[job[Queue]] # NoInode => content[final[job[Queue]]] = Whole)

LEMMA OwnEntryNoOverlap == Types /\ OwnEntry => NoOverlap
  BY ActorsAssumption DEF Types, JobsNamed, WorkingPcs, OwnEntry, NoOverlap, Holding

\* While the queue returns and reports, nobody puts another file at its entry's
\* final path or writes to the one there.
LEMMA FinalUntouched ==
    ASSUME Types, FilesInv, OwnEntry, [Next]_vars, pc[Queue] \in {"return", "report"}
    PROVE  \/ final'[job[Queue]] = NoInode
           \/ /\ final'[job[Queue]] = final[job[Queue]]
              /\ final[job[Queue]] # NoInode =>
                     content'[final[job[Queue]]] = content[final[job[Queue]]]
  <1> DEFINE e == job[Queue]
             Goal == \/ final'[e] = NoInode
                     \/ /\ final'[e] = final[e]
                        /\ final[e] # NoInode => content'[final[e]] = content[final[e]]
  <1> SUFFICES Goal
    OBVIOUS
  <1>1. Queue \in Workers /\ e \in Entries /\ e # NoEntry
    BY ActorsAssumption DEF Workers, Types, JobsNamed, WorkingPcs, HoldingPcs
  <1>2. CASE UNCHANGED <<final, content>>
    BY <1>2
  <1>3. CASE UNCHANGED vars
    BY <1>2, <1>3 DEF vars, disk
  <1>4. ASSUME NEW r \in Requests, Request(r) PROVE Goal
    BY <1>2, <1>4, RequestFrame DEF disk
  <1>5. ASSUME NEW g \in Entries, DeleteISO(g) PROVE Goal
    BY <1>1, <1>5 DEF DeleteISO, Types, DiskTypes
  <1>6. ASSUME NEW d \in Direct, ClientGone(d) \/ \E g \in Entries : DownloadFromCatalog(d, g)
        PROVE  Goal
    BY <1>2, <1>6 DEF ClientGone, DownloadFromCatalog, disk
  <1>7. CASE QueueStep \/ CrashRestart
    BY <1>2, <1>7
    DEF QueueStep, ProcessQueue, MarkStale, StaleChecked, QueueDone, Report, ResetStale, Pick,
        CrashRestart, disk
  <1>8. ASSUME NEW w \in Workers, Acquire(w) \/ Step(w) PROVE Goal
    <2>1. ASSUME NEW why, NEW paths, Fails(w, why, paths) PROVE Goal
      BY <1>2, <2>1 DEF Fails
    <2>2. CASE Acquire(w) \/ StatTemp(w) \/ FinishCopy(w) \/ Return(w)
      BY <1>2, <2>2 DEF Acquire, StatTemp, FinishCopy, Return, disk
    <2>3. CASE RequestFails(w) \/ CopyInterrupted(w) \/ CopyBroken(w)
      BY <2>1, <2>3 DEF RequestFails, CopyInterrupted, CopyBroken
    <2>4. CASE Resume(w)
      BY <1>2, <2>1, <2>4 DEF Resume, Open
    <2>5. CASE StartFresh(w)
      <3>1. PICK i \in IF tmp[job[w]] # NoInode /\ size[w] = 0
                        THEN {tmp[job[w]]} ELSE FreeInodes :
              /\ Open(w, i, FALSE)
              /\ content' = [content EXCEPT ![i] = <<>>]
        BY <2>5 DEF StartFresh
      <3>2. job[w] \in Entries
        BY <2>5 DEF StartFresh, Types, JobsNamed, WorkingPcs, HoldingPcs
      <3>3. final[e] # NoInode => final[e] # i
        BY <1>1, <3>1, <3>2 DEF FreeInodes, FilesInv, PathsApart
      <3> QED BY <1>1, <3>1, <3>3 DEF Open, Types, DiskTypes
    <2>6. CASE WriteChunk(w)
      <3>1. fd[w] # NoInode
        BY <2>6 DEF WriteChunk, FilesInv, Own
      <3>2. final[e] # fd[w]
        BY <1>1, <3>1 DEF FilesInv, OpenApart
      <3>3. final' = final /\ \E c : content' = [content EXCEPT ![fd[w]] = c]
        BY <2>6 DEF WriteChunk
      <3> QED BY <1>1, <3>2, <3>3 DEF Types, DiskTypes
    <2>7. CASE Rename(w)
      <3>1. job[w] # e
        <4>1. w # Queue
          BY <2>7 DEF Rename
        <4> QED BY <1>1, <4>1 DEF OwnEntry
      <3>2. CASE Fails(w, "error", tmp)
        BY <2>1, <3>2
      <3>3. CASE final' = [final EXCEPT ![job[w]] = tmp[job[w]]] /\ content' = content
        BY <1>1, <3>1, <3>3 DEF Types, DiskTypes
      <3> QED BY <2>7, <3>2, <3>3 DEF Rename
    <2>8. CASE Checksum(w)
      BY <1>1, <2>8 DEF Checksum, Types, DiskTypes
    <2> QED BY <1>8, <2>2, <2>3, <2>4, <2>5, <2>6, <2>7, <2>8 DEF Step
  <1> QED BY <1>3, <1>4, <1>5, <1>6, <1>7, <1>8 DEF Next, Work

\* The queue comes to return or report with "ok" only from there, without a
\* checksum, or with the right one.
LEMMA ReturnsOk ==
    ASSUME Types, [Next]_vars,
           pc'[Queue] \in {"return", "report"}, result'[Queue] = "ok", job'[Queue] \in Checksummed,
           final'[job'[Queue]] # NoInode
    PROVE  \/ content'[final'[job'[Queue]]] = Whole
           \/ /\ pc[Queue] \in {"return", "report"} /\ result[Queue] = "ok"
              /\ job'[Queue] = job[Queue]
  <1> DEFINE Goal == \/ content'[final'[job'[Queue]]] = Whole
                     \/ /\ pc[Queue] \in {"return", "report"} /\ result[Queue] = "ok"
                        /\ job'[Queue] = job[Queue]
  <1> SUFFICES Goal
    OBVIOUS
  <1>1. /\ Queue \in Workers /\ Queue \notin Direct
        /\ pc \in [Workers -> Pcs] /\ result \in [Workers -> Results]
        /\ job \in [Workers -> Entries \cup {NoEntry}]
    BY ActorsAssumption DEF Workers, Types, CallTypes
  <1>2. CASE pc'[Queue] = pc[Queue] /\ result'[Queue] = result[Queue] /\ job'[Queue] = job[Queue]
    BY <1>2
  <1>3. CASE UNCHANGED vars
    BY <1>2, <1>3 DEF vars, call
  <1>4. ASSUME NEW r \in Requests, Request(r) PROVE Goal
    BY <1>2, <1>4, RequestFrame
  <1>5. ASSUME NEW g \in Entries, DeleteISO(g) PROVE Goal
    BY <1>2, <1>5 DEF DeleteISO, call
  <1>6. ASSUME NEW d \in Direct, ClientGone(d) PROVE Goal
    BY <1>2, <1>6 DEF ClientGone
  <1>7. ASSUME NEW d \in Direct, NEW g \in Entries, DownloadFromCatalog(d, g) PROVE Goal
    <2>1. d # Queue
      BY <1>1
    <2> QED BY <1>1, <1>2, <1>7, <2>1 DEF DownloadFromCatalog, Begin, Goto
  <1>8. ~QueueStep
    BY <1>1
    DEF QueueStep, ProcessQueue, MarkStale, StaleChecked, QueueDone, Report, ResetStale, Pick,
        Begin, Goto
  <1>9. ~CrashRestart
    BY <1>1 DEF CrashRestart
  <1>10. ASSUME NEW w \in Workers \ {Queue}, Acquire(w) \/ Step(w) PROVE Goal
    BY <1>1, <1>2, <1>10
    DEF Acquire, Step, StatTemp, RequestFails, StartFresh, Resume, WriteChunk, CopyInterrupted,
        CopyBroken, FinishCopy, Rename, Checksum, Return, Fails, Open, Goto
  <1>11. ASSUME Acquire(Queue) \/ Step(Queue) PROVE Goal
    <2>1. ASSUME NEW why, NEW paths, Fails(Queue, why, paths), why # "ok" PROVE FALSE
      BY <1>1, <2>1 DEF Fails
    <2>2. ~(Acquire(Queue) \/ StatTemp(Queue) \/ FinishCopy(Queue))
      BY <1>1 DEF Acquire, StatTemp, FinishCopy, Goto
    <2>3. ~(RequestFails(Queue) \/ CopyInterrupted(Queue) \/ CopyBroken(Queue))
      BY <2>1 DEF RequestFails, CopyInterrupted, CopyBroken
    <2>4. ~StartFresh(Queue) /\ ~Resume(Queue) /\ ~WriteChunk(Queue)
      BY <1>1, <2>1 DEF StartFresh, Resume, WriteChunk, Open, Goto
    <2>5. ~Rename(Queue)
      BY <1>1, <2>1 DEF Rename, Goto
    <2>6. CASE Checksum(Queue)
      <3>1. job'[Queue] = job[Queue] /\ content' = content
        BY <2>6 DEF Checksum
      <3>2. final[job[Queue]] # NoInode /\ content[final[job[Queue]]] = Whole /\ final' = final
        BY <1>1, <2>6 DEF Checksum
      <3> QED BY <3>1, <3>2
    <2>7. CASE Return(Queue)
      BY <2>7 DEF Return
    <2> QED BY <1>11, <2>2, <2>3, <2>4, <2>5, <2>6, <2>7 DEF Step
  <1> QED BY <1>3, <1>4, <1>5, <1>6, <1>7, <1>8, <1>9, <1>10, <1>11 DEF Next, Work

LEMMA VerifiedNext ==
    ASSUME Types, FilesInv, OwnEntry, Verified, [Next]_vars
    PROVE  Verified'
  <1> SUFFICES ASSUME pc'[Queue] \in {"return", "report"}, result'[Queue] = "ok",
                      job'[Queue] \in Checksummed, final'[job'[Queue]] # NoInode
               PROVE  content'[final'[job'[Queue]]] = Whole
    BY DEF Verified
  <1>1. CASE /\ pc[Queue] \in {"return", "report"} /\ result[Queue] = "ok"
             /\ job'[Queue] = job[Queue]
    BY <1>1, FinalUntouched DEF Verified
  <1> QED BY <1>1, ReturnsOk

\* The change of download_status that ReportedVerified is about.
LEMMA ReportsVerified ==
    ASSUME Types, Verified, [Next]_vars, NEW e \in Checksummed,
           pc[Queue] = "report", dl[e] # "downloaded", dl'[e] = "downloaded",
           final[e] # NoInode
    PROVE  content[final[e]] = Whole
  <1>1. e \in Entries /\ dl \in [Entries -> Statuses]
    BY ActorsAssumption DEF Types, RowTypes
  <1>2. ~UNCHANGED rows
    BY DEF rows
  <1>3. ASSUME NEW r \in Requests, Request(r) PROVE FALSE
    BY <1>1, <1>2, <1>3
    DEF Request, QueueDownloadAll, CancelFires, RequestLost, RetryCatalogDownload, CancelDownload,
        WritePending
  <1>4. ASSUME NEW g \in Entries, DeleteISO(g) PROVE FALSE
    BY <1>2, <1>4 DEF DeleteISO
  <1>5. ASSUME NEW d \in Direct, ClientGone(d) \/ \E g \in Entries : DownloadFromCatalog(d, g)
        PROVE  FALSE
    BY <1>2, <1>5 DEF ClientGone, DownloadFromCatalog
  <1>6. ASSUME NEW w \in Workers, Acquire(w) \/ Step(w) PROVE FALSE
    BY <1>2, <1>6, StepFrame
  <1>7. ~CrashRestart
    BY <1>2 DEF CrashRestart
  <1>8. ~UNCHANGED vars
    BY <1>2 DEF vars
  <1>9. QueueStep
    BY <1>3, <1>4, <1>5, <1>6, <1>7, <1>8 DEF Next, Work
  <1>10. Report
    BY <1>9 DEF QueueStep, ProcessQueue, MarkStale, StaleChecked, QueueDone, ResetStale, Pick
  <1>11. e = job[Queue] /\ result[Queue] = "ok"
    BY <1>1, <1>10 DEF Report
  <1> QED BY <1>11 DEF Verified

LEMMA VerifiedInit == Init => Verified
  BY DEF Init, Verified, Workers

\* The queue never reports an image whose checksum is wrong: as long as no
\* request downloads the same entry beside it, an entry with a checksum becomes
\* 'downloaded' only with the right bytes at its final path.
THEOREM ReportsAreVerified == Spec /\ []OwnEntry => ReportedVerified
  <1> DEFINE A == \A e \in Checksummed :
          (pc[Queue] = "report" /\ dl[e] # "downloaded" /\ dl'[e] = "downloaded")
              => (final[e] # NoInode => content[final[e]] = Whole)
             I == Types /\ FilesInv /\ Verified
  <1>1. Init => I
    BY TypesInit, FilesInit, VerifiedInit
  <1>2. I /\ OwnEntry /\ [Next]_vars => I'
    BY TypesNext, FilesNext, VerifiedNext, OwnEntryNoOverlap
  <1>3. I /\ [Next]_vars => [A]_vars
    BY ReportsVerified
  <1> HIDE DEF A, I
  <1>4. Spec /\ []OwnEntry => [][A]_vars
    BY <1>1, <1>2, <1>3, PTL DEF Spec
  <1> QED BY <1>4 DEF ReportedVerified, A

\* The queue works on one entry at a time, so that alone it needs no hypothesis.
THEOREM QueueAlone ==
    ASSUME Direct = {}
    PROVE  Spec => []FinalWhole /\ ReportedVerified
  <1>1. OwnEntry /\ NoOverlap
    BY DEF OwnEntry, NoOverlap, Workers
  <1> QED BY <1>1, ResumeKeepsOrder, ReportsAreVerified, PTL

=============================================================================
