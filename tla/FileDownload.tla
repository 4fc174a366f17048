---------------------------- MODULE FileDownload ----------------------------
(***************************************************************************)
(* The download pipeline of MiBeeHive: FileService.DownloadFile with its   *)
(* semaphore, temp file and atomic rename; the rows of the files table     *)
(* that FileRepo updates one SQL statement at a time; and the four actors  *)
(* that reach them:                                                        *)
(*   - the crawl of a project (one at a time: TriggerCrawl's TryLock),     *)
(*   - the retry worker (a tick every five minutes: ListRetryable, one     *)
(*     DownloadFile after the other, then ResetZombieDownloads),           *)
(*   - an admin's POST /files/{id}/retry, which downloads in a goroutine,  *)
(*   - a restart of the process, which begins with ResetZombieDownloads.   *)
(*                                                                         *)
(* A step is one SQL statement (the write pool has one connection, so a    *)
(* statement is atomic) or one file-system call.  A file on disk is an     *)
(* inode: os.Create of an existing path truncates the inode that is there, *)
(* an unlinked inode stays writable through open descriptors, and a rename *)
(* moves the inode, descriptors and all.                                   *)
(***************************************************************************)
EXTENDS Naturals, FiniteSets

CONSTANTS
    Files,          \* the assets upstream offers: (project, filename) pairs
    Projects,       \* the projects; each is crawled by at most one goroutine
    Admins,         \* bound: concurrent admin retry requests
    Retrier,        \* the retry worker
    ProjectOf,      \* the project that offers a file
    Kind,           \* what the filename's suffix says: "targz", "zip", "other"
    SizeKnown,      \* the files whose SizeBytes upstream announces
    MaxConcurrent,  \* cfg.Crawler.MaxConcurrent, the semaphore's capacity
    MaxRetries,     \* maxRetries / maxDownloadRetries (3 in the code)
    ListLimit,      \* LIMIT of ListRetryable (20 in the code)
    NChunks,        \* bound: a body arrives in this many writes
    Inodes,         \* bound: file-system objects
    NoInode, NoFile

Workers == Projects \cup Admins \cup {Retrier}

ASSUME WorkersDisjoint ==
    /\ Retrier \notin Projects \cup Admins
    /\ Projects \cap Admins = {}

ASSUME FilesAssumption ==
    /\ ProjectOf \in [Files -> Projects]
    /\ Kind \in [Files -> {"targz", "zip", "other"}]
    /\ SizeKnown \subseteq Files
    /\ NoFile \notin Files

ASSUME BoundsAssumption ==
    /\ MaxConcurrent \in Nat \ {0}
    /\ MaxRetries \in Nat \ {0}
    /\ ListLimit \in Nat \ {0}
    /\ NChunks \in Nat \ {0}
    /\ NoInode \notin Inodes

VARIABLES
    status,     \* files.status; "absent" while there is no row
    retry,      \* files.retry_count
    temp,       \* the inode at .download-<filename>
    final,      \* the inode at local_path
    content,    \* the chunks of the body an inode holds
    slots,      \* the workers whose token is in the semaphore channel
    pc,         \* where a worker is
    job,        \* the file it works on
    try,        \* DownloadFile's attempt
    fd,         \* the inode its open temp file descriptor refers to
    pos,        \* chunks it has written through fd
    cancelled,  \* whether the worker's context is done
    batch,      \* the retry worker's snapshot from ListRetryable
    zombies     \* its snapshot from ResetZombieDownloads' SELECT

rows   == <<status, retry>>
disk   == <<temp, final, content>>
stream == <<try, fd, pos>>
tick   == <<batch, zombies>>
vars   == <<rows, disk, slots, pc, job, stream, cancelled, tick>>

-----------------------------------------------------------------------------
Statuses == {"absent", "pending", "downloading", "complete", "error",
             "failed_permanent"}

\* DownloadFile between acquiring its slot and releasing it.
HoldingPcs == {"prepare", "request", "backoff", "copy", "verify", "rename",
               "commit", "fail", "readretry", "markperm", "exit"}
RetrierPcs == {"next", "zombie", "zcomplete", "zpending"}
Pcs == {"idle", "reset", "acquire"} \cup HoldingPcs \cup RetrierPcs

Holding(w) == pc[w] \in HoldingPcs

Whole == 1 .. NChunks

\* os.Stat of the path finds a file with content.
NonEmptyAt(i) == i # NoInode /\ content[i] # {}

FreeInodes ==
    {i \in Inodes : /\ \A f \in Files : temp[f] # i /\ final[f] # i
                    /\ \A w \in Workers : fd[w] # i}

Init ==
    /\ status = [f \in Files |-> "absent"]
    /\ retry = [f \in Files |-> 0]
    /\ temp = [f \in Files |-> NoInode]
    /\ final = [f \in Files |-> NoInode]
    /\ content = [i \in Inodes |-> {}]
    /\ slots = {}
    /\ pc = [w \in Workers |-> "idle"]
    /\ job = [w \in Workers |-> NoFile]
    /\ try = [w \in Workers |-> 0]
    /\ fd = [w \in Workers |-> NoInode]
    /\ pos = [w \in Workers |-> 0]
    /\ cancelled = [w \in Workers |-> FALSE]
    /\ batch = {}
    /\ zombies = {}

Goto(w, where) == pc' = [pc EXCEPT ![w] = where]

\* What the caller does when DownloadFile returns: the retry worker takes the
\* next file of its batch, a crawl its next asset, a retry request ends.
AfterDownload(w) == IF w = Retrier THEN "next" ELSE "idle"

-----------------------------------------------------------------------------
(* The callers of DownloadFile. *)

\* processAssets: an asset without a row gets one ('pending') and is downloaded.
\* FindExisting and INSERT are one step: the project's lock is held.
Crawl(p, f) ==
    /\ pc[p] = "idle"
    /\ ProjectOf[f] = p
    /\ status[f] = "absent"
    /\ status' = [status EXCEPT ![f] = "pending"]
    /\ retry' = [retry EXCEPT ![f] = 0]
    /\ job' = [job EXCEPT ![p] = f]
    /\ Goto(p, "acquire")
    /\ UNCHANGED <<disk, slots, stream, cancelled, tick>>

\* StopProject, or the client of a POST .../crawl going away, cancels the
\* context the crawl downloads under.  Only crawls have one that can end.
Cancel(p) ==
    /\ pc[p] # "idle"
    /\ ~cancelled[p]
    /\ cancelled' = [cancelled EXCEPT ![p] = TRUE]
    /\ UNCHANGED <<rows, disk, slots, pc, job, stream, tick>>

\* FileHandler.Retry, first half: GetByID and the check of the status it read.
AdminCheck(a, f) ==
    /\ pc[a] = "idle"
    /\ status[f] \in {"error", "failed_permanent"}
    /\ job' = [job EXCEPT ![a] = f]
    /\ Goto(a, "reset")
    /\ UNCHANGED <<rows, disk, slots, stream, cancelled, tick>>

\* Second half: ResetRetry, whatever the status is by now, then the goroutine.
\* The statement fails, and the request ends, when the client is gone.
AdminReset(a) ==
    /\ pc[a] = "reset"
    /\ \/ /\ status' = [status EXCEPT ![job[a]] = "pending"]
          /\ retry' = [retry EXCEPT ![job[a]] = 0]
          /\ Goto(a, "acquire")
          /\ UNCHANGED job
       \/ /\ job' = [job EXCEPT ![a] = NoFile]
          /\ Goto(a, "idle")
          /\ UNCHANGED rows
    /\ UNCHANGED <<disk, slots, stream, cancelled, tick>>

Retryable == {f \in Files : status[f] \in {"pending", "error"}
                            /\ retry[f] < MaxRetries}

\* Faulty variant: only 'pending' rows are listed.
ListRetryable_PendingOnly ==
    {S \in SUBSET {f \in Retryable : status[f] = "pending"} :
        Cardinality(S) <= ListLimit}

\* Pending rows come before error rows, at most ListLimit rows in all.
ListRetryable ==
    {S \in SUBSET Retryable :
        /\ Cardinality(S) <= ListLimit
        /\ S # Retryable => Cardinality(S) = ListLimit
        /\ (\E f \in S : status[f] = "error")
              => \A f \in Retryable : status[f] = "pending" => f \in S}

RetryTick ==
    /\ pc[Retrier] = "idle"
    /\ batch' \in ListRetryable
    /\ Goto(Retrier, "next")
    /\ UNCHANGED <<rows, disk, slots, job, stream, cancelled, zombies>>

\* retryFailedDownloads: DownloadFile for each row of the snapshot in turn.
RetryNext(f) ==
    /\ pc[Retrier] = "next"
    /\ f \in batch
    /\ batch' = batch \ {f}
    /\ job' = [job EXCEPT ![Retrier] = f]
    /\ Goto(Retrier, "acquire")
    /\ UNCHANGED <<rows, disk, slots, stream, cancelled, zombies>>

-----------------------------------------------------------------------------
(* ResetZombieDownloads, as the retry worker runs it after its batch. *)

\* Faulty variant: a row without a file is not looked at.
ZombieList_WithFile ==
    /\ pc[Retrier] = "next"
    /\ batch = {}
    /\ zombies' = {f \in Files : status[f] = "downloading" /\ NonEmptyAt(final[f])}
    /\ Goto(Retrier, "zombie")
    /\ UNCHANGED <<rows, disk, slots, job, stream, cancelled, batch>>

ZombieList ==
    /\ pc[Retrier] = "next"
    /\ batch = {}
    /\ zombies' = {f \in Files : status[f] = "downloading"}
    /\ Goto(Retrier, "zombie")
    /\ UNCHANGED <<rows, disk, slots, job, stream, cancelled, batch>>

\* os.Stat(local_path); without a non-empty file there the temp file is removed.
ZombieStat(f) ==
    /\ pc[Retrier] = "zombie"
    /\ f \in zombies
    /\ zombies' = zombies \ {f}
    /\ job' = [job EXCEPT ![Retrier] = f]
    /\ IF NonEmptyAt(final[f])
         THEN Goto(Retrier, "zcomplete") /\ UNCHANGED temp
         ELSE Goto(Retrier, "zpending") /\ temp' = [temp EXCEPT ![f] = NoInode]
    /\ UNCHANGED <<rows, final, content, slots, stream, cancelled, batch>>

ZombieComplete ==
    /\ pc[Retrier] = "zcomplete"
    /\ status' = [status EXCEPT ![job[Retrier]] = "complete"]
    /\ job' = [job EXCEPT ![Retrier] = NoFile]
    /\ Goto(Retrier, "zombie")
    /\ UNCHANGED <<retry, disk, slots, stream, cancelled, tick>>

ZombiePending ==
    /\ pc[Retrier] = "zpending"
    /\ status' = [status EXCEPT ![job[Retrier]] = "pending"]
    /\ retry' = [retry EXCEPT ![job[Retrier]] = 0]
    /\ job' = [job EXCEPT ![Retrier] = NoFile]
    /\ Goto(Retrier, "zombie")
    /\ UNCHANGED <<disk, slots, stream, cancelled, tick>>

ZombieDone ==
    /\ pc[Retrier] = "zombie"
    /\ zombies = {}
    /\ Goto(Retrier, "idle")
    /\ UNCHANGED <<rows, disk, slots, job, stream, cancelled, tick>>

-----------------------------------------------------------------------------
(* DownloadFile. *)

Acquire(w) ==
    /\ pc[w] = "acquire"
    /\ Cardinality(slots) < MaxConcurrent
    /\ slots' = slots \cup {w}
    /\ Goto(w, "prepare")
    /\ UNCHANGED <<rows, disk, job, stream, cancelled, tick>>

\* case <-ctx.Done(): return ctx.Err()
AbandonAcquire(w) ==
    /\ pc[w] = "acquire"
    /\ cancelled[w]
    /\ cancelled' = [cancelled EXCEPT ![w] = FALSE]
    /\ job' = [job EXCEPT ![w] = NoFile]
    /\ Goto(w, AfterDownload(w))
    /\ UNCHANGED <<rows, disk, slots, stream, tick>>

\* MkdirAll, CheckDiskSpace or the first UpdateStatus fails: DownloadFile
\* returns before the deferred removal of the temp file is registered, and
\* without updateError: the row keeps the status it had.
PrepareFails(w) ==
    /\ pc[w] = "prepare"
    /\ slots' = slots \ {w}
    /\ cancelled' = [cancelled EXCEPT ![w] = FALSE]
    /\ job' = [job EXCEPT ![w] = NoFile]
    /\ Goto(w, AfterDownload(w))
    /\ UNCHANGED <<rows, disk, stream, tick>>

\* A statement on a cancelled context fails, here and below.
MarkDownloading(w) ==
    /\ pc[w] = "prepare"
    /\ ~cancelled[w]
    /\ status' = [status EXCEPT ![job[w]] = "downloading"]
    /\ try' = [try EXCEPT ![w] = 1]
    /\ Goto(w, "request")
    /\ UNCHANGED <<retry, disk, slots, job, fd, pos, cancelled, tick>>

\* A 4xx answer ends the loop; the temp file, if any, is left alone.
RequestDenied(w) ==
    /\ pc[w] = "request"
    /\ Goto(w, "fail")
    /\ UNCHANGED <<rows, disk, slots, job, stream, cancelled, tick>>

\* Any other failure of downloadAttempt (request, 5xx, os.Create, io.Copy, the
\* attempt's timeout, an empty body, a size mismatch): the descriptor is
\* closed, the temp path removed, and the next attempt waits for its backoff.
AttemptFails(w) ==
    /\ pc[w] \in {"request", "copy"}
    /\ fd' = [fd EXCEPT ![w] = NoInode]
    /\ pos' = [pos EXCEPT ![w] = 0]
    /\ temp' = [temp EXCEPT ![job[w]] = NoInode]
    /\ IF try[w] < MaxRetries
         THEN try' = [try EXCEPT ![w] = @ + 1] /\ Goto(w, "backoff")
         ELSE UNCHANGED try /\ Goto(w, "fail")
    /\ UNCHANGED <<rows, final, content, slots, job, cancelled, tick>>

BackoffElapsed(w) ==
    /\ pc[w] = "backoff"
    /\ Goto(w, "request")
    /\ UNCHANGED <<rows, disk, slots, job, stream, cancelled, tick>>

BackoffCancelled(w) ==
    /\ pc[w] = "backoff"
    /\ cancelled[w]
    /\ Goto(w, "fail")
    /\ UNCHANGED <<rows, disk, slots, job, stream, cancelled, tick>>

\* 200 OK, then os.Create(tempPath): O_CREATE|O_TRUNC.
CreateTemp(w) ==
    /\ pc[w] = "request"
    /\ \E i \in IF temp[job[w]] = NoInode THEN FreeInodes ELSE {temp[job[w]]} :
          /\ temp' = [temp EXCEPT ![job[w]] = i]
          /\ content' = [content EXCEPT ![i] = {}]
          /\ fd' = [fd EXCEPT ![w] = i]
    /\ pos' = [pos EXCEPT ![w] = 0]
    /\ Goto(w, "copy")
    /\ UNCHANGED <<rows, final, slots, job, try, cancelled, tick>>

\* io.Copy writes at its own descriptor's offset.
WriteChunk(w) ==
    /\ pc[w] = "copy"
    /\ pos[w] < NChunks
    /\ content' = [content EXCEPT ![fd[w]] = @ \cup {pos[w] + 1}]
    /\ pos' = [pos EXCEPT ![w] = @ + 1]
    /\ UNCHANGED <<rows, temp, final, slots, pc, job, try, fd, cancelled, tick>>

\* Faulty variant: the size is not compared.
CopyDone_AnySize(w) == pos[w] > 0

\* The bytes this call has written are what the size check counts: all of
\* them when SizeBytes > 0, at least one when the size is not known.
CopyDone(w) == IF job[w] \in SizeKnown THEN pos[w] = NChunks ELSE pos[w] > 0

FinishCopy(w) ==
    /\ pc[w] = "copy"
    /\ CopyDone(w)
    /\ fd' = [fd EXCEPT ![w] = NoInode]
    /\ pos' = [pos EXCEPT ![w] = 0]
    /\ Goto(w, "verify")
    /\ UNCHANGED <<rows, disk, slots, job, try, cancelled, tick>>

\* VerifyIntegrity reads the path again: the first tar header is at the start
\* of the file, a zip's directory at its end, other files are only stat'ed.
VerifyIntegrity(f) ==
    /\ NonEmptyAt(temp[f])
    /\ Kind[f] = "targz" => 1 \in content[temp[f]]
    /\ Kind[f] = "zip" => NChunks \in content[temp[f]]

Verify(w) ==
    /\ pc[w] = "verify"
    /\ Goto(w, IF VerifyIntegrity(job[w]) THEN "rename" ELSE "fail")
    /\ UNCHANGED <<rows, disk, slots, job, stream, cancelled, tick>>

\* Faulty variant: the error of os.Rename is ignored.
Rename_IgnoresError(w) ==
    /\ pc[w] = "rename"
    /\ Goto(w, "commit")
    /\ final' = IF temp[job[w]] = NoInode THEN final
                ELSE [final EXCEPT ![job[w]] = temp[job[w]]]
    /\ temp' = [temp EXCEPT ![job[w]] = NoInode]
    /\ UNCHANGED <<rows, content, slots, job, stream, cancelled, tick>>

\* os.Rename(tempPath, LocalPath) fails when the temp path is gone.
Rename(w) ==
    /\ pc[w] = "rename"
    /\ IF temp[job[w]] = NoInode
         THEN UNCHANGED <<temp, final>> /\ Goto(w, "fail")
         ELSE /\ final' = [final EXCEPT ![job[w]] = temp[job[w]]]
              /\ temp' = [temp EXCEPT ![job[w]] = NoInode]
              /\ Goto(w, "commit")
    /\ UNCHANGED <<rows, content, slots, job, stream, cancelled, tick>>

MarkComplete(w) ==
    /\ pc[w] = "commit"
    /\ status' = IF cancelled[w] THEN status
                 ELSE [status EXCEPT ![job[w]] = "complete"]
    /\ Goto(w, "exit")
    /\ UNCHANGED <<retry, disk, slots, job, stream, cancelled, tick>>

\* updateError: IncrementRetryCount's UPDATE ...
IncrementRetryCount(w) ==
    /\ pc[w] = "fail"
    /\ IF cancelled[w]
         THEN UNCHANGED rows /\ Goto(w, "exit")
         ELSE /\ retry' = [retry EXCEPT ![job[w]] = @ + 1]
              /\ status' = [status EXCEPT ![job[w]] = "error"]
              /\ Goto(w, "readretry")
    /\ UNCHANGED <<disk, slots, job, stream, cancelled, tick>>

\* ... its SELECT, a statement of its own ...
ReadRetryCount(w) ==
    /\ pc[w] = "readretry"
    /\ Goto(w, IF ~cancelled[w] /\ retry[job[w]] >= MaxRetries
                 THEN "markperm" ELSE "exit")
    /\ UNCHANGED <<rows, disk, slots, job, stream, cancelled, tick>>

\* ... and MarkFailedPermanent.
MarkFailedPermanent(w) ==
    /\ pc[w] = "markperm"
    /\ status' = IF cancelled[w] THEN status
                 ELSE [status EXCEPT ![job[w]] = "failed_permanent"]
    /\ Goto(w, "exit")
    /\ UNCHANGED <<retry, disk, slots, job, stream, cancelled, tick>>

\* The deferred calls: a cancelled call unlinks the temp path, every call
\* gives its slot back.  What is left of a cancelled crawl does nothing.
Exit(w) ==
    /\ pc[w] = "exit"
    /\ temp' = IF cancelled[w] THEN [temp EXCEPT ![job[w]] = NoInode] ELSE temp
    /\ slots' = slots \ {w}
    /\ cancelled' = [cancelled EXCEPT ![w] = FALSE]
    /\ job' = [job EXCEPT ![w] = NoFile]
    /\ try' = [try EXCEPT ![w] = 0]
    /\ Goto(w, AfterDownload(w))
    /\ UNCHANGED <<rows, final, content, fd, pos, tick>>

-----------------------------------------------------------------------------
\* The process dies; the files and the rows stay.  The next one runs
\* ResetZombieDownloads before it starts any worker.
CrashRestart ==
    /\ \E w \in Workers : pc[w] # "idle"
    /\ status' = [f \in Files |->
                    IF status[f] # "downloading" THEN status[f]
                    ELSE IF NonEmptyAt(final[f]) THEN "complete" ELSE "pending"]
    /\ retry' = [f \in Files |->
                    IF status[f] = "downloading" /\ ~NonEmptyAt(final[f])
                      THEN 0 ELSE retry[f]]
    /\ temp' = [f \in Files |->
                    IF status[f] = "downloading" /\ ~NonEmptyAt(final[f])
                      THEN NoInode ELSE temp[f]]
    /\ slots' = {}
    /\ pc' = [w \in Workers |-> "idle"]
    /\ job' = [w \in Workers |-> NoFile]
    /\ try' = [w \in Workers |-> 0]
    /\ fd' = [w \in Workers |-> NoInode]
    /\ pos' = [w \in Workers |-> 0]
    /\ cancelled' = [w \in Workers |-> FALSE]
    /\ batch' = {}
    /\ zombies' = {}
    /\ UNCHANGED <<final, content>>

\* What a worker inside DownloadFile does next.
Step(w) ==
    \/ AbandonAcquire(w) \/ PrepareFails(w) \/ MarkDownloading(w)
    \/ RequestDenied(w) \/ AttemptFails(w)
    \/ BackoffElapsed(w) \/ BackoffCancelled(w)
    \/ CreateTemp(w) \/ WriteChunk(w) \/ FinishCopy(w)
    \/ Verify(w) \/ Rename(w) \/ MarkComplete(w)
    \/ IncrementRetryCount(w) \/ ReadRetryCount(w) \/ MarkFailedPermanent(w)
    \/ Exit(w)

RetrierStep ==
    \/ RetryTick
    \/ \E f \in Files : RetryNext(f) \/ ZombieStat(f)
    \/ ZombieList \/ ZombieComplete \/ ZombiePending \/ ZombieDone

\* The steps of a process that stays up.
Work ==
    \/ \E p \in Projects : Cancel(p) \/ \E f \in Files : Crawl(p, f)
    \/ \E a \in Admins : AdminReset(a) \/ \E f \in Files : AdminCheck(a, f)
    \/ RetrierStep
    \/ \E w \in Workers : Acquire(w) \/ Step(w)

Next == Work \/ CrashRestart

Spec == Init /\ [][Next]_vars

\* Every attempt ends (it has a timeout), the ticker ticks, a request that was
\* accepted runs on, and goroutines that wait to send on a channel are served
\* in turn.  Nothing obliges a crawl, an admin or a crash to happen.
Fairness ==
    /\ WF_vars(RetrierStep)
    /\ \A w \in Workers : WF_vars(Step(w)) /\ SF_vars(Acquire(w))
    /\ \A a \in Admins : WF_vars(AdminReset(a))

FairSpec == Spec /\ Fairness

-----------------------------------------------------------------------------
(* Properties. *)

\* Every variable has its type.
TypeOK ==
    /\ status \in [Files -> Statuses]
    /\ retry \in [Files -> Nat]
    /\ temp \in [Files -> Inodes \cup {NoInode}]
    /\ final \in [Files -> Inodes \cup {NoInode}]
    /\ content \in [Inodes -> SUBSET Whole]
    /\ slots \subseteq Workers
    /\ pc \in [Workers -> Pcs]
    /\ job \in [Workers -> Files \cup {NoFile}]
    /\ try \in [Workers -> 0 .. MaxRetries]
    /\ fd \in [Workers -> Inodes \cup {NoInode}]
    /\ pos \in [Workers -> 0 .. NChunks]
    /\ cancelled \in [Workers -> BOOLEAN]
    /\ batch \subseteq Files
    /\ zombies \subseteq Files

\* The semaphore holds exactly the tokens of the calls between acquire and
\* return, on every path out of DownloadFile, and never more than
\* MaxConcurrent: no error path leaks a slot or gives one back twice.
SlotsBounded ==
    /\ slots = {w \in Workers : Holding(w)}
    /\ Cardinality(slots) <= MaxConcurrent

\* A row that says 'complete' has a file at its local_path, whatever the
\* order of commits, cancellations, zombie resets and crashes.
CompleteHasFile == \A f \in Files : status[f] = "complete" => final[f] # NoInode

\* The same of the path itself, which the temp-file-and-rename pattern is
\* there to guarantee: local_path is never a partial file.
FinalIntact ==
    \A f \in SizeKnown : final[f] # NoInode => content[final[f]] = Whole

\* A download nobody is working on any more does not stay 'downloading':
\* cancellations and crashes leave such rows, the zombie reset finds them.
Orphaned(f) ==
    status[f] = "downloading" /\ \A w \in Workers : job[w] # f

OrphansResolved == \A f \in Files : Orphaned(f) ~> ~Orphaned(f)

\* A row that may be retried is eventually taken by some worker, unless the
\* process never stays up: ListRetryable misses none, and no worker waits
\* forever for its slot.
RetryableServed ==
    <>[][Work]_vars =>
        \A f \in Files : f \in Retryable ~>
            (f \notin Retryable \/ \E w \in Workers : job[w] = f)
-----------------------------------------------------------------------------
(* The inductive invariants behind the safety properties. *)

\* Two calls of DownloadFile never hold a slot for the same file.
NoOverlap ==
    \A v, w \in Workers :
        (Holding(v) /\ Holding(w) /\ job[v] = job[w]) => v = w

\* A worker that is somewhere works on a file, and its descriptor is open
\* exactly while it copies.
BusyPcs == HoldingPcs \cup {"reset", "acquire", "zcomplete", "zpending"}

JobInv ==
    \A w \in Workers :
        /\ pc[w] \in BusyPcs => job[w] \in Files
        /\ IF pc[w] = "copy" THEN fd[w] \in Inodes ELSE fd[w] = NoInode

\* The row of a call about to commit, and of a zombie about to be marked
\* complete, has its file already.
CommitInv ==
    /\ CompleteHasFile
    /\ \A w \in Workers :
          pc[w] \in {"commit", "zcomplete"} => final[job[w]] # NoInode

\* No inode is at two paths that matter to each other.
PathsApart ==
    \A f, g \in Files :
        temp[f] # NoInode => temp[f] # final[g] /\ (f # g => temp[f] # temp[g])

\* A descriptor is private: never a served file, never another file's temp
\* file, never another worker's, and its path was at most unlinked under it.
FdApart ==
    \A w \in Workers : pc[w] = "copy" =>
        /\ temp[job[w]] \in {fd[w], NoInode}
        /\ \A g \in Files : fd[w] # final[g] /\ (fd[w] = temp[g] => g = job[w])
        /\ \A v \in Workers : (pc[v] = "copy" /\ fd[v] = fd[w]) => v = w

\* What has been written is a prefix of the body, and what is verified and
\* renamed is all of it.
PrefixInv ==
    \A w \in Workers :
        /\ pc[w] = "copy" => content[fd[w]] = 1 .. pos[w]
        /\ (pc[w] \in {"verify", "rename"} /\ job[w] \in SizeKnown
              /\ temp[job[w]] # NoInode) => content[temp[job[w]]] = Whole

IntactInv == PathsApart /\ FdApart /\ PrefixInv /\ FinalIntact
=============================================================================
