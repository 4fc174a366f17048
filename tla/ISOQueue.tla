------------------------------ MODULE ISOQueue ------------------------------
(***************************************************************************)
(* The ISO catalog's download queue: ISOCatalogService.ProcessQueue (one   *)
(* goroutine, every 30 s, under s.mu), DownloadFromCatalog (requests and   *)
(* the version checker, not under s.mu), the cancel, retry and download-   *)
(* all requests, and ISOService.DownloadISO with its semaphore, resume by  *)
(* Range, rename and checksum.  download_status is written one UPDATE at a *)
(* time, and file-system calls work on inodes as in module FileDownload.   *)
(*                                                                         *)
(* Every entry has a current_url, and its file name does not change.  A    *)
(* row's other column, status, steers nothing modelled here and is left    *)
(* out.                                                                    *)
(***************************************************************************)
EXTENDS Naturals, FiniteSets, Sequences

CONSTANTS
    Entries,        \* catalog entries
    Checksummed,    \* the entries with a sha256
    Queue,          \* the queue processor
    Direct,         \* bound: concurrent DownloadFromCatalog calls
    Requests,       \* bound: concurrent cancel/retry/download-all requests
    MaxConcurrent,  \* NewISOService's maxConcurrent (2 in the code)
    NChunks,        \* bound: a body arrives in this many writes
    Corrupts,       \* whether a mirror may send wrong bytes
    Inodes,         \* bound: file-system objects
    NoInode, NoEntry, NoOne

Workers == Direct \cup {Queue}

ASSUME ActorsAssumption ==
    /\ Queue \notin Direct
    /\ NoOne \notin Workers
    /\ NoEntry \notin Entries
    /\ Checksummed \subseteq Entries

ASSUME BoundsAssumption ==
    /\ MaxConcurrent \in Nat \ {0}
    /\ NChunks \in Nat \ {0}
    /\ Corrupts \in BOOLEAN
    /\ NoInode \notin Inodes

VARIABLES
    dl,         \* iso_catalog.download_status
    tmp,        \* the inode at <filename>.tmp
    final,      \* the inode at <filename>
    content,    \* the bytes of an inode: the chunks in file order
    slots,      \* the workers whose token is in the semaphore channel
    cancels,    \* cancelFuncs: the worker whose context an entry's func ends
    pc, job,    \* where a worker is, and its entry
    fd, append, \* its open temp file, and whether with O_APPEND
    size,       \* existingSize, from its os.Stat of the temp path
    pos,        \* chunks of the body up to which it has copied
    cancelled,  \* its download context is done
    result,     \* what DownloadISO returned
    stale,      \* the queue's rows still to check for staleness
    queue,      \* the queue's rows still to download
    changed,    \* whether the stale check reset a row
    asked,      \* the rows a request is about to set to 'pending'
    target      \* the entry a cancel request has found downloading

rows    == <<dl>>
disk    == <<tmp, final, content>>
call    == <<slots, cancels, pc, job, fd, append, size, pos, cancelled, result>>
listing == <<stale, queue, changed>>
reqs    == <<asked, target>>
vars    == <<rows, disk, call, listing, reqs>>

-----------------------------------------------------------------------------
Statuses == {"", "pending", "downloading", "downloaded", "error"}
HoldingPcs == {"stat", "response", "copy", "rename", "checksum", "return"}
QueuePcs == {"stale", "markdone", "markpending", "pick", "report"}
Pcs == {"idle", "acquire"} \cup HoldingPcs \cup QueuePcs
Results == {"none", "ok", "cancelled", "error"}

Wrong == 0                          \* a chunk of bytes the image does not hold
Whole == [k \in 1 .. NChunks |-> k]
Chunks == 0 .. NChunks

Holding(w) == pc[w] \in HoldingPcs

NonEmptyAt(i) == i # NoInode /\ content[i] # <<>>

SizeAt(i) == IF i = NoInode THEN 0 ELSE Len(content[i])

FreeInodes ==
    {i \in Inodes : /\ \A e \in Entries : tmp[e] # i /\ final[e] # i
                    /\ \A w \in Workers : fd[w] # i}

\* A write at offset p of a file that may have been truncated under it.
WriteAt(s, p, c) ==
    [k \in 1 .. (IF p > Len(s) THEN p ELSE Len(s)) |->
        IF k = p THEN c ELSE IF k <= Len(s) THEN s[k] ELSE Wrong]

Goto(w, where) == pc' = [pc EXCEPT ![w] = where]

Init ==
    /\ dl = [e \in Entries |-> ""]
    /\ tmp = [e \in Entries |-> NoInode]
    /\ final = [e \in Entries |-> NoInode]
    /\ content = [i \in Inodes |-> <<>>]
    /\ slots = {}
    /\ cancels = [e \in Entries |-> NoOne]
    /\ pc = [w \in Workers |-> "idle"]
    /\ job = [w \in Workers |-> NoEntry]
    /\ fd = [w \in Workers |-> NoInode]
    /\ append = [w \in Workers |-> FALSE]
    /\ size = [w \in Workers |-> 0]
    /\ pos = [w \in Workers |-> 0]
    /\ cancelled = [w \in Workers |-> FALSE]
    /\ result = [w \in Workers |-> "none"]
    /\ stale = {}
    /\ queue = {}
    /\ changed = FALSE
    /\ asked = [r \in Requests |-> {}]
    /\ target = [r \in Requests |-> NoEntry]

-----------------------------------------------------------------------------
(* Requests.  Each reads rows first and writes 'pending' in a later step,   *)
(* whatever the status is by then.                                         *)

Free(r) == asked[r] = {} /\ target[r] = NoEntry

RetryCatalogDownload(r, e) ==
    /\ Free(r)
    /\ dl[e] = "error"
    /\ asked' = [asked EXCEPT ![r] = {e}]
    /\ UNCHANGED <<rows, disk, call, listing, target>>

QueueDownloadAll(r) ==
    /\ Free(r)
    /\ asked' = [asked EXCEPT ![r] =
                    {e \in Entries : dl[e] \notin {"downloading", "downloaded"}}]
    /\ UNCHANGED <<rows, disk, call, listing, target>>

CancelDownload(r, e) ==
    /\ Free(r)
    /\ dl[e] = "downloading"
    /\ target' = [target EXCEPT ![r] = e]
    /\ UNCHANGED <<rows, disk, call, listing, asked>>

\* cancelFuncs.Load, cancel() and Delete; without a func the request ends.
CancelFires(r) ==
    /\ target[r] # NoEntry
    /\ target' = [target EXCEPT ![r] = NoEntry]
    /\ LET w == cancels[target[r]] IN
         IF w = NoOne THEN UNCHANGED <<cancels, cancelled, asked>>
         ELSE /\ cancelled' = [cancelled EXCEPT ![w] = TRUE]
              /\ cancels' = [cancels EXCEPT ![target[r]] = NoOne]
              /\ asked' = [asked EXCEPT ![r] = {target[r]}]
    /\ UNCHANGED <<rows, disk, slots, pc, job, fd, append, size, pos, result, listing>>

WritePending(r, e) ==
    /\ e \in asked[r]
    /\ dl' = [dl EXCEPT ![e] = "pending"]
    /\ asked' = [asked EXCEPT ![r] = @ \ {e}]
    /\ UNCHANGED <<disk, call, listing, target>>

\* The client is gone: the request's statements fail from now on.
RequestLost(r) ==
    /\ asked[r] # {}
    /\ asked' = [asked EXCEPT ![r] = {}]
    /\ UNCHANGED <<rows, disk, call, listing, target>>

DeleteISO(e) ==
    /\ final[e] # NoInode
    /\ final' = [final EXCEPT ![e] = NoInode]
    /\ UNCHANGED <<rows, tmp, content, call, listing, reqs>>

-----------------------------------------------------------------------------
(* The callers of DownloadISO. *)

\* A fresh download context, whose cancel func is stored under the entry.
Begin(w, e) ==
    /\ job' = [job EXCEPT ![w] = e]
    /\ cancels' = [cancels EXCEPT ![e] = w]
    /\ cancelled' = [cancelled EXCEPT ![w] = FALSE]
    /\ Goto(w, "acquire")
    /\ UNCHANGED <<slots, fd, append, size, pos, result>>

DownloadFromCatalog(d, e) ==
    /\ pc[d] = "idle"
    /\ Begin(d, e)
    /\ UNCHANGED <<rows, disk, listing, reqs>>

\* The request context a DownloadFromCatalog call derives its own from.
ClientGone(d) ==
    /\ pc[d] # "idle"
    /\ ~cancelled[d]
    /\ cancelled' = [cancelled EXCEPT ![d] = TRUE]
    /\ UNCHANGED <<rows, disk, slots, cancels, pc, job, fd, append, size, pos,
                   result, listing, reqs>>

\* ProcessQueue: ListDownloadQueue, split into 'downloading' and 'pending'.
ProcessQueue ==
    /\ pc[Queue] = "idle"
    /\ stale' = {e \in Entries : dl[e] = "downloading"}
    /\ queue' = {e \in Entries : dl[e] = "pending"}
    /\ changed' = FALSE
    /\ Goto(Queue, "stale")
    /\ UNCHANGED <<rows, disk, slots, cancels, job, fd, append, size, pos,
                   cancelled, result, reqs>>

\* ResetStaleDownloads: a non-empty final file means done, a missing temp file
\* means interrupted, and a temp file means that the row is left as it is.
ResetStale(e) ==
    /\ pc[Queue] = "stale"
    /\ e \in stale
    /\ stale' = stale \ {e}
    /\ job' = [job EXCEPT ![Queue] = e]
    /\ IF NonEmptyAt(final[e])
         THEN tmp' = [tmp EXCEPT ![e] = NoInode] /\ Goto(Queue, "markdone")
         ELSE /\ Goto(Queue, IF tmp[e] = NoInode THEN "markpending" ELSE "stale")
              /\ UNCHANGED tmp
    /\ UNCHANGED <<rows, final, content, slots, cancels, fd, append, size, pos,
                   cancelled, result, queue, changed, reqs>>

MarkStale ==
    /\ pc[Queue] \in {"markdone", "markpending"}
    /\ dl' = [dl EXCEPT ![job[Queue]] =
                IF pc[Queue] = "markdone" THEN "downloaded" ELSE "pending"]
    /\ changed' = TRUE
    /\ Goto(Queue, "stale")
    /\ UNCHANGED <<disk, slots, cancels, job, fd, append, size, pos, cancelled,
                   result, stale, queue, reqs>>

\* Faulty variant: the first listing is dropped when no row was reset.
StaleChecked_OnlyRelisted ==
    /\ pc[Queue] = "stale"
    /\ stale = {}
    /\ queue' = IF changed THEN {e \in Entries : dl[e] = "pending"} ELSE {}
    /\ job' = [job EXCEPT ![Queue] = NoEntry]
    /\ Goto(Queue, "pick")
    /\ UNCHANGED <<rows, disk, slots, cancels, fd, append, size, pos, cancelled,
                   result, stale, changed, reqs>>

\* The queue is listed again when a row was reset.
StaleChecked ==
    /\ pc[Queue] = "stale"
    /\ stale = {}
    /\ queue' = IF changed THEN {e \in Entries : dl[e] = "pending"} ELSE queue
    /\ job' = [job EXCEPT ![Queue] = NoEntry]
    /\ Goto(Queue, "pick")
    /\ UNCHANGED <<rows, disk, slots, cancels, fd, append, size, pos, cancelled,
                   result, stale, changed, reqs>>

Pick(e) ==
    /\ pc[Queue] = "pick"
    /\ e \in queue
    /\ queue' = queue \ {e}
    /\ dl' = [dl EXCEPT ![e] = "downloading"]
    /\ Begin(Queue, e)
    /\ UNCHANGED <<disk, stale, changed, reqs>>

QueueDone ==
    /\ pc[Queue] = "pick"
    /\ queue = {}
    /\ Goto(Queue, "idle")
    /\ UNCHANGED <<rows, disk, slots, cancels, job, fd, append, size, pos,
                   cancelled, result, listing, reqs>>

\* "If cancelled via CancelDownload, the status was already reset to pending."
Report ==
    /\ pc[Queue] = "report"
    /\ dl' = CASE result[Queue] = "ok" -> [dl EXCEPT ![job[Queue]] = "downloaded"]
               [] result[Queue] = "error" -> [dl EXCEPT ![job[Queue]] = "error"]
               [] OTHER -> dl
    /\ job' = [job EXCEPT ![Queue] = NoEntry]
    /\ result' = [result EXCEPT ![Queue] = "none"]
    /\ Goto(Queue, "pick")
    /\ UNCHANGED <<disk, slots, cancels, fd, append, size, pos, cancelled,
                   listing, reqs>>

-----------------------------------------------------------------------------
(* DownloadISO. *)

\* The semaphore is taken without a look at the context.
Acquire(w) ==
    /\ pc[w] = "acquire"
    /\ Cardinality(slots) < MaxConcurrent
    /\ slots' = slots \cup {w}
    /\ Goto(w, "stat")
    /\ UNCHANGED <<rows, disk, cancels, job, fd, append, size, pos, cancelled,
                   result, listing, reqs>>

StatTemp(w) ==
    /\ pc[w] = "stat"
    /\ size' = [size EXCEPT ![w] = SizeAt(tmp[job[w]])]
    /\ Goto(w, "response")
    /\ UNCHANGED <<rows, disk, slots, cancels, job, fd, append, pos, cancelled,
                   result, listing, reqs>>

\* DownloadISO returns why, its descriptor closed; the temp path goes or stays.
Fails(w, why, paths) ==
    /\ result' = [result EXCEPT ![w] = why]
    /\ fd' = [fd EXCEPT ![w] = NoInode]
    /\ tmp' = paths
    /\ Goto(w, "return")
    /\ UNCHANGED <<rows, final, content, slots, cancels, job, append, size, pos,
                   cancelled, listing, reqs>>

TempRemoved(w) == [tmp EXCEPT ![job[w]] = NoInode]

\* Faulty variant: a failed request is tried again, for ever.
RequestFails_Retries(w) ==
    /\ pc[w] = "response"
    /\ Goto(w, "stat")
    /\ UNCHANGED <<rows, disk, slots, cancels, job, fd, append, size, pos,
                   cancelled, result, listing, reqs>>

\* No answer, an answer that is neither 200 nor 206 (416 when the temp file is
\* complete), no disk space, or os.Create fails.
RequestFails(w) ==
    /\ pc[w] = "response"
    /\ Fails(w, IF cancelled[w] THEN "cancelled" ELSE "error", tmp)

Open(w, i, withAppend) ==
    /\ fd' = [fd EXCEPT ![w] = i]
    /\ append' = [append EXCEPT ![w] = withAppend]
    /\ Goto(w, "copy")
    /\ UNCHANGED <<rows, final, slots, cancels, job, size, cancelled, result,
                   listing, reqs>>

\* 200: the server ignores Range.  A non-empty temp file is unlinked first.
StartFresh(w) ==
    /\ pc[w] = "response"
    /\ ~cancelled[w]
    /\ \E i \in IF tmp[job[w]] # NoInode /\ size[w] = 0
                 THEN {tmp[job[w]]} ELSE FreeInodes :
          /\ Open(w, i, FALSE)
          /\ tmp' = [tmp EXCEPT ![job[w]] = i]
          /\ content' = [content EXCEPT ![i] = <<>>]
    /\ pos' = [pos EXCEPT ![w] = 0]

\* Faulty variant: the whole body is appended to what is there.
Resume_FromStart(w) ==
    /\ pc[w] = "response"
    /\ ~cancelled[w]
    /\ size[w] \in 1 .. NChunks - 1
    /\ tmp[job[w]] # NoInode
    /\ Open(w, tmp[job[w]], TRUE)
    /\ pos' = [pos EXCEPT ![w] = 0]
    /\ UNCHANGED <<tmp, content>>

\* 206: append to what is there, if it is still what the Range header said.
Resume(w) ==
    /\ pc[w] = "response"
    /\ ~cancelled[w]
    /\ size[w] \in 1 .. NChunks - 1
    /\ IF tmp[job[w]] # NoInode /\ SizeAt(tmp[job[w]]) = size[w]
         THEN /\ Open(w, tmp[job[w]], TRUE)
              /\ pos' = [pos EXCEPT ![w] = size[w]]
              /\ UNCHANGED <<tmp, content>>
         ELSE Fails(w, "error", TempRemoved(w))

WriteChunk(w) ==
    /\ pc[w] = "copy"
    /\ pos[w] < NChunks
    /\ \E c \in {pos[w] + 1} \cup (IF Corrupts THEN {Wrong} ELSE {}) :
          content' = [content EXCEPT ![fd[w]] =
                        IF append[w] THEN Append(@, c) ELSE WriteAt(@, pos[w] + 1, c)]
    /\ pos' = [pos EXCEPT ![w] = @ + 1]
    /\ UNCHANGED <<rows, tmp, final, slots, cancels, pc, job, fd, append, size,
                   cancelled, result, listing, reqs>>

\* isCorruptionError: a cancelled or expired context keeps the temp file for
\* a resume, any other error removes it.
CopyInterrupted(w) ==
    /\ pc[w] = "copy"
    /\ Fails(w, IF cancelled[w] THEN "cancelled" ELSE "error", tmp)

CopyBroken(w) ==
    /\ pc[w] = "copy"
    /\ Fails(w, "error", TempRemoved(w))

\* io.Copy returns at the announced length only.
FinishCopy(w) ==
    /\ pc[w] = "copy"
    /\ pos[w] = NChunks
    /\ fd' = [fd EXCEPT ![w] = NoInode]
    /\ Goto(w, "rename")
    /\ UNCHANGED <<rows, disk, slots, cancels, job, append, size, pos, cancelled,
                   result, listing, reqs>>

Rename(w) ==
    /\ pc[w] = "rename"
    /\ IF tmp[job[w]] = NoInode THEN Fails(w, "error", tmp)
       ELSE /\ final' = [final EXCEPT ![job[w]] = tmp[job[w]]]
            /\ tmp' = TempRemoved(w)
            /\ IF job[w] \in Checksummed
                 THEN Goto(w, "checksum") /\ UNCHANGED result
                 ELSE Goto(w, "return") /\ result' = [result EXCEPT ![w] = "ok"]
            /\ UNCHANGED <<rows, content, slots, cancels, job, fd, append, size,
                           pos, cancelled, listing, reqs>>

\* Faulty variant: a mismatch is only logged.
Checksum_Logged(w) ==
    /\ pc[w] = "checksum"
    /\ result' = [result EXCEPT ![w] = "ok"]
    /\ Goto(w, "return")
    /\ UNCHANGED <<rows, disk, slots, cancels, job, fd, append, size, pos,
                   cancelled, listing, reqs>>

\* verifyChecksum reads the final path, and a mismatch removes it.
Checksum(w) ==
    /\ pc[w] = "checksum"
    /\ IF final[job[w]] # NoInode /\ content[final[job[w]]] = Whole
         THEN result' = [result EXCEPT ![w] = "ok"] /\ UNCHANGED final
         ELSE /\ result' = [result EXCEPT ![w] = "error"]
              /\ final' = [final EXCEPT ![job[w]] = NoInode]
    /\ Goto(w, "return")
    /\ UNCHANGED <<rows, tmp, content, slots, cancels, job, fd, append, size,
                   pos, cancelled, listing, reqs>>

\* Faulty variant: an error keeps the slot.
Return_ErrorKeepsSlot(w) ==
    /\ pc[w] = "return"
    /\ slots' = IF result[w] = "error" THEN slots ELSE slots \ {w}
    /\ cancels' = [cancels EXCEPT ![job[w]] = NoOne]
    /\ cancelled' = [cancelled EXCEPT ![w] = FALSE]
    /\ Goto(w, IF w = Queue THEN "report" ELSE "idle")
    /\ UNCHANGED <<rows, disk, job, fd, append, size, pos, result, listing, reqs>>

\* The deferred release of the slot, then the caller's cancel() and Delete.
Return(w) ==
    /\ pc[w] = "return"
    /\ slots' = slots \ {w}
    /\ cancels' = [cancels EXCEPT ![job[w]] = NoOne]
    /\ cancelled' = [cancelled EXCEPT ![w] = FALSE]
    /\ append' = [append EXCEPT ![w] = FALSE]
    /\ size' = [size EXCEPT ![w] = 0]
    /\ pos' = [pos EXCEPT ![w] = 0]
    /\ IF w = Queue THEN Goto(w, "report") /\ UNCHANGED <<job, result>>
       ELSE /\ Goto(w, "idle")
            /\ job' = [job EXCEPT ![w] = NoEntry]
            /\ result' = [result EXCEPT ![w] = "none"]
    /\ UNCHANGED <<rows, disk, fd, listing, reqs>>

-----------------------------------------------------------------------------
\* The process ends, by a crash or by the shutdown, which cancels catalogCtx
\* and does not wait for the rows to be written; rows and files stay.
CrashRestart ==
    /\ \E w \in Workers : pc[w] # "idle"
    /\ slots' = {}
    /\ cancels' = [e \in Entries |-> NoOne]
    /\ pc' = [w \in Workers |-> "idle"]
    /\ job' = [w \in Workers |-> NoEntry]
    /\ fd' = [w \in Workers |-> NoInode]
    /\ append' = [w \in Workers |-> FALSE]
    /\ size' = [w \in Workers |-> 0]
    /\ pos' = [w \in Workers |-> 0]
    /\ cancelled' = [w \in Workers |-> FALSE]
    /\ result' = [w \in Workers |-> "none"]
    /\ stale' = {}
    /\ queue' = {}
    /\ changed' = FALSE
    /\ asked' = [r \in Requests |-> {}]
    /\ target' = [r \in Requests |-> NoEntry]
    /\ UNCHANGED <<rows, disk>>

Step(w) ==
    \/ StatTemp(w) \/ RequestFails(w) \/ StartFresh(w) \/ Resume(w)
    \/ WriteChunk(w) \/ CopyInterrupted(w) \/ CopyBroken(w) \/ FinishCopy(w)
    \/ Rename(w) \/ Checksum(w) \/ Return(w)

QueueStep ==
    \/ ProcessQueue \/ MarkStale \/ StaleChecked \/ QueueDone \/ Report
    \/ \E e \in Entries : ResetStale(e) \/ Pick(e)

Request(r) ==
    \/ QueueDownloadAll(r) \/ CancelFires(r) \/ RequestLost(r)
    \/ \E e \in Entries :
          RetryCatalogDownload(r, e) \/ CancelDownload(r, e) \/ WritePending(r, e)

\* The steps of a process that stays up.
Work ==
    \/ \E r \in Requests : Request(r)
    \/ \E e \in Entries : DeleteISO(e)
    \/ \E d \in Direct : ClientGone(d) \/ \E e \in Entries : DownloadFromCatalog(d, e)
    \/ QueueStep
    \/ \E w \in Workers : Acquire(w) \/ Step(w)

Next == Work \/ CrashRestart

Spec == Init /\ [][Next]_vars

\* The ticker ticks, a transfer ends (two-hour timeout), and workers that wait
\* to send on the semaphore channel are served in turn.
FairSpec ==
    /\ Spec
    /\ WF_vars(QueueStep)
    /\ \A w \in Workers : WF_vars(Step(w)) /\ SF_vars(Acquire(w))

-----------------------------------------------------------------------------
(* Properties. *)

\* Every variable has its type.
TypeOK ==
    /\ dl \in [Entries -> Statuses]
    /\ tmp \in [Entries -> Inodes \cup {NoInode}]
    /\ final \in [Entries -> Inodes \cup {NoInode}]
    /\ content \in [Inodes -> Seq(Chunks)]
    /\ slots \subseteq Workers
    /\ cancels \in [Entries -> Workers \cup {NoOne}]
    /\ pc \in [Workers -> Pcs]
    /\ job \in [Workers -> Entries \cup {NoEntry}]
    /\ fd \in [Workers -> Inodes \cup {NoInode}]
    /\ append \in [Workers -> BOOLEAN]
    /\ size \in [Workers -> Nat]
    /\ pos \in [Workers -> 0 .. NChunks]
    /\ cancelled \in [Workers -> BOOLEAN]
    /\ result \in [Workers -> Results]
    /\ stale \subseteq Entries
    /\ queue \subseteq Entries
    /\ changed \in BOOLEAN
    /\ asked \in [Requests -> SUBSET Entries]
    /\ target \in [Requests -> Entries \cup {NoEntry}]

\* The semaphore's tokens are exactly those of the calls inside DownloadISO,
\* at most MaxConcurrent.
SlotsBounded ==
    /\ slots = {w \in Workers : Holding(w)}
    /\ Cardinality(slots) <= MaxConcurrent

\* Resume never doubles, skips or mixes bytes: what reaches the final path is
\* the image in length and order (its bytes are the checksum's concern), after
\* any sequence of cancels, timeouts, crashes and resumes of the queue.
FinalWhole ==
    \A e \in Entries : final[e] # NoInode =>
        LET s == content[final[e]] IN
          Len(s) = NChunks /\ \A k \in 1 .. NChunks : s[k] \in {k, Wrong}

\* The queue reports a checksummed entry as downloaded only when the image at
\* the final path (if no admin has deleted it since) has that checksum.
ReportedVerified ==
    [][\A e \in Checksummed :
          (pc[Queue] = "report" /\ dl[e] # "downloaded" /\ dl'[e] = "downloaded")
              => (final[e] # NoInode => content[final[e]] = Whole)]_vars

\* A queued entry is eventually taken up, unless the process never stays up.
PendingServed ==
    <>[][Work]_vars =>
        \A e \in Entries : dl[e] = "pending" ~> dl[e] # "pending"

\* A cancelled call returns, although it may wait for its slot first.
CancelStops == \A w \in Workers : cancelled[w] ~> ~cancelled[w]
=============================================================================
