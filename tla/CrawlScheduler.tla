--------------------------- MODULE CrawlScheduler ---------------------------
(***************************************************************************)
(* The crawl scheduler and the crawls it runs: Scheduler's maps and mutex, *)
(* the goroutine StartProject spawns (initial crawl, ticker, tick after    *)
(* tick), CrawlManager.TriggerCrawl with its per-project TryLock, crawl    *)
(* log row and fetchWithRetry, and the admin requests that start and stop  *)
(* projects: pause, resume, toggle, delete.  The main goroutine starts the *)
(* enabled projects after the HTTP server is up, so requests interleave    *)
(* with it.                                                                *)
(*                                                                         *)
(* A step is a section under Scheduler.mu, one SQL statement, or one fetch *)
(* attempt.  Downloading the assets of a successful fetch is one step here *)
(* (module FileDownload has its detail).                                   *)
(***************************************************************************)
EXTENDS Naturals

CONSTANTS
    Projects,     \* project names
    Goroutines,   \* bound: scheduler goroutines alive or still referred to
    Triggers,     \* bound: concurrent POST .../crawl requests
    Handlers,     \* bound: concurrent pause/resume/toggle/delete requests
    Main,         \* the main goroutine, in CrawlManager.Start
    FetchRetries, \* retryCfg.maxRetries
    NoGoroutine, NoOne, NoProject

Crawlers == Goroutines \cup Triggers
Callers  == Handlers \cup {Main}

ASSUME ActorsDisjoint ==
    /\ Goroutines \cap Triggers = {}
    /\ Main \notin Handlers
    /\ NoGoroutine \notin Goroutines
    /\ NoOne \notin Crawlers \cup Callers
    /\ NoProject \notin Projects

ASSUME RetriesAssumption == FetchRetries \in Nat

VARIABLES
    exists,     \* the project has a row
    enabled,    \* projects.enabled
    log,        \* status of the project's latest crawl_logs row
    boot,       \* projects Start has listed and not yet scheduled
    current,    \* the goroutine in cancelFuncs and doneChans
    mu,         \* holder of Scheduler.mu across steps
    hpc, hproj, \* where a caller is, and the project it was asked about
    pc, proj,   \* where a crawler is, and its project
    ticking,    \* the goroutine's ticker exists
    zero,       \* the goroutine was started with interval 0
    cancelled,  \* the crawler's context is done
    attempt,    \* fetchWithRetry's attempt
    lock        \* holder of the project's crawl mutex

db     == <<exists, enabled, log>>
sched  == <<boot, current, mu, hpc, hproj>>
crawl  == <<pc, proj, ticking, zero, cancelled, attempt, lock>>
vars   == <<db, sched, crawl>>

LogStatuses == {"none", "running", "success", "error", "rate_limited",
                "network_error"}
InCrawl   == {"setup", "fetch", "backoff", "assets"}
CrawlPcs  == {"try"} \cup InCrawl
LivePcs   == CrawlPcs \cup {"newticker", "wait"}
Pcs       == LivePcs \cup {"free", "exited"}
HandlerPcs == {"idle", "start", "stop", "wait", "toggle_on", "toggle_off"}

\* The goroutine that runs a project's crawl loop has not returned.
Live(g) == pc[g] \in LivePcs

Reset ==
    /\ boot' = {p \in Projects : exists[p] /\ enabled[p]}
    /\ current' = [p \in Projects |-> NoGoroutine]
    /\ mu' = NoOne
    /\ hpc' = [h \in Callers |-> "idle"]
    /\ hproj' = [h \in Callers |-> NoProject]
    /\ pc' = [c \in Crawlers |-> "free"]
    /\ proj' = [c \in Crawlers |-> NoProject]
    /\ ticking' = [c \in Crawlers |-> FALSE]
    /\ zero' = [c \in Crawlers |-> FALSE]
    /\ cancelled' = [c \in Crawlers |-> FALSE]
    /\ attempt' = [c \in Crawlers |-> 0]
    /\ lock' = [p \in Projects |-> NoOne]

Init ==
    /\ exists = [p \in Projects |-> TRUE]
    /\ enabled \in [Projects -> BOOLEAN]
    /\ log = [p \in Projects |-> "none"]
    /\ boot = {p \in Projects : enabled[p]}
    /\ current = [p \in Projects |-> NoGoroutine]
    /\ mu = NoOne
    /\ hpc = [h \in Callers |-> "idle"]
    /\ hproj = [h \in Callers |-> NoProject]
    /\ pc = [c \in Crawlers |-> "free"]
    /\ proj = [c \in Crawlers |-> NoProject]
    /\ ticking = [c \in Crawlers |-> FALSE]
    /\ zero = [c \in Crawlers |-> FALSE]
    /\ cancelled = [c \in Crawlers |-> FALSE]
    /\ attempt = [c \in Crawlers |-> 0]
    /\ lock = [p \in Projects |-> NoOne]

-----------------------------------------------------------------------------
(* Admin requests, up to their call into the scheduler. *)

Ask(h, p, what) ==
    /\ hpc[h] = "idle"
    /\ hpc' = [hpc EXCEPT ![h] = what]
    /\ hproj' = [hproj EXCEPT ![h] = p]
    /\ UNCHANGED <<boot, current, mu, crawl>>

PauseProject(h, p) == Ask(h, p, "stop") /\ UNCHANGED db

ResumeProject(h, p) == exists[p] /\ Ask(h, p, "start") /\ UNCHANGED db

\* ToggleProject reads the row, then writes the opposite of what it read.
ToggleRead(h, p) ==
    /\ exists[p]
    /\ Ask(h, p, IF enabled[p] THEN "toggle_off" ELSE "toggle_on")
    /\ UNCHANGED db

\* SetEnabled fails, and the request ends, when the client is gone.
ToggleWrite(h) ==
    /\ hpc[h] \in {"toggle_on", "toggle_off"}
    /\ \/ /\ enabled' = [enabled EXCEPT ![hproj[h]] = hpc[h] = "toggle_on"]
          /\ hpc' = [hpc EXCEPT ![h] =
                       IF hpc[h] = "toggle_on" THEN "start" ELSE "stop"]
          /\ UNCHANGED hproj
       \/ /\ hpc' = [hpc EXCEPT ![h] = "idle"]
          /\ hproj' = [hproj EXCEPT ![h] = NoProject]
          /\ UNCHANGED enabled
    /\ UNCHANGED <<exists, log, boot, current, mu, crawl>>

\* DeleteProject removes the rows in one transaction, then stops the crawler.
DeleteProject(h, p) ==
    /\ exists[p]
    /\ Ask(h, p, "stop")
    /\ exists' = [exists EXCEPT ![p] = FALSE]
    /\ log' = [log EXCEPT ![p] = "none"]
    /\ UNCHANGED enabled

\* startProjects: the next project of the list Start read.
BootNext(p) ==
    /\ hpc[Main] = "idle"
    /\ p \in boot
    /\ boot' = boot \ {p}
    /\ hpc' = [hpc EXCEPT ![Main] = "start"]
    /\ hproj' = [hproj EXCEPT ![Main] = p]
    /\ UNCHANGED <<db, current, mu, crawl>>

-----------------------------------------------------------------------------
(* Scheduler. *)

\* A goroutine record may be reused once nothing refers to it.
Unused(g) ==
    \/ pc[g] = "free"
    \/ pc[g] = "exited" /\ current[proj[g]] # g

\* The second half of StartProject: a new context, a new done channel, go.
\* Admin requests pass interval 0, CrawlManager.scheduleProject a positive one.
Spawn(h, g) ==
    LET p == hproj[h] IN
    /\ Unused(g)
    /\ current' = [current EXCEPT ![p] = g]
    /\ proj' = [proj EXCEPT ![g] = p]
    /\ pc' = [pc EXCEPT ![g] = "try"]
    /\ ticking' = [ticking EXCEPT ![g] = FALSE]
    /\ zero' = [zero EXCEPT ![g] = h # Main]
    /\ attempt' = [attempt EXCEPT ![g] = 0]
    /\ mu' = NoOne
    /\ hpc' = [hpc EXCEPT ![h] = "idle"]
    /\ hproj' = [hproj EXCEPT ![h] = NoProject]
    /\ UNCHANGED <<db, boot, lock>>

\* StartProject with nothing to replace.
StartProject(h, g) ==
    /\ hpc[h] = "start"
    /\ mu = NoOne
    /\ current[hproj[h]] = NoGoroutine
    /\ Spawn(h, g)
    /\ cancelled' = [cancelled EXCEPT ![g] = FALSE]

\* StartProject with a running goroutine: cancel it, and wait for its done
\* channel with the mutex held.
StartCancel(h) ==
    /\ hpc[h] = "start"
    /\ mu = NoOne
    /\ current[hproj[h]] # NoGoroutine
    /\ cancelled' = [cancelled EXCEPT ![current[hproj[h]]] = TRUE]
    /\ mu' = h
    /\ hpc' = [hpc EXCEPT ![h] = "wait"]
    /\ UNCHANGED <<db, boot, current, hproj, pc, proj, ticking, zero, attempt, lock>>

StartReplace(h, g) ==
    /\ hpc[h] = "wait"
    /\ pc[current[hproj[h]]] = "exited"
    /\ Spawn(h, g)
    /\ cancelled' = [cancelled EXCEPT ![g] = FALSE]

\* Faulty variant: the maps are cleared, the context is not cancelled.
StopProject_NoCancel(h) ==
    /\ hpc[h] = "stop"
    /\ mu = NoOne
    /\ current' = [current EXCEPT ![hproj[h]] = NoGoroutine]
    /\ hpc' = [hpc EXCEPT ![h] = "idle"]
    /\ hproj' = [hproj EXCEPT ![h] = NoProject]
    /\ UNCHANGED <<db, boot, mu, crawl>>

\* StopProject cancels and forgets, without waiting.
StopProject(h) ==
    LET p == hproj[h] IN
    /\ hpc[h] = "stop"
    /\ mu = NoOne
    /\ cancelled' = IF current[p] = NoGoroutine THEN cancelled
                    ELSE [cancelled EXCEPT ![current[p]] = TRUE]
    /\ current' = [current EXCEPT ![p] = NoGoroutine]
    /\ hpc' = [hpc EXCEPT ![h] = "idle"]
    /\ hproj' = [hproj EXCEPT ![h] = NoProject]
    /\ UNCHANGED <<db, boot, mu, pc, proj, ticking, zero, attempt, lock>>

-----------------------------------------------------------------------------
(* The goroutine's loop around its crawls. *)

\* time.NewTicker(interval), reached whether or not the context is done.
NewTicker(g) ==
    /\ pc[g] = "newticker"
    /\ ~zero[g]
    /\ ticking' = [ticking EXCEPT ![g] = TRUE]
    /\ pc' = [pc EXCEPT ![g] = "wait"]
    /\ UNCHANGED <<db, sched, proj, zero, cancelled, attempt, lock>>

\* NewTicker panics on a non-positive interval; nothing recovers, the process
\* dies and is started again.
NewTickerPanics(g) ==
    /\ pc[g] = "newticker"
    /\ zero[g]
    /\ Reset
    /\ UNCHANGED db

Tick(g) ==
    /\ pc[g] = "wait"
    /\ pc' = [pc EXCEPT ![g] = "try"]
    /\ UNCHANGED <<db, sched, proj, ticking, zero, cancelled, attempt, lock>>

\* Faulty variant: the goroutine takes Scheduler.mu on its way out.
GoroutineExit_Locks(g) ==
    /\ pc[g] = "wait"
    /\ cancelled[g]
    /\ mu = NoOne
    /\ pc' = [pc EXCEPT ![g] = "exited"]
    /\ UNCHANGED <<db, sched, proj, ticking, zero, cancelled, attempt, lock>>

\* Faulty variant: only a goroutine that is still registered returns.
GoroutineExit_OnlyCurrent(g) ==
    /\ pc[g] = "wait"
    /\ cancelled[g]
    /\ current[proj[g]] = g
    /\ pc' = [pc EXCEPT ![g] = "exited"]
    /\ UNCHANGED <<db, sched, proj, ticking, zero, cancelled, attempt, lock>>

\* case <-ctx.Done(): return, and close(done).
GoroutineExit(g) ==
    /\ pc[g] = "wait"
    /\ cancelled[g]
    /\ pc' = [pc EXCEPT ![g] = "exited"]
    /\ UNCHANGED <<db, sched, proj, ticking, zero, cancelled, attempt, lock>>

-----------------------------------------------------------------------------
(* TriggerCrawl. *)

\* CrawlControlHandler.TriggerCrawl: the request's own context.
TriggerRequest(t, p) ==
    /\ pc[t] = "free"
    /\ pc' = [pc EXCEPT ![t] = "try"]
    /\ proj' = [proj EXCEPT ![t] = p]
    /\ cancelled' = [cancelled EXCEPT ![t] = FALSE]
    /\ UNCHANGED <<db, sched, ticking, zero, attempt, lock>>

ClientGone(t) ==
    /\ pc[t] # "free"
    /\ ~cancelled[t]
    /\ cancelled' = [cancelled EXCEPT ![t] = TRUE]
    /\ UNCHANGED <<db, sched, pc, proj, ticking, zero, attempt, lock>>

\* What follows a crawl: a request is answered, a goroutine goes on.
AfterCrawl(c) ==
    IF c \in Triggers THEN "free" ELSE IF ticking[c] THEN "wait" ELSE "newticker"

\* Faulty variant: the crawl goes on when the mutex is taken.
TryLock_Ignored(c) ==
    /\ pc[c] = "try"
    /\ lock' = [lock EXCEPT ![proj[c]] = c]
    /\ pc' = [pc EXCEPT ![c] = "setup"]
    /\ UNCHANGED <<db, sched, proj, ticking, zero, cancelled, attempt>>

TryLock(c) ==
    /\ pc[c] = "try"
    /\ IF lock[proj[c]] = NoOne
         THEN /\ lock' = [lock EXCEPT ![proj[c]] = c]
              /\ pc' = [pc EXCEPT ![c] = "setup"]
         ELSE /\ pc' = [pc EXCEPT ![c] = AfterCrawl(c)]   \* ErrCrawlInProgress
              /\ UNCHANGED lock
    /\ UNCHANGED <<db, sched, proj, ticking, zero, cancelled, attempt>>

\* TriggerCrawl returns; its deferred Unlock runs.
Return(c) ==
    /\ pc' = [pc EXCEPT ![c] = AfterCrawl(c)]
    /\ lock' = [lock EXCEPT ![proj[c]] = NoOne]
    /\ attempt' = [attempt EXCEPT ![c] = 0]
    /\ UNCHANGED <<sched, proj, ticking, zero, cancelled>>

\* resolveCrawlSetup: the row must be there, and the statements must run.
Setup(c) ==
    /\ pc[c] = "setup"
    /\ ~cancelled[c] /\ exists[proj[c]]
    /\ log' = [log EXCEPT ![proj[c]] = "running"]
    /\ pc' = [pc EXCEPT ![c] = "fetch"]
    /\ UNCHANGED <<exists, enabled, sched, proj, ticking, zero, cancelled, attempt, lock>>

SetupFails(c) ==
    /\ pc[c] = "setup"
    /\ cancelled[c] \/ ~exists[proj[c]]
    /\ Return(c)
    /\ UNCHANGED db

\* Faulty variant: the statement inserts the row when it is missing.
UpdateFinished_Upsert(c, status) ==
    /\ log' = IF cancelled[c] THEN log ELSE [log EXCEPT ![proj[c]] = status]
    /\ UNCHANGED <<exists, enabled>>

\* UpdateFinished: nothing when the context is done or the row is gone.
UpdateFinished(c, status) ==
    /\ log' = IF cancelled[c] \/ log[proj[c]] = "none" THEN log
              ELSE [log EXCEPT ![proj[c]] = status]
    /\ UNCHANGED <<exists, enabled>>

FetchOK(c) ==
    /\ pc[c] = "fetch"
    /\ pc' = [pc EXCEPT ![c] = "assets"]
    /\ UNCHANGED <<db, sched, proj, ticking, zero, cancelled, attempt, lock>>

\* classRateLimit and classPermanent are not retried.
FetchRefused(c) ==
    /\ pc[c] = "fetch"
    /\ \E status \in {"rate_limited", "error"} : UpdateFinished(c, status)
    /\ Return(c)

\* classTransient with attempts left: sleep.
FetchTransient(c) ==
    /\ pc[c] = "fetch"
    /\ attempt[c] < FetchRetries
    /\ pc' = [pc EXCEPT ![c] = "backoff"]
    /\ UNCHANGED <<db, sched, proj, ticking, zero, cancelled, attempt, lock>>

BackoffOver(c) ==
    /\ pc[c] = "backoff"
    /\ attempt' = [attempt EXCEPT ![c] = @ + 1]
    /\ pc' = [pc EXCEPT ![c] = "fetch"]
    /\ UNCHANGED <<db, sched, proj, ticking, zero, cancelled, lock>>

\* The last transient error, the per-crawl deadline, or a cancelled context.
FetchGivesUp(c) ==
    /\ \/ pc[c] = "fetch" /\ attempt[c] = FetchRetries
       \/ pc[c] = "backoff"
    /\ UpdateFinished(c, "network_error")
    /\ Return(c)

\* processAssets (module FileDownload) and finalizeCrawl.
Finalize(c) ==
    /\ pc[c] = "assets"
    /\ UpdateFinished(c, "success")
    /\ Return(c)

-----------------------------------------------------------------------------
CrawlStep(c) ==
    \/ TryLock(c) \/ Setup(c) \/ SetupFails(c)
    \/ FetchOK(c) \/ FetchRefused(c) \/ FetchTransient(c)
    \/ BackoffOver(c) \/ FetchGivesUp(c) \/ Finalize(c)

SchedulerCall(h) ==
    \/ StartCancel(h) \/ StopProject(h)
    \/ \E g \in Goroutines : StartProject(h, g) \/ StartReplace(h, g)

Next ==
    \/ \E h \in Handlers, p \in Projects :
          \/ PauseProject(h, p) \/ ResumeProject(h, p)
          \/ ToggleRead(h, p) \/ DeleteProject(h, p)
    \/ \E h \in Handlers : ToggleWrite(h)
    \/ \E p \in Projects : BootNext(p)
    \/ \E h \in Callers : SchedulerCall(h)
    \/ \E g \in Goroutines :
          NewTicker(g) \/ NewTickerPanics(g) \/ Tick(g) \/ GoroutineExit(g)
    \/ \E t \in Triggers : ClientGone(t) \/ \E p \in Projects : TriggerRequest(t, p)
    \/ \E c \in Crawlers : CrawlStep(c)

Spec == Init /\ [][Next]_vars

\* Fetches and downloads end (deadline and per-attempt timeouts).  In Go's
\* select a ready ctx.Done is eventually chosen over a ready ticker, and a
\* mutex that is released again and again is eventually obtained.
FairSpec ==
    /\ Spec
    /\ \A c \in Crawlers : WF_vars(CrawlStep(c))
    /\ \A g \in Goroutines :
          WF_vars(NewTicker(g)) /\ WF_vars(NewTickerPanics(g))
          /\ SF_vars(GoroutineExit(g))
    /\ \A h \in Callers : SF_vars(SchedulerCall(h))

-----------------------------------------------------------------------------
(* Properties. *)

\* Every variable has its type.
TypeOK ==
    /\ exists \in [Projects -> BOOLEAN]
    /\ enabled \in [Projects -> BOOLEAN]
    /\ log \in [Projects -> LogStatuses]
    /\ boot \subseteq Projects
    /\ current \in [Projects -> Goroutines \cup {NoGoroutine}]
    /\ mu \in Callers \cup {NoOne}
    /\ hpc \in [Callers -> HandlerPcs]
    /\ hproj \in [Callers -> Projects \cup {NoProject}]
    /\ pc \in [Crawlers -> Pcs]
    /\ proj \in [Crawlers -> Projects \cup {NoProject}]
    /\ ticking \in [Crawlers -> BOOLEAN]
    /\ zero \in [Crawlers -> BOOLEAN]
    /\ cancelled \in [Crawlers -> BOOLEAN]
    /\ attempt \in [Crawlers -> 0 .. FetchRetries]
    /\ lock \in [Projects -> Crawlers \cup {NoOne}]

\* Every crawl loop that has not been told to stop is the one the scheduler's
\* maps hold, so pause, toggle, delete and StopAll reach it: no goroutine
\* leaks out of StartProject, StopProject or their overlaps.
NoLeakedLoop ==
    \A g \in Goroutines :
        (Live(g) /\ ~cancelled[g]) => current[proj[g]] = g

\* The crawl mutex: scheduled crawls, crawls of a goroutine on its way out
\* and crawls on request never overlap on a project.
OneCrawlPerProject ==
    \A c \in Crawlers, p \in Projects :
        lock[p] = c <=> (pc[c] \in InCrawl /\ proj[c] = p)

\* While a crawl is fetching or downloading, its log row says so: no other
\* crawl of the project finishes or restarts the row under it.
RunningIsLogged ==
    \A c \in Crawlers :
        pc[c] \in InCrawl \ {"setup"} => log[proj[c]] \in {"running", "none"}

\* Nothing a crawl in flight writes brings rows of a deleted project back.
DeletedStaysGone == \A p \in Projects : ~exists[p] => log[p] = "none"

\* The crawl log: what a crawl under way has written stays while it runs, and
\* what a deletion has removed stays gone.
LogHolds == RunningIsLogged /\ DeletedStaysGone

\* StartProject comes back: the goroutine it waits for with the mutex held
\* never needs the mutex.
StartReturns == \A h \in Callers : hpc[h] = "wait" ~> hpc[h] # "wait"

\* A stopped crawl loop ends.
StoppedLoopEnds ==
    \A g \in Goroutines : (Live(g) /\ cancelled[g]) ~> ~Live(g)

-----------------------------------------------------------------------------
(* What the proofs add to the properties to make them inductive. *)

\* A crawler that is somewhere, and a caller that is, has a project, and a
\* crawl only backs off when it has an attempt left.
LocalInv ==
    /\ \A c \in Crawlers : pc[c] # "free" => proj[c] \in Projects
    /\ \A c \in Crawlers : pc[c] = "backoff" => attempt[c] < FetchRetries
    /\ \A h \in Callers : hpc[h] # "idle" => hproj[h] \in Projects
=============================================================================
