------------------------ MODULE CrawlSchedulerProofs ------------------------
(***************************************************************************)
(* Proofs about CrawlScheduler, for any number of projects, goroutines,    *)
(* requests and retries.                                                   *)
(***************************************************************************)
EXTENDS CrawlScheduler, TLAPS

\* The admin requests and the boot loop up to their scheduler call.
Requests ==
    \/ \E h \in Handlers, p \in Projects :
          \/ PauseProject(h, p) \/ ResumeProject(h, p)
          \/ ToggleRead(h, p) \/ DeleteProject(h, p)
    \/ \E h \in Handlers : ToggleWrite(h)
    \/ \E p \in Projects : BootNext(p)

\* Every step of the scheduler keeps the types.
LEMMA TypeStep == TypeOK /\ LocalInv /\ [Next]_vars => TypeOK'
<1> SUFFICES ASSUME TypeOK, LocalInv, [Next]_vars PROVE TypeOK'
    OBVIOUS
<1> USE ActorsDisjoint, RetriesAssumption
<1> USE DEF TypeOK, db, sched, crawl
<1>1. CASE Requests
  <2>1. ASSUME NEW h \in Handlers, NEW p \in Projects, NEW what \in HandlerPcs,
               Ask(h, p, what)
        PROVE  /\ hpc' \in [Callers -> HandlerPcs]
               /\ hproj' \in [Callers -> Projects \cup {NoProject}]
    BY <2>1 DEF Ask, Callers
  <2>2. ASSUME NEW h \in Handlers, NEW p \in Projects,
               PauseProject(h, p) \/ ResumeProject(h, p) \/ ToggleRead(h, p)
        PROVE  TypeOK'
    BY <2>1, <2>2 DEF PauseProject, ResumeProject, ToggleRead, Ask, HandlerPcs
  <2>3. ASSUME NEW h \in Handlers, NEW p \in Projects, DeleteProject(h, p)
        PROVE  TypeOK'
    BY <2>1, <2>3 DEF DeleteProject, Ask, HandlerPcs, LogStatuses
  <2>4. ASSUME NEW h \in Handlers, ToggleWrite(h) PROVE TypeOK'
    BY <2>4 DEF ToggleWrite, HandlerPcs, Callers
  <2>5. ASSUME NEW p \in Projects, BootNext(p) PROVE TypeOK'
    BY <2>5 DEF BootNext, HandlerPcs, Callers
  <2>6. QED
    BY <1>1, <2>2, <2>3, <2>4, <2>5 DEF Requests
<1>2. ASSUME NEW h \in Callers, StartCancel(h) \/ StopProject(h) PROVE TypeOK'
  <2>1. CASE StartCancel(h)
    BY <2>1 DEF StartCancel, HandlerPcs
  <2>2. CASE StopProject(h)
    <3>1. cancelled' \in [Crawlers -> BOOLEAN]
      BY <2>2 DEF StopProject
    <3>2. QED
      BY <2>2, <3>1 DEF StopProject, HandlerPcs
  <2>3. QED
    BY <1>2, <2>1, <2>2
<1>3. ASSUME NEW h \in Callers, NEW g \in Goroutines,
             StartProject(h, g) \/ StartReplace(h, g)
      PROVE  TypeOK'
  <2>1. hproj[h] \in Projects
    BY <1>3 DEF StartProject, StartReplace, LocalInv
  <2>2. attempt' \in [Crawlers -> 0 .. FetchRetries]
    BY <1>3 DEF StartProject, StartReplace, Spawn
  <2>3. Spawn(h, g) /\ cancelled' = [cancelled EXCEPT ![g] = FALSE]
    BY <1>3 DEF StartProject, StartReplace
  <2>4. /\ pc' \in [Crawlers -> Pcs]
        /\ proj' \in [Crawlers -> Projects \cup {NoProject}]
    BY <2>1, <2>3 DEF Spawn, Pcs, LivePcs, CrawlPcs
  <2>5. /\ ticking' \in [Crawlers -> BOOLEAN]
        /\ zero' \in [Crawlers -> BOOLEAN]
        /\ cancelled' \in [Crawlers -> BOOLEAN]
    BY <2>3 DEF Spawn
  <2>6. /\ current' \in [Projects -> Goroutines \cup {NoGoroutine}]
        /\ hpc' \in [Callers -> HandlerPcs]
        /\ hproj' \in [Callers -> Projects \cup {NoProject}]
    BY <2>1, <2>3 DEF Spawn, HandlerPcs
  <2>7. QED
    BY <2>2, <2>3, <2>4, <2>5, <2>6 DEF Spawn
<1>4. ASSUME NEW g \in Goroutines, NewTicker(g) \/ Tick(g) \/ GoroutineExit(g)
      PROVE  TypeOK'
    BY <1>4 DEF NewTicker, Tick, GoroutineExit, Pcs, LivePcs, CrawlPcs
<1>5. ASSUME NEW g \in Goroutines, NewTickerPanics(g) PROVE TypeOK'
    BY <1>5 DEF NewTickerPanics, Reset, HandlerPcs, Pcs
<1>6. ASSUME NEW t \in Triggers, NEW p \in Projects, TriggerRequest(t, p)
      PROVE  TypeOK'
    BY <1>6 DEF TriggerRequest, Pcs, LivePcs, CrawlPcs
<1>7. ASSUME NEW t \in Triggers, ClientGone(t) PROVE TypeOK'
    BY <1>7 DEF ClientGone
<1>8. ASSUME NEW c \in Crawlers, CrawlStep(c) PROVE TypeOK'
  <2>1. AfterCrawl(c) \in Pcs
    BY DEF AfterCrawl, Pcs, LivePcs
  <2>2. attempt' \in [Crawlers -> 0 .. FetchRetries]
    <3>1. CASE BackoffOver(c)
      <4>1. attempt[c] < FetchRetries
        BY <3>1 DEF BackoffOver, LocalInv
      <4>2. QED
        BY <3>1, <4>1 DEF BackoffOver
    <3>2. CASE ~BackoffOver(c)
      BY <1>8, <3>2 DEF CrawlStep, TryLock, Setup, SetupFails, FetchOK, FetchRefused,
         FetchTransient, FetchGivesUp, Finalize, Return
    <3>3. QED
      BY <1>8, <3>1, <3>2
  <2>3. QED
    BY <1>8, <2>1, <2>2 DEF CrawlStep, TryLock, Setup, SetupFails, FetchOK,
       FetchRefused, FetchTransient, BackoffOver, FetchGivesUp, Finalize, Return,
       UpdateFinished, Pcs, LivePcs, CrawlPcs, InCrawl, LogStatuses
<1>9. CASE UNCHANGED vars
    BY <1>9 DEF vars
<1>10. QED
    BY <1>1, <1>2, <1>3, <1>4, <1>5, <1>6, <1>7, <1>8, <1>9
       DEF Next, Requests, SchedulerCall

\* Every step keeps crawlers and callers on a project, and retries counted.
LEMMA LocalStep == TypeOK /\ LocalInv /\ [Next]_vars => LocalInv'
<1> SUFFICES ASSUME TypeOK, LocalInv, [Next]_vars PROVE LocalInv'
    OBVIOUS
<1> USE ActorsDisjoint, RetriesAssumption
<1> USE DEF TypeOK, LocalInv, db, sched, crawl
<1>1. CASE Requests
    BY <1>1 DEF Requests, PauseProject, ResumeProject, ToggleRead, DeleteProject,
       ToggleWrite, BootNext, Ask, Callers
<1>2. ASSUME NEW h \in Callers, StartCancel(h) \/ StopProject(h) PROVE LocalInv'
    BY <1>2 DEF StartCancel, StopProject
<1>3. ASSUME NEW h \in Callers, NEW g \in Goroutines,
             StartProject(h, g) \/ StartReplace(h, g)
      PROVE  LocalInv'
    BY <1>3 DEF StartProject, StartReplace, Spawn, Crawlers
<1>4. ASSUME NEW g \in Goroutines, NewTicker(g) \/ Tick(g) \/ GoroutineExit(g)
      PROVE  LocalInv'
    BY <1>4 DEF NewTicker, Tick, GoroutineExit, Crawlers
<1>5. ASSUME NEW g \in Goroutines, NewTickerPanics(g) PROVE LocalInv'
    BY <1>5 DEF NewTickerPanics, Reset
<1>6. ASSUME NEW t \in Triggers, NEW p \in Projects, TriggerRequest(t, p)
      PROVE  LocalInv'
    BY <1>6 DEF TriggerRequest, Crawlers
<1>7. ASSUME NEW t \in Triggers, ClientGone(t) PROVE LocalInv'
    BY <1>7 DEF ClientGone
<1>8. ASSUME NEW c \in Crawlers, CrawlStep(c) PROVE LocalInv'
  <2>1. AfterCrawl(c) # "backoff"
    BY DEF AfterCrawl
  <2>2. QED
    BY <1>8, <2>1 DEF CrawlStep, TryLock, Setup, SetupFails, FetchOK, FetchRefused,
       FetchTransient, BackoffOver, FetchGivesUp, Finalize, Return
<1>9. CASE UNCHANGED vars
    BY <1>9 DEF vars
<1>10. QED
    BY <1>1, <1>2, <1>3, <1>4, <1>5, <1>6, <1>7, <1>8, <1>9
       DEF Next, Requests, SchedulerCall

\* A step that starts no loop, un-cancels none and moves no map entry leaks none.
LEMMA NoLeakStep ==
    TypeOK /\ LocalInv /\ NoLeakedLoop /\ [Next]_vars => NoLeakedLoop'
<1> SUFFICES ASSUME TypeOK, LocalInv, NoLeakedLoop, [Next]_vars
             PROVE  NoLeakedLoop'
    OBVIOUS
<1> DEFINE Quiet ==
      /\ current' = current
      /\ \A g \in Goroutines : Live(g)' => Live(g) /\ proj'[g] = proj[g]
      /\ \A g \in Goroutines : ~cancelled'[g] => ~cancelled[g]
<1>0. Quiet => NoLeakedLoop'
    BY DEF NoLeakedLoop
<1> USE ActorsDisjoint
<1> USE DEF TypeOK, Crawlers, Callers, Live, LivePcs, CrawlPcs, InCrawl, db, sched, crawl
<1> HIDE DEF Quiet
<1>1. Requests => Quiet
    BY DEF Quiet, Requests, PauseProject, ResumeProject, ToggleRead,
       DeleteProject, ToggleWrite, BootNext, Ask
<1>2. ASSUME NEW h \in Callers, StartCancel(h) PROVE Quiet
    BY <1>2 DEF StartCancel, Quiet
<1>3. ASSUME NEW h \in Callers, StopProject(h) PROVE NoLeakedLoop'
  <2>1. ASSUME NEW g \in Goroutines, Live(g)', ~cancelled'[g]
        PROVE  current'[proj'[g]] = g
    <3>1. Live(g) /\ ~cancelled[g] /\ proj'[g] = proj[g] /\ proj[g] \in Projects
      BY <1>3, <2>1 DEF StopProject, LocalInv
    <3>2. current[proj[g]] = g
      BY <3>1 DEF NoLeakedLoop
    <3>3. proj[g] # hproj[h]
      BY <1>3, <2>1, <3>2 DEF StopProject
    <3>4. QED
      BY <1>3, <3>1, <3>2, <3>3 DEF StopProject
  <2>2. QED
    BY <2>1 DEF NoLeakedLoop
<1>4. ASSUME NEW h \in Callers, NEW g \in Goroutines,
             StartProject(h, g) \/ StartReplace(h, g)
      PROVE  NoLeakedLoop'
  <2>1. /\ Spawn(h, g)
        /\ cancelled' = [cancelled EXCEPT ![g] = FALSE]
        /\ hproj[h] \in Projects
        /\ \/ current[hproj[h]] = NoGoroutine
           \/ pc[current[hproj[h]]] = "exited"
    BY <1>4 DEF StartProject, StartReplace, LocalInv
  <2>2. ASSUME NEW k \in Goroutines, Live(k)', ~cancelled'[k]
        PROVE  current'[proj'[k]] = k
    <3>1. CASE k = g
      BY <2>1, <3>1 DEF Spawn
    <3>2. CASE k # g
      <4>1. Live(k) /\ ~cancelled[k] /\ proj'[k] = proj[k] /\ proj[k] \in Projects
        BY <2>1, <2>2, <3>2 DEF Spawn, LocalInv
      <4>2. current[proj[k]] = k
        BY <4>1 DEF NoLeakedLoop
      <4>3. proj[k] # hproj[h]
        BY <2>1, <4>1, <4>2
      <4>4. QED
        BY <2>1, <4>1, <4>2, <4>3 DEF Spawn
    <3>3. QED
      BY <3>1, <3>2
  <2>3. QED
    BY <2>2 DEF NoLeakedLoop
<1>5. ASSUME NEW g \in Goroutines, NewTicker(g) \/ Tick(g) \/ GoroutineExit(g)
      PROVE  Quiet
    BY <1>5 DEF NewTicker, Tick, GoroutineExit, Quiet
<1>6. ASSUME NEW g \in Goroutines, NewTickerPanics(g) PROVE NoLeakedLoop'
    BY <1>6 DEF NewTickerPanics, Reset, NoLeakedLoop
<1>7. ASSUME NEW t \in Triggers, NEW p \in Projects, TriggerRequest(t, p)
      PROVE  Quiet
    BY <1>7 DEF TriggerRequest, Quiet
<1>8. ASSUME NEW t \in Triggers, ClientGone(t) PROVE Quiet
    BY <1>8 DEF ClientGone, Quiet
<1>9. ASSUME NEW c \in Crawlers, CrawlStep(c) PROVE Quiet
    BY <1>9 DEF CrawlStep, TryLock, Setup, SetupFails, FetchOK, FetchRefused,
       FetchTransient, BackoffOver, FetchGivesUp, Finalize, Return, Quiet
<1>10. UNCHANGED vars => Quiet
    BY DEF vars, Quiet
<1>11. QED
    BY <1>0, <1>1, <1>2, <1>3, <1>4, <1>5, <1>6, <1>7, <1>8, <1>9, <1>10
       DEF Next, Requests, SchedulerCall

\* Only TryLock takes the crawl mutex, only its holder's return gives it back.
LEMMA LockStep ==
    TypeOK /\ LocalInv /\ OneCrawlPerProject /\ [Next]_vars => OneCrawlPerProject'
<1> SUFFICES ASSUME TypeOK, LocalInv, OneCrawlPerProject, [Next]_vars
             PROVE  OneCrawlPerProject'
    OBVIOUS
<1> DEFINE Quiet ==
      /\ lock' = lock
      /\ \A c \in Crawlers : /\ pc'[c] \in InCrawl <=> pc[c] \in InCrawl
                             /\ pc[c] \in InCrawl => proj'[c] = proj[c]
<1>0. Quiet => OneCrawlPerProject'
    BY DEF OneCrawlPerProject
<1> USE ActorsDisjoint
<1> USE DEF TypeOK, Crawlers, InCrawl, db, sched, crawl
<1> HIDE DEF Quiet
<1>1. Requests => Quiet
    BY DEF Quiet, Requests, PauseProject, ResumeProject, ToggleRead,
       DeleteProject, ToggleWrite, BootNext, Ask
<1>2. ASSUME NEW h \in Callers, StartCancel(h) \/ StopProject(h) PROVE Quiet
    BY <1>2 DEF StartCancel, StopProject, Quiet
<1>3. ASSUME NEW h \in Callers, NEW g \in Goroutines,
             StartProject(h, g) \/ StartReplace(h, g)
      PROVE  Quiet
    BY <1>3 DEF StartProject, StartReplace, Spawn, Unused, Quiet
<1>4. ASSUME NEW g \in Goroutines, NewTicker(g) \/ Tick(g) \/ GoroutineExit(g)
      PROVE  Quiet
    BY <1>4 DEF NewTicker, Tick, GoroutineExit, Quiet
<1>5. ASSUME NEW g \in Goroutines, NewTickerPanics(g) PROVE OneCrawlPerProject'
    BY <1>5 DEF NewTickerPanics, Reset, OneCrawlPerProject
<1>6. ASSUME NEW t \in Triggers, NEW p \in Projects, TriggerRequest(t, p)
      PROVE  Quiet
    BY <1>6 DEF TriggerRequest, Quiet
<1>7. ASSUME NEW t \in Triggers, ClientGone(t) PROVE Quiet
    BY <1>7 DEF ClientGone, Quiet
<1>8. ASSUME NEW c \in Crawlers, TryLock(c) PROVE OneCrawlPerProject'
    BY <1>8 DEF TryLock, AfterCrawl, OneCrawlPerProject, LocalInv
<1>9. ASSUME NEW c \in Crawlers,
             Setup(c) \/ FetchOK(c) \/ FetchTransient(c) \/ BackoffOver(c)
      PROVE  Quiet
    BY <1>9 DEF Setup, FetchOK, FetchTransient, BackoffOver, Quiet
<1>10. ASSUME NEW c \in Crawlers,
              SetupFails(c) \/ FetchRefused(c) \/ FetchGivesUp(c) \/ Finalize(c)
       PROVE  OneCrawlPerProject'
  <2>1. pc[c] \in InCrawl /\ proj[c] \in Projects /\ Return(c)
    BY <1>10 DEF SetupFails, FetchRefused, FetchGivesUp, Finalize, LocalInv
  <2>2. AfterCrawl(c) \notin InCrawl
    BY DEF AfterCrawl
  <2>3. QED
    BY <2>1, <2>2 DEF Return, OneCrawlPerProject
<1>11. UNCHANGED vars => Quiet
    BY DEF vars, Quiet
<1>12. QED
    BY <1>0, <1>1, <1>2, <1>3, <1>4, <1>5, <1>6, <1>7, <1>8, <1>9, <1>10, <1>11
       DEF Next, Requests, SchedulerCall, CrawlStep

\* A step that writes no log row and moves no crawl past its setup keeps the log.
LEMMA LogQuiet ==
    ASSUME LogHolds, exists' = exists, log' = log,
           \A c \in Crawlers : pc'[c] \in InCrawl \ {"setup"}
                                => pc[c] \in InCrawl \ {"setup"} /\ proj'[c] = proj[c]
    PROVE  LogHolds'
    BY DEF LogHolds, RunningIsLogged, DeletedStaysGone

\* The log row of a project is written by the crawl that holds its mutex, and
\* by the deletion.
LEMMA LogStep ==
    TypeOK /\ LocalInv /\ OneCrawlPerProject /\ LogHolds /\ [Next]_vars => LogHolds'
<1> SUFFICES ASSUME TypeOK, LocalInv, OneCrawlPerProject, LogHolds, [Next]_vars
             PROVE  LogHolds'
    OBVIOUS
<1> DEFINE Quiet ==
      /\ exists' = exists /\ log' = log
      /\ \A c \in Crawlers : pc'[c] \in InCrawl \ {"setup"}
                             => pc[c] \in InCrawl \ {"setup"} /\ proj'[c] = proj[c]
<1>0. Quiet => LogHolds'
    BY LogQuiet
<1> USE ActorsDisjoint
<1> USE DEF TypeOK, Crawlers, InCrawl, db, sched, crawl
<1> HIDE DEF Quiet
<1>1. ASSUME NEW h \in Handlers, NEW p \in Projects, DeleteProject(h, p) PROVE LogHolds'
    BY <1>1 DEF DeleteProject, Ask, LogHolds, RunningIsLogged, DeletedStaysGone
<1>2. ASSUME NEW h \in Handlers, NEW p \in Projects,
             PauseProject(h, p) \/ ResumeProject(h, p) \/ ToggleRead(h, p)
      PROVE  Quiet
    BY <1>2 DEF PauseProject, ResumeProject, ToggleRead, Ask, Quiet
<1>3. ASSUME NEW h \in Handlers, ToggleWrite(h) PROVE Quiet
    BY <1>3 DEF ToggleWrite, Quiet
<1>4. ASSUME NEW p \in Projects, BootNext(p) PROVE Quiet
    BY <1>4 DEF BootNext, Quiet
<1>5. ASSUME NEW h \in Callers, StartCancel(h) \/ StopProject(h) PROVE Quiet
    BY <1>5 DEF StartCancel, StopProject, Quiet
<1>6. ASSUME NEW h \in Callers, NEW g \in Goroutines,
             StartProject(h, g) \/ StartReplace(h, g)
      PROVE  Quiet
    BY <1>6 DEF StartProject, StartReplace, Spawn, Quiet
<1>7. ASSUME NEW g \in Goroutines, NewTicker(g) \/ Tick(g) \/ GoroutineExit(g)
      PROVE  Quiet
    BY <1>7 DEF NewTicker, Tick, GoroutineExit, Quiet
<1>8. ASSUME NEW g \in Goroutines, NewTickerPanics(g) PROVE Quiet
    BY <1>8 DEF NewTickerPanics, Reset, Quiet
<1>9. ASSUME NEW t \in Triggers, NEW p \in Projects, TriggerRequest(t, p)
      PROVE  Quiet
    BY <1>9 DEF TriggerRequest, Quiet
<1>10. ASSUME NEW t \in Triggers, ClientGone(t) PROVE Quiet
    BY <1>10 DEF ClientGone, Quiet
<1>11. ASSUME NEW c \in Crawlers, TryLock(c) PROVE Quiet
    BY <1>11 DEF TryLock, AfterCrawl, Quiet
<1>12. ASSUME NEW c \in Crawlers, FetchOK(c) \/ FetchTransient(c) \/ BackoffOver(c)
       PROVE  Quiet
    BY <1>12 DEF FetchOK, FetchTransient, BackoffOver, Quiet
<1>13. ASSUME NEW c \in Crawlers, SetupFails(c) PROVE Quiet
    BY <1>13 DEF SetupFails, Return, AfterCrawl, Quiet
<1>14. ASSUME NEW c \in Crawlers, Setup(c) PROVE LogHolds'
    BY <1>14 DEF Setup, LocalInv, LogHolds, RunningIsLogged, DeletedStaysGone
<1>15. ASSUME NEW c \in Crawlers, FetchRefused(c) \/ FetchGivesUp(c) \/ Finalize(c)
       PROVE  LogHolds'
  <2>1. pc[c] \in InCrawl /\ proj[c] \in Projects /\ Return(c)
    BY <1>15 DEF FetchRefused, FetchGivesUp, Finalize, LocalInv
  <2>2. PICK status : UpdateFinished(c, status)
    BY <1>15 DEF FetchRefused, FetchGivesUp, Finalize
  <2>3. \A d \in Crawlers \ {c} : pc[d] \in InCrawl => proj[d] # proj[c]
    BY <2>1 DEF OneCrawlPerProject
  <2>4. /\ proj' = proj /\ pc'[c] \notin InCrawl
        /\ \A d \in Crawlers \ {c} : pc'[d] = pc[d]
    BY <2>1 DEF Return, AfterCrawl
  <2>5. \A p \in Projects : p # proj[c] \/ log[p] = "none" => log'[p] = log[p]
    BY <2>1, <2>2 DEF UpdateFinished
  <2>6. RunningIsLogged'
    <3> SUFFICES ASSUME NEW d \in Crawlers, pc'[d] \in InCrawl \ {"setup"}
                 PROVE  log'[proj'[d]] \in {"running", "none"}
      BY DEF RunningIsLogged
    <3>1. d # c /\ pc[d] \in InCrawl \ {"setup"} /\ proj'[d] = proj[d]
      BY <2>4
    <3>2. proj[d] \in Projects /\ proj[d] # proj[c]
      BY <2>3, <3>1 DEF LocalInv
    <3>3. QED
      BY <2>5, <3>1, <3>2 DEF LogHolds, RunningIsLogged
  <2>7. DeletedStaysGone'
    BY <2>2, <2>5 DEF UpdateFinished, LogHolds, DeletedStaysGone
  <2>8. QED
    BY <2>6, <2>7 DEF LogHolds
<1>16. UNCHANGED vars => Quiet
    BY DEF vars, Quiet
<1>17. QED
    BY <1>0, <1>1, <1>2, <1>3, <1>4, <1>5, <1>6, <1>7, <1>8, <1>9, <1>10, <1>11,
       <1>12, <1>13, <1>14, <1>15, <1>16
       DEF Next, SchedulerCall, CrawlStep

\* Type correctness of the scheduler's state.
THEOREM TypeCorrect == Spec => [](TypeOK /\ LocalInv)
<1>1. Init => TypeOK /\ LocalInv
    BY ActorsDisjoint, RetriesAssumption
       DEF Init, TypeOK, LocalInv, LogStatuses, HandlerPcs, Pcs
<1>2. TypeOK /\ LocalInv /\ [Next]_vars => TypeOK' /\ LocalInv'
    BY TypeStep, LocalStep
<1>3. QED
    BY <1>1, <1>2, PTL DEF Spec

\* Every crawl loop that was not told to stop can be: it is the scheduler's
\* own entry, however pauses, resumes, toggles, deletes, the boot loop and
\* panics interleave.
THEOREM NoLeakedLoopAlways == Spec => []NoLeakedLoop
<1>1. Init => NoLeakedLoop
    BY DEF Init, NoLeakedLoop, Live, LivePcs, CrawlPcs, InCrawl, Crawlers
<1>2. TypeOK /\ LocalInv /\ NoLeakedLoop /\ [Next]_vars => NoLeakedLoop'
    BY NoLeakStep
<1>3. QED
    BY <1>1, <1>2, TypeCorrect, PTL DEF Spec

\* Two crawls of one project never overlap, duplicate loops included.
THEOREM OneCrawlPerProjectAlways == Spec => []OneCrawlPerProject
<1>1. Init => OneCrawlPerProject
  <2> SUFFICES ASSUME Init, NEW c \in Crawlers, NEW p \in Projects
               PROVE  lock[p] # c /\ pc[c] \notin InCrawl
    BY DEF OneCrawlPerProject
  <2>1. lock[p] = NoOne /\ NoOne # c
    BY ActorsDisjoint DEF Init
  <2>2. pc[c] = "free"
    BY DEF Init
  <2>3. QED
    BY <2>1, <2>2 DEF InCrawl
<1>2. TypeOK /\ LocalInv /\ OneCrawlPerProject /\ [Next]_vars
          => OneCrawlPerProject'
    BY LockStep
<1>3. QED
    BY <1>1, <1>2, TypeCorrect, PTL DEF Spec

\* The crawl log is never wrong about a crawl under way, and deletions are
\* final, however crawls, deletions and cancelled contexts interleave.
THEOREM LogHoldsAlways == Spec => []LogHolds
<1>1. Init => LogHolds
    BY DEF Init, LogHolds, RunningIsLogged, DeletedStaysGone, InCrawl
<1>2. TypeOK /\ LocalInv /\ OneCrawlPerProject /\ LogHolds /\ [Next]_vars => LogHolds'
    BY LogStep
<1>3. QED
    BY <1>1, <1>2, TypeCorrect, OneCrawlPerProjectAlways, PTL DEF Spec
=============================================================================
