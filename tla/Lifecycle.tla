----------------------------- MODULE Lifecycle ------------------------------
(***************************************************************************)
(* The life of the process (cmd/mibeehive): runServers starts the loops    *)
(* and the servers in order, waits for a signal or for a restore that asks *)
(* for a restart, and stops them in another order, with one deadline for   *)
(* the servers and the downloads together.                                 *)
(*                                                                         *)
(* A loop is a goroutine that runs until its context is cancelled.  The    *)
(* crawl, retry and catalog loops download; nothing says when a download,  *)
(* a request or a script ends.  globalCancel cancels a context that nobody *)
(* holds, so it stops no download.                                         *)
(***************************************************************************)
EXTENDS Naturals, Sequences, FiniteSets

CONSTANTS
    Options,            \* parts that the configuration may turn on
    MaxRestore          \* bound: restores that ask for a restart

\* what the constants are
Constants == Options \subseteq {"disk", "registry", "https", "backup"} /\ MaxRestore \in Nat

Servers     == {"http", "https"}
Downloaders == {"crawl", "retry", "catalog"}

VARIABLES
    opts,       \* what the configuration turns on
    pc,         \* where main is
    running,    \* loops that were started
    cancelled,  \* loops whose context is cancelled, or that were told to stop
    up,         \* servers that accept
    busy,       \* servers with a request being handled
    downloads,  \* loops that are downloading
    drain,      \* the goroutine that waits for the downloads
    script,     \* a script is running
    quit,       \* signals in the channel, which has room for one
    asking,     \* restores whose goroutine is at the channel
    restores,   \* restores so far
    deadline    \* shutdownCtx has expired

vars == <<opts, pc, running, cancelled, up, busy, downloads, drain, script, quit, asking, restores, deadline>>
work == <<up, busy, downloads, script, quit, asking, restores, deadline>>

Init ==
    /\ opts \in SUBSET Options
    /\ pc = "services"
    /\ running = {}
    /\ cancelled = {}
    /\ up = {}
    /\ busy = {}
    /\ downloads = {}
    /\ drain = "file"
    /\ script = FALSE
    /\ quit = 0
    /\ asking = 0
    /\ restores = 0
    /\ deadline = FALSE

-----------------------------------------------------------------------------
(* Starting. *)

Start(from, to, loops) ==
    /\ pc = from
    /\ pc' = to
    /\ running' = running \cup loops
    /\ UNCHANGED <<opts, cancelled, drain, work>>

\* os.Exit(1)
Fail(from) ==
    /\ pc = from
    /\ pc' = "killed"
    /\ UNCHANGED <<opts, running, cancelled, drain, work>>

\* the goroutines of initServices
InitServices ==
    Start("services", "monitor",
          {"retry", "vpath"} \cup (IF "disk" \in opts THEN {"disk"} ELSE {})
                             \cup (IF "registry" \in opts THEN {"retention"} ELSE {}))

StartMonitor == Start("monitor", "listen", {"monitor"})

\* both servers; the certificate may not load
StartServers ==
    \/ /\ pc = "listen"
       /\ pc' = "crawl"
       /\ up' = {"http"} \cup (opts \cap {"https"})
       /\ UNCHANGED <<opts, running, cancelled, busy, downloads, drain, script, quit, asking, restores, deadline>>
    \/ "https" \in opts /\ Fail("listen")

StartCrawl == Start("crawl", "scripts", {"crawl"}) \/ Fail("crawl")

\* an error is only logged
StartScripts == Start("scripts", "catalog", {"scripts"}) \/ Start("scripts", "catalog", {})

StartCatalog == Start("catalog", "backup", {"catalog"})

StartBackup == Start("backup", "notify", opts \cap {"backup"})

\* signal.Notify, after which signals reach the channel
Notify == Start("notify", "wait", {})

Starting ==
    InitServices \/ StartMonitor \/ StartServers \/ StartCrawl \/ StartScripts \/ StartCatalog
    \/ StartBackup \/ Notify

-----------------------------------------------------------------------------
(* What happens meanwhile. *)

Alive == pc \notin {"exited", "killed"}

\* what main holds, and what others may change
main == <<opts, pc, running, cancelled, drain>>

RequestStarts(s) ==
    /\ Alive
    /\ s \in up
    /\ busy' = busy \cup {s}
    /\ UNCHANGED <<main, up, downloads, script, quit, asking, restores, deadline>>

RequestEnds(s) ==
    /\ Alive
    /\ s \in busy
    /\ busy' = busy \ {s}
    /\ UNCHANGED <<main, up, downloads, script, quit, asking, restores, deadline>>

\* ListenAndServe returns with an error: os.Exit(1) in the server's goroutine
ListenerFails(s) ==
    /\ Alive
    /\ s \in up
    /\ pc' = "killed"
    /\ UNCHANGED <<opts, running, cancelled, drain, work>>

\* RestoreBackup: go requestShutdown()
RestoreAsks(s) ==
    /\ Alive
    /\ s \in busy
    /\ restores < MaxRestore
    /\ restores' = restores + 1
    /\ asking' = asking + 1
    /\ UNCHANGED <<main, up, busy, downloads, script, quit, deadline>>

\* ... sends when there is room
RequestShutdown ==
    /\ Alive
    /\ asking > 0
    /\ quit = 0
    /\ quit' = 1
    /\ asking' = asking - 1
    /\ UNCHANGED <<main, up, busy, downloads, script, restores, deadline>>

\* SIGINT or SIGTERM: without Notify the process ends, with it the channel gets what it has room for
Signal ==
    /\ Alive
    /\ IF pc \in {"services", "monitor", "listen", "crawl", "scripts", "catalog", "backup", "notify"}
         THEN pc' = "killed" /\ UNCHANGED quit
         ELSE quit' = 1 /\ UNCHANGED pc
    /\ UNCHANGED <<opts, running, cancelled, drain, up, busy, downloads, script, asking, restores, deadline>>

\* a loop whose context is not cancelled starts a download
DownloadStarts(l) ==
    /\ Alive
    /\ l \in (Downloaders \cap running) \ cancelled
    /\ downloads' = downloads \cup {l}
    /\ UNCHANGED <<main, up, busy, script, quit, asking, restores, deadline>>

DownloadEnds(l) ==
    /\ Alive
    /\ l \in downloads
    /\ downloads' = downloads \ {l}
    /\ UNCHANGED <<main, up, busy, script, quit, asking, restores, deadline>>

ScriptStarts ==
    /\ Alive
    /\ "scripts" \in running \ cancelled
    /\ script' = TRUE
    /\ UNCHANGED <<main, up, busy, downloads, quit, asking, restores, deadline>>

ScriptEnds ==
    /\ Alive
    /\ script
    /\ script' = FALSE
    /\ UNCHANGED <<main, up, busy, downloads, quit, asking, restores, deadline>>

Meanwhile ==
    \/ \E s \in Servers : RequestStarts(s) \/ RequestEnds(s) \/ RestoreAsks(s) \/ ListenerFails(s)
    \/ RequestShutdown \/ Signal \/ ScriptStarts \/ ScriptEnds
    \/ \E l \in Downloaders : DownloadStarts(l) \/ DownloadEnds(l)

-----------------------------------------------------------------------------
(* Stopping. *)

Step(from, to) ==
    /\ pc = from
    /\ pc' = to
    /\ UNCHANGED <<opts, running, drain, busy, downloads, script, asking, restores>>

\* sig := <-quit
Receive ==
    /\ quit = 1
    /\ quit' = 0
    /\ Step("wait", "http")
    /\ UNCHANGED <<cancelled, up, deadline>>

\* ten seconds have passed since
DeadlinePasses ==
    /\ pc \in {"http", "https", "cancel", "drain"}
    /\ ~deadline
    /\ deadline' = TRUE
    /\ UNCHANGED <<main, up, busy, downloads, script, quit, asking, restores>>

\* Shutdown of a server: no more requests, ...
CloseListener(s) ==
    /\ pc = s
    /\ s \in up
    /\ up' = up \ {s}
    /\ UNCHANGED <<main, busy, downloads, script, quit, asking, restores, deadline>>

\* ... and those under way end, or the deadline passes
Idle(s) == s \notin busy \/ deadline

ServerDown(s, next) ==
    /\ s \notin up
    /\ Idle(s)
    /\ Step(s, next)
    /\ UNCHANGED <<cancelled, up, quit, deadline>>

\* the disk monitor, the registry, globalCancel and the path index
CancelFirst ==
    /\ Step("cancel", "drain")
    /\ cancelled' = cancelled \cup (running \cap {"disk", "retention", "vpath"})
    /\ UNCHANGED <<up, quit, deadline>>

\* FileService.Shutdown, then ISOService.Shutdown
Drain ==
    /\ pc = "drain"
    /\ \/ drain = "file" /\ downloads \cap {"crawl", "retry"} = {} /\ drain' = "iso"
       \/ drain = "iso" /\ "catalog" \notin downloads /\ drain' = "done"
    /\ UNCHANGED <<opts, pc, running, cancelled, work>>

\* Faulty variant: the wait for the downloads is not bounded.
DrainOver_Unbounded == drain = "done"

\* the select on downloadDone and the deadline
DrainOver == drain = "done" \/ deadline

StopDrain ==
    /\ DrainOver
    /\ Step("drain", "stop")
    /\ UNCHANGED <<cancelled, up, quit, deadline>>

\* crawlManager.Stop, and ScriptScheduler.Stop: no new run
StopLoops ==
    /\ Step("stop", "join")
    /\ cancelled' = cancelled \cup (running \cap {"crawl", "scripts"})
    /\ UNCHANGED <<up, quit, deadline>>

\* ... which waits for the script under way, or ten seconds
JoinScripts ==
    /\ Step("join", "rest")
    /\ UNCHANGED <<cancelled, up, quit, deadline>>

\* Faulty variant: without backupCancel.
Remaining_NoBackup == {"monitor", "catalog", "retry"}

Remaining == {"monitor", "catalog", "backup", "retry"}

\* the contexts that are left; main returns and closes the database
CancelRest ==
    /\ Step("rest", "exited")
    /\ cancelled' = cancelled \cup (running \cap Remaining)
    /\ UNCHANGED <<up, quit, deadline>>

Stopping ==
    \/ Receive
    \/ \E s \in Servers : CloseListener(s)
    \/ ServerDown("http", IF "https" \in opts THEN "https" ELSE "cancel")
    \/ ServerDown("https", "cancel")
    \/ CancelFirst \/ StopDrain \/ StopLoops \/ JoinScripts \/ CancelRest

Next == Starting \/ Meanwhile \/ Stopping \/ DeadlinePasses \/ Drain

\* Main and the goroutine it starts go on, the timer fires, and a sender finds room in the
\* end; requests, downloads and scripts need not end.
Spec ==
    /\ Init /\ [][Next]_vars
    /\ WF_vars(Starting \/ Stopping) /\ WF_vars(DeadlinePasses) /\ WF_vars(Drain)
    /\ WF_vars(RequestShutdown)

-----------------------------------------------------------------------------
\* Every variable has its type.
TypeOK ==
    /\ cancelled \subseteq running
    /\ up \subseteq Servers /\ busy \subseteq Servers
    /\ downloads \subseteq Downloaders
    /\ quit \in 0..1 /\ asking \in 0..MaxRestore
    /\ drain \in {"file", "iso", "done"}

\* When main has returned, every loop that was started has been told to stop, whatever the
\* configuration turned on, no server accepts, and a request is cut off only because the
\* deadline had passed.
CleanExit ==
    pc = "exited" => /\ running \subseteq cancelled
                     /\ up = {}
                     /\ busy # {} => deadline

\* A signal or a restore's request is followed by the end of the process, although
\* requests, downloads and scripts may go on for ever.
ShutdownEnds == (quit = 1 \/ asking > 0) ~> ~Alive
=============================================================================
