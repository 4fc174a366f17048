------------------------------ MODULE Scripts ------------------------------
(***************************************************************************)
(* Scheduled scripts: the rows of scheduled_scripts and script_runs, the   *)
(* cron entries that ScriptScheduler keeps beside them, and the executions *)
(* that StartRun launches.  Handlers, cron jobs and executions interleave  *)
(* between their statements; the process may stop anywhere.                *)
(*                                                                         *)
(* A script's file is absent, half written or whole; what it prints and    *)
(* how long it takes is left out (a timeout is a failure).                 *)
(***************************************************************************)
EXTENDS Naturals, Sequences

CONSTANTS
    Admins,         \* admin requests under way at a time
    Jobs,           \* cron jobs under way at a time
    Names,          \* script names
    Schedules,      \* cron expressions that requests send
    Bad,            \* the one of them that does not parse
    Paths,          \* script paths
    MaxScript,      \* bound: scripts created
    MaxRun,         \* bound: runs started
    MaxBoot,        \* bound: starts of the process
    None

\* a row of scheduled_scripts
Row == [name : Names, schedule : Schedules, path : Paths, enabled : BOOLEAN, last : {None, "ok", "failed"}]

\* what the constants are
Constants ==
    /\ Bad \in Schedules
    /\ None \notin Names \cup Schedules \cup Paths \cup {"ok", "failed"} \cup Row
    /\ {MaxScript, MaxRun, MaxBoot} \subseteq Nat

Callers == Admins \cup Jobs
Ids     == 1..MaxScript
RunIds  == 1..MaxRun

VARIABLES
    up,         \* phase of the process: down, serving, listed, on, stopped
    boots,      \* starts so far
    scripts,    \* rows of scheduled_scripts by id, or None
    lastId,     \* the AUTOINCREMENT counter
    runs,       \* rows of script_runs by id: script, done (None, ok, failed), gone
    content,    \* files below the scripts directory: none, part, whole
    entries,    \* ScriptScheduler.entries: the schedule of an id's cron entry, or None
    listing,    \* what Start has read
    running,    \* ScriptService.running
    req,        \* a request or cron job and its locals
    exec,       \* executions by run: pc and locals
    raced,      \* history: scripts with overlapping edits or starts
    lost        \* history: runs whose end could not be recorded

vars == <<up, boots, scripts, lastId, runs, content, entries, listing, running, req, exec, raced, lost>>

Input == [name : Names \cup {None}, schedule : Schedules \cup {None}, path : Paths \cup {None},
          enabled : BOOLEAN \cup {None}]

Idle  == [pc |-> "idle", id |-> 0, row |-> None, run |-> 0]
Ended == [pc |-> "none", known |-> FALSE, out |-> None]

\* NewScriptService and NewScriptScheduler on an empty database
Init ==
    /\ up = "down" /\ boots = 0
    /\ scripts = [i \in Ids |-> None] /\ lastId = 0
    /\ runs = <<>>
    /\ content = [p \in Paths |-> "none"]
    /\ entries = [i \in Ids |-> None] /\ listing = [i \in Ids |-> None]
    /\ running = {}
    /\ req = [c \in Callers |-> Idle]
    /\ exec = [r \in RunIds |-> Ended]
    /\ raced = {} /\ lost = {}

Alive == up # "down"

\* a request begins, goes on or ends
Goto(c, pc, i, row) == req' = [req EXCEPT ![c] = [Idle EXCEPT !.pc = pc, !.id = i, !.row = row]]
End(c) == req' = [req EXCEPT ![c] = Idle]

Edits  == {"write", "fetch", "sync"}
Starts == {"insert", "launch"}

\* history: c begins to edit (or start) i while another does
Race(c, i, pcs) ==
    IF \E d \in Callers \ {c} : req[d].pc \in pcs /\ req[d].id = i THEN raced \cup {i} ELSE raced

-----------------------------------------------------------------------------
(* Creating, changing and deleting a script. *)

\* ValidateSchedule: the expression parses
ValidateSchedule(schedule) == schedule # Bad

\* validateScriptPath: there is one, below the scripts directory
ValidateScriptPath(path) == path # None

\* validate
Valid(in) == None \notin {in.name, in.schedule} /\ ValidateSchedule(in.schedule) /\ ValidateScriptPath(in.path)

\* the UNIQUE constraint on name
Free(name, i) == \A j \in Ids \ {i} : scripts[j] # None => scripts[j].name # name

\* CreateScript: INSERT; a script is enabled unless the request says otherwise
CreateScript(c, in) ==
    /\ up \in {"serving", "listed", "on"} /\ req[c].pc = "idle"
    /\ lastId < MaxScript
    /\ Valid(in) /\ Free(in.name, lastId + 1)
    /\ lastId' = lastId + 1
    /\ scripts' = [scripts EXCEPT ![lastId + 1] =
           [name |-> in.name, schedule |-> in.schedule, path |-> in.path,
            enabled |-> in.enabled # FALSE, last |-> None]]
    /\ Goto(c, "fetch", lastId + 1, None)
    /\ UNCHANGED <<up, boots, runs, content, entries, listing, running, exec, raced, lost>>

\* UpdateScript keeps the fields that the request leaves out
Merged(cur, in) ==
    [cur EXCEPT !.name = IF in.name = None THEN @ ELSE in.name,
                !.schedule = IF in.schedule = None THEN @ ELSE in.schedule,
                !.path = IF in.path = None THEN @ ELSE in.path,
                !.enabled = IF in.enabled = None THEN @ ELSE in.enabled]

\* UpdateScript: the row is read and merged with the request
UpdateScript(c, i, in) ==
    /\ up \in {"serving", "listed", "on"} /\ req[c].pc = "idle"
    /\ scripts[i] # None
    /\ Valid(Merged(scripts[i], in))
    /\ Goto(c, "write", i, Merged(scripts[i], in))
    /\ raced' = Race(c, i, Edits)
    /\ UNCHANGED <<up, boots, scripts, lastId, runs, content, entries, listing, running, exec, lost>>

\* UpdateScript: and all of it written, last_status apart; a name that is taken is an error
WriteScript(c) ==
    /\ Alive /\ req[c].pc = "write"
    /\ LET i == req[c].id IN
         IF scripts[i] # None /\ ~Free(req[c].row.name, i) THEN End(c) /\ UNCHANGED scripts
         ELSE /\ scripts' = IF scripts[i] = None THEN scripts
                            ELSE [scripts EXCEPT ![i] = [req[c].row EXCEPT !.last = scripts[i].last]]
              /\ Goto(c, "fetch", i, None)
    /\ UNCHANGED <<up, boots, lastId, runs, content, entries, listing, running, exec, raced, lost>>

\* GetScript at the end of CreateScript and UpdateScript: the row as it is now
GetScript(c) ==
    /\ Alive /\ req[c].pc = "fetch"
    /\ IF scripts[req[c].id] = None THEN End(c) ELSE Goto(c, "sync", req[c].id, scripts[req[c].id])
    /\ UNCHANGED <<up, boots, scripts, lastId, runs, content, entries, listing, running, exec, raced, lost>>

\* DeleteScript: the row and, by cascade, its runs
DeleteScript(c, i) ==
    /\ up \in {"serving", "listed", "on"} /\ req[c].pc = "idle"
    /\ scripts[i] # None
    /\ scripts' = [scripts EXCEPT ![i] = None]
    /\ runs' = [r \in DOMAIN runs |-> IF runs[r].script = i THEN [runs[r] EXCEPT !.gone = TRUE] ELSE runs[r]]
    /\ Goto(c, "sync", i, None)
    /\ raced' = Race(c, i, Edits)
    /\ UNCHANGED <<up, boots, lastId, content, entries, listing, running, exec, lost>>

\* addLocked, for a script that is enabled: the schedule parses
AddLocked(row) ==
    IF row = None THEN None ELSE IF ~row.enabled \/ row.schedule = Bad THEN None ELSE row.schedule

\* Remove: no entry of an id
Remove(i) == [entries EXCEPT ![i] = None]

\* Reschedule, or Remove after a delete: the old entry goes, and a new one comes
\* if the scheduler has started
Reschedule(c) ==
    /\ Alive /\ req[c].pc = "sync"
    /\ LET i == req[c].id IN
         /\ entries' = [Remove(i) EXCEPT ![i] = IF up = "on" THEN AddLocked(req[c].row) ELSE None]
         /\ raced' = IF up = "listed" /\ AddLocked(listing[i]) # AddLocked(req[c].row) THEN raced \cup {i} ELSE raced
    /\ End(c)
    /\ UNCHANGED <<up, boots, scripts, lastId, runs, content, listing, running, exec, lost>>

-----------------------------------------------------------------------------
(* The file. *)

\* PutScriptContent: the path is looked up and the file truncated
PutScriptContent(c, i) ==
    /\ up \in {"serving", "listed", "on"} /\ req[c].pc = "idle"
    /\ scripts[i] # None
    /\ content' = [content EXCEPT ![scripts[i].path] = "part"]
    /\ Goto(c, "body", i, scripts[i])
    /\ UNCHANGED <<up, boots, scripts, lastId, runs, entries, listing, running, exec, raced, lost>>

\* and written
WriteContent(c) ==
    /\ Alive /\ req[c].pc = "body"
    /\ content' = [content EXCEPT ![req[c].row.path] = "whole"]
    /\ End(c)
    /\ UNCHANGED <<up, boots, scripts, lastId, runs, entries, listing, running, exec, raced, lost>>

-----------------------------------------------------------------------------
(* Starting a run. *)

\* Faulty variant: a run begins whatever else runs.
IsRunning_Never(i) == FALSE

\* setRunning
SetRunning(i, on) == running' = IF on THEN running \cup {i} ELSE running \ {i}

\* isRunning
IsRunning(i) == i \in running

\* StartRun from the Run handler, and from a cron tick of an entry: the script
\* exists and is not running
StartRun(c, i) ==
    /\ req[c].pc = "idle"
    /\ IF c \in Admins THEN up \in {"serving", "listed", "on"} ELSE up = "on" /\ entries[i] # None
    /\ scripts[i] # None /\ ~IsRunning(i)
    /\ Goto(c, "insert", i, None)
    /\ raced' = Race(c, i, Starts)
    /\ UNCHANGED <<up, boots, scripts, lastId, runs, content, entries, listing, running, exec, lost>>

\* INSERT, which the foreign key refuses for a script deleted meanwhile
InsertRun(c) ==
    /\ Alive /\ req[c].pc = "insert"
    /\ IF scripts[req[c].id] = None THEN End(c) /\ UNCHANGED runs
       ELSE /\ Len(runs) < MaxRun
            /\ runs' = Append(runs, [script |-> req[c].id, done |-> None, gone |-> FALSE])
            /\ req' = [req EXCEPT ![c].pc = "launch", ![c].run = Len(runs) + 1]
    /\ UNCHANGED <<up, boots, scripts, lastId, content, entries, listing, running, exec, raced, lost>>

\* GetRun, setRunning and the goroutine; a row that is gone, or a client that is
\* (the statements use the request's context), ends it here
Launch(c) ==
    /\ Alive /\ req[c].pc = "launch"
    /\ LET r == req[c].run IN
         \/ /\ runs[r].gone \/ c \in Admins
            /\ lost' = lost \cup {r}
            /\ UNCHANGED <<running, exec>>
         \/ /\ ~runs[r].gone
            /\ SetRunning(req[c].id, TRUE)
            /\ exec' = [exec EXCEPT ![r] = [Ended EXCEPT !.pc = "begin"]]
            /\ UNCHANGED lost
    /\ End(c)
    /\ UNCHANGED <<up, boots, scripts, lastId, runs, content, entries, listing, raced>>

-----------------------------------------------------------------------------
(* An execution. *)

\* execute up to cmd.Run: a script that vanished and a file that is missing fail
Begun(row) ==
    IF row = None THEN [pc |-> "record", known |-> FALSE, out |-> "failed"]
    ELSE IF content[row.path] = "none" THEN [pc |-> "record", known |-> TRUE, out |-> "failed"]
    ELSE [pc |-> "run", known |-> TRUE, out |-> None]

Execute(r) ==
    /\ Alive /\ exec[r].pc = "begin"
    /\ exec' = [exec EXCEPT ![r] = Begun(scripts[runs[r].script])]
    /\ running' = IF exec'[r].pc = "none" THEN running \ {runs[r].script} ELSE running
    /\ UNCHANGED <<up, boots, scripts, lastId, runs, content, entries, listing, req, raced, lost>>

\* cmd.Run ends: exit code 0, another one, a timeout
RunEnds(r, out) ==
    /\ Alive /\ exec[r].pc = "run"
    /\ exec' = [exec EXCEPT ![r].pc = "record", ![r].out = out]
    /\ UNCHANGED <<up, boots, scripts, lastId, runs, content, entries, listing, running, req, raced, lost>>

\* finishRun: the run's row, if it is there; a failing statement is logged
FinishRun(r) ==
    /\ Alive /\ exec[r].pc = "record"
    /\ \/ runs' = [runs EXCEPT ![r].done = exec[r].out] /\ UNCHANGED lost
       \/ lost' = lost \cup {r} /\ UNCHANGED runs
    /\ exec' = [exec EXCEPT ![r].pc = "status"]
    /\ UNCHANGED <<up, boots, scripts, lastId, content, entries, listing, running, req, raced>>

\* finishRun: last_status of a script that execute has seen, and the deferred setRunning
FinishStatus(r) ==
    /\ Alive /\ exec[r].pc = "status"
    /\ LET i == runs[r].script IN
         /\ \/ /\ scripts' = IF exec[r].known /\ scripts[i] # None
                             THEN [scripts EXCEPT ![i].last = exec[r].out] ELSE scripts
               /\ UNCHANGED lost
            \/ lost' = lost \cup {r} /\ UNCHANGED scripts
         /\ SetRunning(i, FALSE)
    /\ exec' = [exec EXCEPT ![r] = Ended]
    /\ UNCHANGED <<up, boots, lastId, runs, content, entries, listing, req, raced>>

-----------------------------------------------------------------------------
(* The process. *)

\* the HTTP server is started first
Serve ==
    /\ up = "down" /\ boots < MaxBoot
    /\ up' = "serving" /\ boots' = boots + 1
    /\ UNCHANGED <<scripts, lastId, runs, content, entries, listing, running, req, exec, raced, lost>>

\* ScriptScheduler.Start: ListScripts, before the lock is taken
ListScripts ==
    /\ up = "serving"
    /\ up' = "listed" /\ listing' = scripts
    /\ UNCHANGED <<boots, scripts, lastId, runs, content, entries, running, req, exec, raced, lost>>

\* ScriptScheduler.Start: an entry for every enabled script of the list
Start ==
    /\ up = "listed"
    /\ up' = "on"
    /\ entries' = [i \in Ids |-> AddLocked(listing[i])]
    /\ listing' = [i \in Ids |-> None]
    /\ UNCHANGED <<boots, scripts, lastId, runs, content, running, req, exec, raced, lost>>

\* ScriptScheduler.Stop: no more ticks; executions are not waited for
Stop ==
    /\ up = "on"
    /\ up' = "stopped"
    /\ UNCHANGED <<boots, scripts, lastId, runs, content, entries, listing, running, req, exec, raced, lost>>

\* the process ends, in order or not: executions and requests with it
Exit ==
    /\ Alive
    /\ up' = "down"
    /\ entries' = [i \in Ids |-> None] /\ listing' = [i \in Ids |-> None]
    /\ running' = {}
    /\ req' = [c \in Callers |-> Idle]
    /\ exec' = [r \in RunIds |-> Ended]
    /\ lost' = lost \cup {r \in DOMAIN runs : exec[r].pc # "none" \/ \E c \in Callers : req[c].run = r}
    /\ UNCHANGED <<boots, scripts, lastId, runs, content, raced>>

-----------------------------------------------------------------------------
(* The handlers: a request decodes its input, and an id that is no number ends it. *)

Create(c)     == \E in \in Input : CreateScript(c, in)
Update(c)     == \E i \in Ids, in \in Input : UpdateScript(c, i, in)
Delete(c)     == \E i \in Ids : DeleteScript(c, i)
PutContent(c) == \E i \in Ids : PutScriptContent(c, i)

\* Run, and the function of a cron entry
Run(c) == \E i \in Ids : StartRun(c, i)

Next ==
    \/ \E c \in Admins :
           \/ Create(c) \/ Update(c) \/ Delete(c) \/ PutContent(c)
           \/ WriteScript(c) \/ GetScript(c) \/ Reschedule(c) \/ WriteContent(c)
    \/ \E c \in Callers : Run(c) \/ InsertRun(c) \/ Launch(c)
    \/ \E r \in RunIds :
           \/ Execute(r) \/ FinishRun(r) \/ FinishStatus(r)
           \/ \E out \in {"ok", "failed"} : RunEnds(r, out)
    \/ Serve \/ ListScripts \/ Start \/ Stop \/ Exit

Spec == Init /\ [][Next]_vars

-----------------------------------------------------------------------------
(* Properties. *)

\* Every variable has its type; a row's schedule parses.
TypeOK ==
    /\ up \in {"down", "serving", "listed", "on", "stopped"}
    /\ \A i \in Ids : scripts[i] # None => scripts[i] \in Row /\ scripts[i].schedule # Bad /\ i <= lastId
    /\ \A r \in DOMAIN runs : runs[r].script \in Ids /\ runs[r].done \in {None, "ok", "failed"}
    /\ content \in [Paths -> {"none", "part", "whole"}]
    /\ entries \in [Ids -> (Schedules \ {Bad}) \cup {None}]
    /\ running \subseteq Ids
    /\ \A r \in RunIds : exec[r].pc # "none" => r \in DOMAIN runs

InFlight(i) == {r \in DOMAIN runs : runs[r].script = i /\ exec[r].pc # "none"}
Busy(i, pcs) == \E c \in Callers : req[c].pc \in pcs /\ req[c].id = i

\* Reschedule "syncs one script's cron entry after create/update/delete": with the
\* scheduler started and no edit of a script under way, its cron entry is what its
\* row says, unless edits of it overlapped each other or Start.
EntriesFollow ==
    up = "on" =>
        \A i \in Ids \ raced :
            ~Busy(i, Edits) => entries[i] = IF scripts[i] = None THEN None
                                            ELSE IF scripts[i].enabled THEN scripts[i].schedule ELSE None

\* "Skip if previous run still going - overlap guard lives in StartRun": a script
\* whose starts did not overlap has one execution at a time, and is marked running.
OneAtATime ==
    \A i \in Ids \ raced : (\A q, r \in InFlight(i) : q = r) /\ (InFlight(i) # {} => i \in running)

\* "finished_at NULL while running" (029_scheduled_scripts.sql): a run without an end
\* is under way, or its end was lost with the process or a failing statement.
RunsAccounted ==
    \A r \in DOMAIN runs \ lost :
        runs[r].done = None =>
            exec[r].pc # "none" \/ \E c \in Callers : req[c].pc = "launch" /\ req[c].run = r

\* last_status is that of the newest run of a script, once it has ended and was recorded.
LastRunShown ==
    \A i \in Ids \ raced :
        scripts[i] # None /\ InFlight(i) = {} =>
            \A r \in DOMAIN runs \ lost :
                runs[r].script = i /\ runs[r].done # None
                /\ (\A q \in DOMAIN runs : runs[q].script = i => q <= r)
                => scripts[i].last = runs[r].done
=============================================================================
