-------------------------- MODULE StorageMigration --------------------------
(***************************************************************************)
(* Moving a storage module's files to another directory: the PUT that      *)
(* changes the path (UpdateStorageConfig, under StorageConfigHandler.mu),  *)
(* MigrationService's background goroutine, the cancel request, and the    *)
(* restart.  The goroutine copies a file, updates its row, and removes the *)
(* source; nothing keeps the goroutines of two tasks apart.                *)
(*                                                                         *)
(* Files are inodes as in module FileDownload; a body is a set of chunks   *)
(* and a file's size is its last chunk.                                    *)
(***************************************************************************)
EXTENDS Naturals, FiniteSets, FiniteSetsExt, Functions

CONSTANTS
    Dirs,       \* storage directories
    Home,       \* the one the configuration names at first
    Files,      \* names below the directory
    Tracked,    \* those with a row in the files table
    EmptyTargets, \* whether operators only ask for directories that are empty
    Tasks,      \* bound: migration goroutines at a time
    NChunks,    \* bound: a file is copied in this many writes
    Inodes,     \* bound: file-system objects
    Place,      \* the inode each file has at first
    DbFails,    \* whether a write to the database may fail
    LookupFails, \* whether FindByLocalPath may fail
    NoInode, NoFile

ASSUME FilesAssumption ==
    /\ Home \in Dirs
    /\ Tracked \subseteq Files
    /\ EmptyTargets \in BOOLEAN
    /\ NoFile \notin Files
    /\ NoInode \notin Inodes
    /\ Place \in [Files -> Inodes]
    /\ IsInjective(Place)
    /\ NChunks \in Nat \ {0}
    /\ DbFails \in BOOLEAN
    /\ LookupFails \in BOOLEAN

VARIABLES
    dir,        \* the configured directory
    handler,    \* "idle", or "save": a PUT has started a task and not yet saved
    wanted,     \* the directory that PUT asks for
    row,        \* the directory in files.local_path
    at,         \* the inode at a path
    content,    \* chunks of an inode
    status,     \* storage_migrations.status of a task
    active,     \* the tasks in the active map
    cancelled,  \* the task's context is done
    cancelling, \* tasks whose 'cancelled' is not written yet
    pc,         \* where its goroutine is
    from, to,   \* OldPath, NewPath
    todo,       \* files of its walk it has not reached
    cur,        \* the file it moves
    in, out,    \* its descriptors
    pos         \* chunks it has copied

config  == <<dir, handler, wanted>>
disk    == <<at, content>>
task    == <<status, active, cancelled, cancelling>>
run     == <<pc, from, to, todo, cur, in, out, pos>>
vars    == <<config, row, disk, task, run>>

-----------------------------------------------------------------------------
Whole == 1 .. NChunks
TaskStatuses == {"none", "pending", "running", "completed", "failed", "cancelled"}
Pcs == {"idle", "walk", "next", "copy", "check", "find", "update", "remove"}

Size(i) == IF content[i] = {} THEN 0 ELSE Max(content[i])

Linked(i) == \E d \in Dirs, f \in Files : at[d][f] = i

FreeInodes ==
    {i \in Inodes : ~Linked(i) /\ \A t \in Tasks : in[t] # i /\ out[t] # i}

\* Inodes are alike: any free one will do.
NextInode == IF FreeInodes = {} THEN {} ELSE {CHOOSE i \in FreeInodes : TRUE}

AtPath(d, f, i) == [at EXCEPT ![d][f] = i]

Goto(t, where) == pc' = [pc EXCEPT ![t] = where]

\* The files are in the configured directory, whole, and their rows say so.
Init ==
    /\ dir = Home
    /\ handler = "idle"
    /\ wanted = Home
    /\ row = [f \in Tracked |-> Home]
    /\ at = [d \in Dirs |-> [f \in Files |->
                IF d = Home THEN Place[f] ELSE NoInode]]
    /\ content = [i \in Inodes |-> IF i \in Range(Place) THEN Whole ELSE {}]
    /\ status = [t \in Tasks |-> "none"]
    /\ active = {}
    /\ cancelled = [t \in Tasks |-> FALSE]
    /\ cancelling = {}
    /\ pc = [t \in Tasks |-> "idle"]
    /\ from = [t \in Tasks |-> Home]
    /\ to = [t \in Tasks |-> Home]
    /\ todo = [t \in Tasks |-> {}]
    /\ cur = [t \in Tasks |-> NoFile]
    /\ in = [t \in Tasks |-> NoInode]
    /\ out = [t \in Tasks |-> NoInode]
    /\ pos = [t \in Tasks |-> 0]

-----------------------------------------------------------------------------
(* Requests. *)

\* UpdateStorageConfig up to the start of the goroutine: EnqueueMigration
\* creates the task, StartMigration starts it or fails, which is only logged.
\* A task record is used again once its goroutine is gone.
Enqueue(t, d) ==
    /\ handler = "idle"
    /\ d # dir
    /\ EmptyTargets => \A f \in Files : at[d][f] = NoInode
    /\ pc[t] = "idle"
    /\ t \notin cancelling
    /\ handler' = "save"
    /\ wanted' = d
    /\ from' = [from EXCEPT ![t] = dir]
    /\ to' = [to EXCEPT ![t] = d]
    /\ cancelled' = [cancelled EXCEPT ![t] = FALSE]
    /\ \/ /\ status' = [status EXCEPT ![t] = "running"]
          /\ active' = active \cup {t}
          /\ Goto(t, "walk")
       \/ /\ DbFails
          /\ status' = [status EXCEPT ![t] = "pending"]
          /\ UNCHANGED <<active, pc>>
    /\ UNCHANGED <<dir, row, disk, cancelling, todo, cur, in, out, pos>>

\* The rest of it: the configuration is saved, or rolled back when that fails.
SaveConfig ==
    /\ handler = "save"
    /\ handler' = "idle"
    /\ dir' \in {dir, wanted}
    /\ UNCHANGED <<wanted, row, disk, task, run>>

\* CancelMigration: cancel(), Delete, then the status, whatever it is by then.
CancelMigration(t) ==
    /\ t \in active
    /\ active' = active \ {t}
    /\ cancelled' = [cancelled EXCEPT ![t] = TRUE]
    /\ cancelling' = cancelling \cup {t}
    /\ UNCHANGED <<config, row, disk, status, run>>

WriteCancelled(t) ==
    /\ t \in cancelling
    /\ cancelling' = cancelling \ {t}
    /\ status' = [status EXCEPT ![t] = "cancelled"]
    /\ UNCHANGED <<config, row, disk, active, cancelled, run>>

-----------------------------------------------------------------------------
(* runMigration. *)

\* The goroutine returns; its descriptors are closed, its map entry deleted.
Ends(t, outcome) ==
    /\ status' = [status EXCEPT ![t] = outcome]
    /\ active' = active \ {t}
    /\ todo' = [todo EXCEPT ![t] = {}]
    /\ cur' = [cur EXCEPT ![t] = NoFile]
    /\ in' = [in EXCEPT ![t] = NoInode]
    /\ out' = [out EXCEPT ![t] = NoInode]
    /\ pos' = [pos EXCEPT ![t] = 0]
    /\ Goto(t, "idle")
    /\ UNCHANGED <<config, row, content, cancelled, cancelling, from, to>>

Walk(t) ==
    /\ pc[t] = "walk"
    /\ todo' = [todo EXCEPT ![t] = {f \in Files : at[from[t]][f] # NoInode}]
    /\ Goto(t, "next")
    /\ UNCHANGED <<config, row, disk, task, from, to, cur, in, out, pos>>

\* Faulty variant: break instead of return, so that the loop's exit is a success.
Stops_Breaks(t) ==
    /\ pc[t] = "next"
    /\ todo[t] # {}
    /\ cancelled[t]
    /\ Ends(t, "completed")
    /\ UNCHANGED at

\* The context is looked at between files only.
Stops(t) ==
    /\ pc[t] = "next"
    /\ todo[t] # {}
    /\ cancelled[t]
    /\ Ends(t, status[t])
    /\ UNCHANGED at

\* copyFile: os.Open(src), os.Create(dst).
OpenFiles(t, f) ==
    /\ pc[t] = "next"
    /\ f \in todo[t]
    /\ ~cancelled[t]
    /\ at[from[t]][f] # NoInode
    /\ todo' = [todo EXCEPT ![t] = @ \ {f}]
    /\ cur' = [cur EXCEPT ![t] = f]
    /\ in' = [in EXCEPT ![t] = at[from[t]][f]]
    /\ \E i \in IF at[to[t]][f] = NoInode THEN NextInode ELSE {at[to[t]][f]} :
          /\ out' = [out EXCEPT ![t] = i]
          /\ at' = AtPath(to[t], f, i)
          /\ content' = [content EXCEPT ![i] = {}]
    /\ pos' = [pos EXCEPT ![t] = 0]
    /\ Goto(t, "copy")
    /\ UNCHANGED <<config, row, task, from, to>>

\* Faulty variant: return without failTask.
CopyFails_Silent(t) ==
    /\ \/ pc[t] \in {"walk", "copy"}
       \/ pc[t] = "next" /\ todo[t] # {} /\ ~cancelled[t]
    /\ Ends(t, status[t])
    /\ UNCHANGED at

\* The walk, os.Open, os.Create, io.Copy or Sync fails; a partial copy stays
\* where it is.
CopyFails(t) ==
    /\ \/ pc[t] \in {"walk", "copy"}
       \/ pc[t] = "next" /\ todo[t] # {} /\ ~cancelled[t]
    /\ Ends(t, "failed")
    /\ UNCHANGED at

CopyChunk(t) ==
    /\ pc[t] = "copy"
    /\ pos[t] < Size(in[t])
    /\ content' = [content EXCEPT ![out[t]] =
                     @ \cup ({pos[t] + 1} \cap content[in[t]])]
    /\ pos' = [pos EXCEPT ![t] = @ + 1]
    /\ UNCHANGED <<config, row, at, task, pc, from, to, todo, cur, in, out>>

CopyEnds(t) ==
    /\ pc[t] = "copy"
    /\ pos[t] >= Size(in[t])
    /\ in' = [in EXCEPT ![t] = NoInode]
    /\ out' = [out EXCEPT ![t] = NoInode]
    /\ pos' = [pos EXCEPT ![t] = 0]
    /\ Goto(t, "check")
    /\ UNCHANGED <<config, row, disk, task, from, to, todo, cur>>

\* os.Stat of both paths; a copy of another size is removed again.
CompareSizes(t) ==
    LET src == at[from[t]][cur[t]]
        dst == at[to[t]][cur[t]]
    IN
    /\ pc[t] = "check"
    /\ IF src = NoInode \/ dst = NoInode
         THEN Ends(t, "failed") /\ UNCHANGED at
       ELSE IF Size(src) # Size(dst)
         THEN Ends(t, "failed") /\ at' = AtPath(to[t], cur[t], NoInode)
       ELSE Goto(t, "find")
            /\ UNCHANGED <<config, row, disk, task, from, to, todo, cur, in, out, pos>>

\* Faulty variant: the source is removed before its row is looked up.
FindByLocalPath_TooLate(t) ==
    /\ pc[t] = "find"
    /\ Goto(t, "remove")
    /\ UNCHANGED <<config, row, disk, task, from, to, todo, cur, in, out, pos>>

\* FindByLocalPath(src): a row that points there is updated, a file without
\* one is moved all the same; so is one whose lookup fails.
FindByLocalPath(t) ==
    /\ pc[t] = "find"
    /\ LET found == cur[t] \in Tracked /\ row[cur[t]] = from[t] IN
         \E where \in {IF found THEN "update" ELSE "remove"}
                     \cup (IF LookupFails THEN {"remove"} ELSE {}) : Goto(t, where)
    /\ UNCHANGED <<config, row, disk, task, from, to, todo, cur, in, out, pos>>

UpdateLocalPath(t) ==
    /\ pc[t] = "update"
    /\ \/ /\ row' = [row EXCEPT ![cur[t]] = to[t]]
          /\ Goto(t, "remove")
          /\ UNCHANGED <<config, disk, task, from, to, todo, cur, in, out, pos>>
       \/ DbFails /\ Ends(t, "failed") /\ UNCHANGED at

\* os.Remove(src), whose failure is only logged, and the progress counters.
RemoveSource(t) ==
    /\ pc[t] = "remove"
    /\ at' \in {at, AtPath(from[t], cur[t], NoInode)}
    /\ cur' = [cur EXCEPT ![t] = NoFile]
    /\ Goto(t, "next")
    /\ UNCHANGED <<config, row, content, task, from, to, todo, in, out, pos>>

SetCompleted(t) ==
    /\ pc[t] = "next"
    /\ todo[t] = {}
    /\ Ends(t, "completed")
    /\ UNCHANGED at

-----------------------------------------------------------------------------
\* The process dies.  The next one runs ResetStaleMigrations.
CrashRestart ==
    /\ handler # "idle" \/ cancelling # {} \/ \E t \in Tasks : pc[t] # "idle"
    /\ handler' = "idle"
    /\ status' = [t \in Tasks |->
                    IF status[t] = "running" THEN "pending" ELSE status[t]]
    /\ active' = {}
    /\ cancelled' = [t \in Tasks |-> FALSE]
    /\ cancelling' = {}
    /\ pc' = [t \in Tasks |-> "idle"]
    /\ todo' = [t \in Tasks |-> {}]
    /\ cur' = [t \in Tasks |-> NoFile]
    /\ in' = [t \in Tasks |-> NoInode]
    /\ out' = [t \in Tasks |-> NoInode]
    /\ pos' = [t \in Tasks |-> 0]
    /\ UNCHANGED <<dir, wanted, row, disk, from, to>>

Step(t) ==
    \/ Walk(t) \/ Stops(t) \/ CopyFails(t) \/ CopyChunk(t) \/ CopyEnds(t)
    \/ CompareSizes(t) \/ FindByLocalPath(t) \/ UpdateLocalPath(t)
    \/ RemoveSource(t) \/ SetCompleted(t)
    \/ \E f \in Files : OpenFiles(t, f)

Next ==
    \/ \E t \in Tasks : \E d \in Dirs : Enqueue(t, d)
    \/ SaveConfig
    \/ \E t \in Tasks : CancelMigration(t) \/ WriteCancelled(t)
    \/ \E t \in Tasks : Step(t)
    \/ CrashRestart

Spec == Init /\ [][Next]_vars

\* The goroutine runs on, the handler finishes.
FairSpec ==
    /\ Spec
    /\ WF_vars(SaveConfig)
    /\ \A t \in Tasks : WF_vars(Step(t)) /\ WF_vars(WriteCancelled(t))

-----------------------------------------------------------------------------
(* Properties. *)

\* Every variable has its type.
TypeOK ==
    /\ dir \in Dirs
    /\ handler \in {"idle", "save"}
    /\ wanted \in Dirs
    /\ row \in [Tracked -> Dirs]
    /\ at \in [Dirs -> [Files -> Inodes \cup {NoInode}]]
    /\ content \in [Inodes -> SUBSET Whole]
    /\ status \in [Tasks -> TaskStatuses]
    /\ active \subseteq Tasks
    /\ cancelled \in [Tasks -> BOOLEAN]
    /\ cancelling \subseteq Tasks
    /\ pc \in [Tasks -> Pcs]
    /\ from \in [Tasks -> Dirs]
    /\ to \in [Tasks -> Dirs]
    /\ todo \in [Tasks -> SUBSET Files]
    /\ cur \in [Tasks -> Files \cup {NoFile}]
    /\ in \in [Tasks -> Inodes \cup {NoInode}]
    /\ out \in [Tasks -> Inodes \cup {NoInode}]
    /\ pos \in [Tasks -> 0 .. NChunks]

HasWhole(d, f) == at[d][f] # NoInode /\ content[at[d][f]] = Whole

\* "Delete source file (only after successful copy + DB update)"
\* (migration_service.go:270): at every moment, so also after a crash, the
\* path in a file's row is a whole file (if targets are empty, tasks do not
\* overlap and lookups work).
RowHasFile == \A f \in Tracked : HasWhole(row[f], f)

\* "Copy each file atomically" (migration_service.go:218): whatever a file's
\* row says, and for files without one, a whole copy is in some directory.
NothingLost == \A f \in Files : \E d \in Dirs : HasWhole(d, f)

\* Moving files loses none: at every moment the path in a row is a whole file,
\* and every file, with a row or without, is whole in some directory.
FilesKept == TypeOK /\ RowHasFile /\ NothingLost

\* A task that completes has moved every file it should have: no row points
\* into the directory it has emptied.
CompletedMoved ==
    [][\A t \in Tasks :
          (pc[t] = "next" /\ status[t] = "running" /\ status'[t] = "completed")
              => \A f \in Tracked : row[f] # from[t]]_vars

\* A migration ends, in whatever way.
MigrationEnds == \A t \in Tasks : status[t] = "running" ~> status[t] # "running"
=============================================================================
