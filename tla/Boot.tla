-------------------------------- MODULE Boot --------------------------------
(***************************************************************************)
(* What happens to the database before and beside the server's work: the   *)
(* schema migrations that the server and the import tool (cmd/migrate) run *)
(* in one transaction, the projects that the first start seeds from the    *)
(* configuration, and the import of files that lie below the data          *)
(* directory.  Either process may end anywhere.                            *)
(***************************************************************************)
EXTENDS Naturals, Sequences, FiniteSets

CONSTANTS
    Migrations,     \* number of migrations; the first one creates the tables
    Config,         \* names of the projects in the configuration
    Dirs,           \* directories below the data directory
    Match,          \* matchProject: the project of the configuration that a directory stands for, or None
    Files,          \* file names
    MaxStart,       \* bound: starts of either process
    None

\* what the constants are
\* (matchProject looks for the directory's own name first)
Constants ==
    /\ {Migrations, MaxStart} \subseteq Nat
    /\ Match \in [Dirs -> Config \cup {None}] /\ \A d \in Dirs \cap Config : Match[d] = d
    /\ None \notin Dirs \cup Files \cup {"server", "tool"}

Procs    == {"server", "tool"}
Projects == Config \cup Dirs

VARIABLES
    effects,    \* how often each migration has changed the schema
    recorded,   \* schema_migrations
    tx,         \* the migration transaction: its owner, the next migration, its effects and records
    pc,         \* where each process is
    starts,     \* starts so far
    fk,         \* whether the server's connection enforces foreign keys
    todo,       \* what SeedProjectsFromConfig or the import has still to do
    projects,   \* rows of projects, by name
    files,      \* rows of files: how many for a project and file name
    disk,       \* files below the data directory
    cur,        \* the import: its directory and project
    gone,       \* history: projects deleted since the seeding
    partial,    \* history: something else than a whole seeding has filled projects
    crossed     \* history: the server has changed rows during an import

vars == <<effects, recorded, tx, pc, starts, fk, todo, projects, files, disk, cur, gone, partial, crossed>>

All   == 1..Migrations
NoTx  == [owner |-> None, next |-> 1, effects |-> [m \in All |-> 0], recorded |-> {}]
NoDir == [dir |-> None, project |-> None, left |-> {}, file |-> None]

\* a database that an earlier version of the program may have left
Init ==
    /\ \E k \in 0..Migrations :
          recorded = 1..k /\ effects = [m \in All |-> IF m <= k THEN 1 ELSE 0]
    /\ tx = NoTx
    /\ pc = [p \in Procs |-> "down"] /\ starts = 0
    /\ fk = TRUE
    /\ todo = [p \in Procs |-> {}]
    /\ projects = {} /\ files = [q \in Projects \X Files |-> 0]
    /\ disk = {}
    /\ cur = NoDir
    /\ gone = {} /\ partial = FALSE /\ crossed = FALSE

Crossed == crossed \/ pc["tool"] # "down"

Goto(p, where) == pc' = [pc EXCEPT ![p] = where]

-----------------------------------------------------------------------------
(* Migrate. *)

\* a process starts; the tool migrates only a database without tables
Start(p) ==
    /\ pc[p] = "down" /\ starts < MaxStart
    /\ starts' = starts + 1
    /\ Goto(p, IF p = "server" \/ 1 \notin recorded THEN "migrate" ELSE "scan")
    /\ fk' = IF p = "server" THEN FALSE ELSE fk
    /\ UNCHANGED <<effects, recorded, tx, todo, projects, files, disk, cur, gone, partial, crossed>>

\* BEGIN IMMEDIATE, which waits for another transaction
Begin(p) ==
    /\ pc[p] = "migrate" /\ tx.owner = None
    /\ tx' = [owner |-> p, next |-> 1, effects |-> effects, recorded |-> recorded]
    /\ Goto(p, "apply")
    /\ UNCHANGED <<effects, recorded, starts, fk, todo, projects, files, disk, cur, gone, partial, crossed>>

\* Faulty variant: the schema_migrations table is not consulted.
Migrated_Again(m) ==
    [tx EXCEPT !.next = m + 1, !.effects = [tx.effects EXCEPT ![m] = @ + 1], !.recorded = @ \cup {m}]

\* execMigration and the record, unless there is one
Migrated(m) ==
    IF m \in tx.recorded THEN [tx EXCEPT !.next = m + 1]
    ELSE [tx EXCEPT !.next = m + 1, !.effects = [tx.effects EXCEPT ![m] = @ + 1], !.recorded = @ \cup {m}]

Apply(p) ==
    /\ pc[p] = "apply" /\ tx.next <= Migrations
    /\ tx' = Migrated(tx.next)
    /\ UNCHANGED <<effects, recorded, pc, starts, fk, todo, projects, files, disk, cur, gone, partial, crossed>>

\* PRAGMA foreign_keys = ON, on the one connection of the pool
ForeignKeys(p) == IF p = "server" THEN TRUE ELSE fk

Commit(p) ==
    /\ pc[p] = "apply" /\ tx.next > Migrations
    /\ effects' = tx.effects /\ recorded' = tx.recorded
    /\ tx' = NoTx
    /\ fk' = ForeignKeys(p)
    /\ Goto(p, IF p = "server" THEN "seed" ELSE "scan")
    /\ UNCHANGED <<starts, todo, projects, files, disk, cur, gone, partial, crossed>>

-----------------------------------------------------------------------------
(* SeedProjectsFromConfig. *)

\* only when there is no project at all
ToSeed == IF projects = {} THEN Config ELSE {}

\* ListAll
Seed ==
    /\ pc["server"] = "seed"
    /\ todo' = [todo EXCEPT !["server"] = ToSeed]
    /\ Goto("server", "seeding")
    /\ gone' = IF projects = {} THEN {} ELSE gone
    /\ partial' = (projects # {} /\ (partial \/ projects \cap Config # Config \ gone))
    /\ UNCHANGED <<effects, recorded, tx, starts, fk, projects, files, disk, cur, crossed>>

\* CreateWithSettings; a name that the import has taken meanwhile is skipped
SeedOne(n) ==
    /\ pc["server"] = "seeding" /\ n \in todo["server"]
    /\ todo' = [todo EXCEPT !["server"] = @ \ {n}]
    /\ projects' = projects \cup {n}
    /\ crossed' = Crossed
    /\ UNCHANGED <<effects, recorded, tx, pc, starts, fk, files, disk, cur, gone, partial>>

\* BackfillEmptyVersions and the rest of the start change no row that is counted here
Serve ==
    /\ pc["server"] = "seeding" /\ todo["server"] = {}
    /\ Goto("server", "on")
    /\ UNCHANGED <<effects, recorded, tx, starts, fk, todo, projects, files, disk, cur, gone, partial, crossed>>

\* DeleteProject, with its files
DeleteProject(n) ==
    /\ pc["server"] = "on" /\ n \in projects
    /\ projects' = projects \ {n}
    /\ files' = [q \in Projects \X Files |-> IF q[1] = n THEN 0 ELSE files[q]]
    /\ gone' = gone \cup {n}
    /\ crossed' = Crossed
    /\ UNCHANGED <<effects, recorded, tx, pc, starts, fk, todo, disk, cur, partial>>

\* a crawl registers a file that has no row
Crawl(n, f) ==
    /\ pc["server"] = "on" /\ n \in projects /\ files[<<n, f>>] = 0
    /\ files' = [files EXCEPT ![<<n, f>>] = 1]
    /\ crossed' = Crossed
    /\ UNCHANGED <<effects, recorded, tx, pc, starts, fk, todo, projects, disk, cur, gone, partial>>

-----------------------------------------------------------------------------
(* The import tool. *)

\* os.ReadDir of the data directory
Scan ==
    /\ pc["tool"] = "scan"
    /\ todo' = [todo EXCEPT !["tool"] = Dirs]
    /\ Goto("tool", "dirs")
    /\ UNCHANGED <<effects, recorded, tx, starts, fk, projects, files, disk, cur, gone, partial, crossed>>

\* the name for a directory that has no project
NameFor(d) == IF Match[d] = None THEN d ELSE Match[d]

\* GetByName of the directory's name, or Create under the configuration's, which fails
\* if it is taken and leaves the directory out
OpenDir(d) ==
    /\ pc["tool"] = "dirs" /\ cur = NoDir /\ d \in todo["tool"]
    /\ LET found == d \in projects
           name  == IF found THEN d ELSE NameFor(d)
       IN  IF ~found /\ name \in projects
           THEN /\ todo' = [todo EXCEPT !["tool"] = @ \ {d}]
                /\ UNCHANGED <<projects, cur, partial>>
           ELSE /\ projects' = projects \cup {name}
                /\ cur' = [dir |-> d, project |-> name, left |-> {f \in Files : <<d, f>> \in disk}, file |-> None]
                /\ partial' = (partial \/ (~found /\ (name \in Config \/ projects = {})))
                /\ UNCHANGED todo
    /\ UNCHANGED <<effects, recorded, tx, pc, starts, fk, files, disk, gone, crossed>>

\* FindExisting
Known(f) == files[<<cur.project, f>>] > 0

\* scanProjectFiles looks for the file's row
FindExisting(f) ==
    /\ pc["tool"] = "dirs" /\ cur # NoDir /\ cur.file = None /\ f \in cur.left
    /\ cur' = IF Known(f) THEN [cur EXCEPT !.left = @ \ {f}] ELSE [cur EXCEPT !.file = f]
    /\ UNCHANGED <<effects, recorded, tx, pc, starts, fk, todo, projects, files, disk, gone, partial, crossed>>

\* and inserts one, if the project is still there
ImportFile ==
    /\ pc["tool"] = "dirs" /\ cur.file # None
    /\ files' = IF cur.project \in projects THEN [files EXCEPT ![<<cur.project, cur.file>>] = @ + 1] ELSE files
    /\ cur' = [cur EXCEPT !.left = @ \ {cur.file}, !.file = None]
    /\ UNCHANGED <<effects, recorded, tx, pc, starts, fk, todo, projects, disk, gone, partial, crossed>>

\* the directory is done
CloseDir ==
    /\ pc["tool"] = "dirs" /\ cur # NoDir /\ cur.left = {}
    /\ todo' = [todo EXCEPT !["tool"] = @ \ {cur.dir}]
    /\ cur' = NoDir
    /\ UNCHANGED <<effects, recorded, tx, pc, starts, fk, projects, files, disk, gone, partial, crossed>>

\* the tool is done; its summary is printed
Finish ==
    /\ pc["tool"] = "dirs" /\ cur = NoDir /\ todo["tool"] = {}
    /\ Goto("tool", "done")
    /\ UNCHANGED <<effects, recorded, tx, starts, fk, todo, projects, files, disk, cur, gone, partial, crossed>>

\* a file is put into a directory, while the tool is away
Drop(d, f) ==
    /\ pc["tool"] = "down"
    /\ disk' = disk \cup {<<d, f>>}
    /\ UNCHANGED <<effects, recorded, tx, pc, starts, fk, todo, projects, files, cur, gone, partial, crossed>>

\* a process ends; its transaction is rolled back
Exit(p) ==
    /\ pc[p] # "down"
    /\ Goto(p, "down")
    /\ tx' = IF tx.owner = p THEN NoTx ELSE tx
    /\ fk' = IF p = "server" THEN TRUE ELSE fk
    /\ cur' = IF p = "tool" THEN NoDir ELSE cur
    /\ partial' = (partial \/ (todo["server"] # {} /\ p = "server"))
    /\ todo' = [todo EXCEPT ![p] = {}]
    /\ UNCHANGED <<effects, recorded, starts, projects, files, disk, gone, crossed>>

Next ==
    \/ \E p \in Procs : Start(p) \/ Begin(p) \/ Apply(p) \/ Commit(p) \/ Exit(p)
    \/ Seed \/ Serve \/ \E n \in Projects : SeedOne(n) \/ DeleteProject(n) \/ \E f \in Files : Crawl(n, f)
    \/ Scan \/ ImportFile \/ CloseDir \/ Finish
    \/ \E d \in Dirs : OpenDir(d) \/ \E f \in Files : Drop(d, f)
    \/ \E f \in Files : FindExisting(f)

Spec == Init /\ [][Next]_vars

-----------------------------------------------------------------------------
(* Properties. *)

\* Every variable has its type; a file's rows belong to a project.
TypeOK ==
    /\ effects \in [All -> Nat] /\ recorded \subseteq All
    /\ tx.owner \in Procs \cup {None}
    /\ pc["server"] \in {"down", "migrate", "apply", "seed", "seeding", "on"}
    /\ pc["tool"] \in {"down", "migrate", "apply", "scan", "dirs", "done"}
    /\ projects \subseteq Projects
    /\ \A q \in Projects \X Files : files[q] \in Nat /\ (files[q] > 0 => q[1] \in projects)

\* "skipping any that have already been applied": whoever migrates and wherever it
\* stops, a migration takes effect once and is recorded with its effect.
MigratedOnce == \A m \in All : effects[m] = IF m \in recorded THEN 1 ELSE 0

\* "Re-enable foreign keys after transaction": the server works on a complete
\* schema with foreign keys enforced.
ReadySchema == pc["server"] \in {"seed", "seeding", "on"} => recorded = All /\ fk

\* "It only seeds when the DB has no existing projects": the projects of the
\* configuration are all there but for the deleted ones, and no start brings those back,
\* unless a crash cut the seeding short or the import came first.
SeedKept == pc["server"] = "on" /\ ~partial => projects \cap Config = Config \ gone

\* "Check if file already exists (idempotent)": no import makes a second row of a file
\* unless the server worked beside it.
ImportedOnce == ~crossed => \A q \in Projects \X Files : files[q] <= 1

\* When the import is done every file of a directory that has the name of its project
\* has a row, unless the server worked beside it.
ImportedAll ==
    pc["tool"] = "done" /\ ~crossed => \A d \in Dirs, f \in Files :
        <<d, f>> \in disk /\ d \in projects => files[<<d, f>>] > 0
=============================================================================
