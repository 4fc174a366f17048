--------------------------- MODULE BackupRestore ---------------------------
(***************************************************************************)
(* The backup service and the restore handler around the live database.    *)
(*                                                                         *)
(* SQLite is external and modelled by what the code meets of it: a commit  *)
(* goes to the write-ahead log, a checkpoint copies the log into the       *)
(* database file and leaves the log's frames, the next commit may reuse    *)
(* the log, and whoever opens the file replays the log that lies beside    *)
(* it.  The process keeps the file it has opened when another one is       *)
(* renamed over the path.  A database is the set of its transactions.      *)
(***************************************************************************)
EXTENDS Naturals, Sequences, FiniteSets

CONSTANTS
    Retention,      \* backups that rotate keeps; 0 keeps all
    MaxTxn,         \* bound: transactions
    MaxBackup,      \* bound: backups begun
    MaxFile,        \* bound: database files, the first one included
    MaxExit,        \* bound: ends of the process
    Corrupt

\* what the constants are
Constants ==
    /\ {Retention, MaxTxn, MaxBackup, MaxExit} \subseteq Nat /\ MaxFile \in Nat \ {0}
    /\ \A s \in SUBSET (1..MaxTxn) : s # Corrupt

VARIABLES
    files,      \* database files by inode: data, line (files of one line share page numbers), part
    path,       \* the inode at the database's path
    held,       \* the inode that the process has open, 0 while it is down
    wal,        \* the log beside the path: line and txns
    lastTxn,    \* transactions so far
    exits,      \* ends of the process so far
    backups,    \* the backup directory, oldest first: data, part, remote
    begun,      \* backups begun so far
    bk,         \* CreateBackup: pc, and the snapshot that VACUUM INTO reads
    rs,         \* RestoreBackup: pc, and what it installs
    safety,     \* the .pre-restore.bak file: data and line, or none
    good,       \* history: the newest backup that was reported complete
    expected,   \* history: what the database should hold
    touched     \* history: a restore has replaced the file at the path

vars == <<files, path, held, wal, lastTxn, exits, backups, begun, bk, rs, safety, good, expected, touched>>

NoBackup  == [pc |-> "idle", data |-> {}]
NoRestore == [pc |-> "idle", data |-> {}, line |-> 0, from |-> {}]

Init ==
    /\ files = <<[data |-> {}, line |-> 1, part |-> FALSE]>>
    /\ path = 1 /\ held = 1
    /\ wal = [line |-> 1, txns |-> {}]
    /\ lastTxn = 0 /\ exits = 0
    /\ backups = <<>> /\ begun = 0 /\ bk = NoBackup
    /\ rs = NoRestore
    /\ safety = [data |-> {}, line |-> 0]
    /\ good = 0
    /\ expected = {} /\ touched = FALSE

Up == held # 0

\* a database file with the log beside it
Replayed(f) ==
    IF wal.txns = {} THEN f.data
    ELSE IF wal.line = f.line /\ f.data # Corrupt THEN f.data \cup wal.txns
    ELSE Corrupt

\* what the process sees
Content == IF files[held].data = Corrupt THEN Corrupt ELSE files[held].data \cup wal.txns

-----------------------------------------------------------------------------
(* The database in use. *)

\* a request commits, after a restore to the file that is no longer at the path; a log
\* that is wholly in the file may be begun anew
Commit(fresh) ==
    /\ Up /\ Content # Corrupt
    /\ lastTxn < MaxTxn /\ lastTxn' = lastTxn + 1
    /\ fresh => wal.txns \subseteq files[held].data
    /\ wal' = [line |-> files[held].line, txns |-> (IF fresh THEN {} ELSE wal.txns) \cup {lastTxn'}]
    /\ expected' = IF rs.pc = "shutdown" THEN expected ELSE expected \cup {lastTxn'}
    /\ UNCHANGED <<files, path, held, exits, backups, begun, bk, rs, safety, good, touched>>

\* wal_autocheckpoint
Checkpoint ==
    /\ Up /\ Content # Corrupt /\ ~(wal.txns \subseteq files[held].data)
    /\ files' = [files EXCEPT ![held].data = @ \cup wal.txns]
    /\ UNCHANGED <<path, held, wal, lastTxn, exits, backups, begun, bk, rs, safety, good, expected, touched>>

\* the process ends.  Only the write pool is closed: the log goes with it, after a
\* checkpoint, if no connection of the read pool is open; a crash leaves it
Exit(last) ==
    /\ Up /\ exits < MaxExit
    /\ exits' = exits + 1
    /\ held' = 0
    /\ IF last
       THEN /\ Content # Corrupt
            /\ files' = [files EXCEPT ![held].data = Content]
            /\ wal' = [wal EXCEPT !.txns = {}]
       ELSE UNCHANGED <<files, wal>>
    /\ bk' = NoBackup /\ rs' = NoRestore
    /\ UNCHANGED <<path, lastTxn, backups, begun, safety, good, expected, touched>>

\* initDatabase opens the path
Start ==
    /\ ~Up
    /\ held' = path
    /\ files' = [files EXCEPT ![path].data = Replayed(files[path])]
    /\ wal' = [line |-> files[path].line, txns |-> {}]
    /\ UNCHANGED <<path, lastTxn, exits, backups, begun, bk, rs, safety, good, expected, touched>>

-----------------------------------------------------------------------------
(* CreateBackup, under the service's mutex. *)

\* VACUUM INTO begins: the new file is there
Vacuum ==
    /\ Up /\ bk.pc = "idle" /\ begun < MaxBackup /\ Content # Corrupt
    /\ begun' = begun + 1
    /\ backups' = Append(backups, [id |-> begun + 1, data |-> Content, part |-> TRUE, remote |-> "none"])
    /\ bk' = [pc |-> "vacuum", data |-> Content]
    /\ UNCHANGED <<files, path, held, wal, lastTxn, exits, rs, safety, good, expected, touched>>

Newest == Len(backups)

\* VACUUM INTO ends, the configuration is copied and the file verified; or one fails,
\* and what is there stays
Verify(ok) ==
    /\ Up /\ bk.pc = "vacuum"
    /\ backups' = IF ok THEN [backups EXCEPT ![Newest].part = FALSE] ELSE backups
    /\ bk' = IF ok THEN [bk EXCEPT !.pc = "rotate"] ELSE NoBackup
    /\ good' = IF ok THEN begun ELSE good
    /\ UNCHANGED <<files, path, held, wal, lastTxn, exits, begun, rs, safety, expected, touched>>

\* rotate: the oldest go, whole or not
Rotated(all) ==
    IF Retention = 0 \/ Len(all) <= Retention THEN all
    ELSE SubSeq(all, Len(all) - Retention + 1, Len(all))

Rotate ==
    /\ Up /\ bk.pc = "rotate"
    /\ backups' = Rotated(backups)
    /\ bk' = [bk EXCEPT !.pc = "upload"]
    /\ UNCHANGED <<files, path, held, wal, lastTxn, exits, begun, rs, safety, good, expected, touched>>

\* UploadBackup: MKCOL, PUT and a HEAD that compares sizes; a failure is logged
Upload(out) ==
    /\ Up /\ bk.pc = "upload"
    /\ backups' = [i \in DOMAIN backups |-> IF i = Newest THEN [backups[i] EXCEPT !.remote = out] ELSE backups[i]]
    /\ bk' = NoBackup
    /\ UNCHANGED <<files, path, held, wal, lastTxn, exits, begun, rs, safety, good, expected, touched>>

-----------------------------------------------------------------------------
(* RestoreBackup. *)

\* the file exists
RestoreBackup(i) ==
    /\ Up /\ rs.pc = "idle" /\ Content # Corrupt
    /\ rs' = [pc |-> "safety", data |-> IF backups[i].part THEN Corrupt ELSE backups[i].data, line |-> begun + 1 + i,
              from |-> files[path].data]
    /\ UNCHANGED <<files, path, held, wal, lastTxn, exits, backups, begun, bk, safety, good, expected, touched>>

\* copyFileAtomic of the file at the path, without its log
SafetyCopy == rs.pc = "safety" /\ safety' = [data |-> files[path].data, line |-> files[path].line]

Safety ==
    /\ Up /\ SafetyCopy
    /\ rs' = [rs EXCEPT !.pc = "install"]
    /\ UNCHANGED <<files, path, held, wal, lastTxn, exits, backups, begun, bk, good, expected, touched>>

\* Faulty variant: the copy is written to the path itself.
CopyFileAtomic_InPlace(f, done) ==
    /\ files' = [files EXCEPT ![path] = [f EXCEPT !.part = ~done]]
    /\ UNCHANGED path

\* copyFileAtomic, and the temporary file of restoreFromTarGz: a new file, renamed once it is whole
CopyFileAtomic(f, done) ==
    IF done THEN Len(files) < MaxFile /\ files' = Append(files, f) /\ path' = Len(files) + 1
    ELSE UNCHANGED <<files, path>>

\* restoreFromDB or restoreFromTarGz ends, or fails on the way
Install(done) ==
    /\ Up /\ rs.pc = "install"
    /\ CopyFileAtomic([data |-> rs.data, line |-> rs.line, part |-> FALSE], done)
    /\ rs' = [rs EXCEPT !.pc = IF done THEN "shutdown" ELSE "recover"]
    /\ expected' = IF done THEN rs.data ELSE expected
    /\ touched' = (touched \/ done)
    /\ UNCHANGED <<held, wal, lastTxn, exits, backups, begun, bk, safety, good>>

\* after a failure the safety copy is installed, and the process goes on
Recover(done) ==
    /\ Up /\ rs.pc = "recover"
    /\ CopyFileAtomic([data |-> safety.data, line |-> safety.line, part |-> FALSE], done)
    /\ rs' = NoRestore
    /\ touched' = (touched \/ done)
    /\ UNCHANGED <<held, wal, lastTxn, exits, backups, begun, bk, safety, good, expected>>

Next ==
    \/ \E fresh \in BOOLEAN : Commit(fresh)
    \/ Checkpoint \/ Start \/ \E last \in BOOLEAN : Exit(last)
    \/ Vacuum \/ Rotate \/ \E ok \in BOOLEAN : Verify(ok)
    \/ \E out \in {"none", "part", "whole"} : Upload(out)
    \/ \E i \in DOMAIN backups : RestoreBackup(i)
    \/ Safety \/ \E done \in BOOLEAN : Install(done) \/ Recover(done)

Spec == Init /\ [][Next]_vars

-----------------------------------------------------------------------------
(* Properties. *)

Data == (SUBSET (1..MaxTxn)) \cup {Corrupt}

\* Every variable has its type.
TypeOK ==
    /\ \A i \in DOMAIN files : files[i].data \in Data
    /\ path \in DOMAIN files /\ held \in 0..Len(files)
    /\ wal.txns \in Data \ {Corrupt}
    /\ \A i \in DOMAIN backups : backups[i].id \in 1..begun
    /\ good \in 0..begun /\ expected \in Data

\* "rotate removes the oldest backup files when count exceeds retention": once a
\* backup was complete, the newest such one is there and whole, whatever crashes and
\* failures left half-written files behind.
NewestKept == good # 0 => \E i \in DOMAIN backups : backups[i].id = good /\ ~backups[i].part

\* "via temp file + rename for atomicity" (copyFileAtomic): wherever the process
\* stops, the file at the database's path is not half of one.
PathWhole == ~files[path].part

\* "Create safety backup of current DB": while a restored file waits for the restart,
\* the safety copy has all that the database file had when the restore began.
SafetyHolds == Up /\ rs.pc = "shutdown" => rs.from \subseteq safety.data

\* With no restore, a restart finds what was committed, wherever the process stopped.
CommitsKept == Up /\ ~touched => Content = expected

\* "It replaces the current database with the specified backup file, then requests a
\* graceful shutdown so systemd restarts the service with the restored data": after a
\* restart the database is the backup, or all that was committed when there was none.
RestoredExactly == Up /\ held = path => Content = expected
=============================================================================
