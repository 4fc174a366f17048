---------------------------- MODULE MCOperations ----------------------------
(***************************************************************************)
(* Small instances, for TLC, of the modules about running the service:     *)
(* Scripts, Secrets, BackupRestore, Boot, Sessions, LoginLimiter,          *)
(* OSInstall and Containers.  They share no variable: one of them moves    *)
(* (focus) and the others rest.                                            *)
(***************************************************************************)
EXTENDS Naturals

CONSTANTS
    None, Bad, Short, Corrupt, NoHost,
    Admins, Jobs, ScriptNames, Schedules, Paths, MaxScript, MaxRun, MaxBoot,
    SecretNames, Reserved, Values, MaxKey,
    Retention, MaxTxn, MaxBackup, MaxFile, MaxExit,
    Migrations, p1, p2, d2, DirFiles, MaxStart,
    Passwords, Admin, Percents, SessionTime, MaxTime, MaxSecret, MaxTokens,
    Clients, MaxAttempts, Window, Lockout, MaxIPs, MaxClock,
    Defaults, OsTypes, Variants, TemplateNames, MaxRow,
    Containers, Images, Numbers, Kilo, IntMax, Total, MinMemory, MaxPid,
    Focus               \* the modules that a run is about

VARIABLES focus,
    scheduler, boots, scripts, lastId, runs, content, cron, listing, busyScripts, call, exec, raced, lost,
    vault, keyFile, lastKey, aes, secrets, env, saved, rotated,
    inodes, path, held, wal, lastTxn, exits, backups, begun, bk, rs, safety, good, expected, touched,
    effects, recorded, tx, process, starts, fk, todo, projects, imported, disk, cur, gone, partial, crossed,
    now, phase, file, config, captured, drawn, tokens, req, pair, changedAt, broken,
    clock, entries, lockedTill,
    seeder, seedings, templates, listed, toSeed, generated, edit, renamed, behind,
    daemon, containers, images, serving, pids, available, totalMemBytes, pulls, blind, overflow

scriptVars    == <<scheduler, boots, scripts, lastId, runs, content, cron, listing, busyScripts, call, exec, raced, lost>>
secretVars    == <<vault, keyFile, lastKey, aes, secrets, env, saved, rotated>>
backupVars    == <<inodes, path, held, wal, lastTxn, exits, backups, begun, bk, rs, safety, good, expected, touched>>
bootVars      == <<effects, recorded, tx, process, starts, fk, todo, projects, imported, disk, cur, gone, partial, crossed>>
sessionVars   == <<now, phase, file, config, captured, drawn, tokens, req, pair, changedAt, broken>>
limiterVars   == <<clock, entries, lockedTill>>
installVars   == <<seeder, seedings, templates, listed, toSeed, generated, edit, renamed, behind>>
containerVars == <<daemon, containers, images, serving, pids, available, totalMemBytes, pulls, blind, overflow>>

Script == INSTANCE Scripts WITH Names <- ScriptNames, up <- scheduler, entries <- cron,
                                running <- busyScripts, req <- call
Secret == INSTANCE Secrets WITH Names <- SecretNames, up <- vault
Backup == INSTANCE BackupRestore WITH files <- inodes

\* one directory has the name of a project, the other stands for the other project
MCDirs == {p1, d2}
MCMatch == [d \in MCDirs |-> IF d = d2 THEN p2 ELSE p1]

Start   == INSTANCE Boot WITH Config <- {p1, p2}, Files <- DirFiles, Dirs <- MCDirs, Match <- MCMatch,
                              pc <- process, files <- imported
Session == INSTANCE Sessions
Limiter == INSTANCE LoginLimiter WITH now <- clock, MaxTime <- MaxClock
Install == INSTANCE OSInstall WITH Names <- TemplateNames, up <- seeder, starts <- seedings,
                                   rows <- templates, files <- generated, req <- edit, MaxStart <- 2
Contain == INSTANCE Containers WITH Names <- Containers

ASSUME OperationsAssumption ==
    /\ Script!Constants /\ Secret!Constants /\ Backup!Constants /\ Start!Constants
    /\ Session!Constants /\ Limiter!Constants /\ Install!Constants /\ Contain!Constants

\* modules that have several initial states keep to one of them while they rest
Resting ==
    /\ focus # "boot" => recorded = {}
    /\ focus # "session" => file = Session!Absent
    /\ focus # "container" => ~daemon /\ overflow = IntMax

Init ==
    /\ focus \in Focus
    /\ Script!Init /\ Secret!Init /\ Backup!Init /\ Start!Init
    /\ Session!Init /\ Limiter!Init /\ Install!Init /\ Contain!Init
    /\ Resting

ScriptNext ==
    /\ focus = "script" /\ Script!Next
    /\ UNCHANGED <<focus, secretVars, backupVars, bootVars, sessionVars, limiterVars, installVars, containerVars>>

SecretNext ==
    /\ focus = "secret" /\ Secret!Next
    /\ UNCHANGED <<focus, scriptVars, backupVars, bootVars, sessionVars, limiterVars, installVars, containerVars>>

BackupNext ==
    /\ focus = "backup" /\ Backup!Next
    /\ UNCHANGED <<focus, scriptVars, secretVars, bootVars, sessionVars, limiterVars, installVars, containerVars>>

BootNext ==
    /\ focus = "boot" /\ Start!Next
    /\ UNCHANGED <<focus, scriptVars, secretVars, backupVars, sessionVars, limiterVars, installVars, containerVars>>

SessionNext ==
    /\ focus = "session" /\ Session!Next
    /\ UNCHANGED <<focus, scriptVars, secretVars, backupVars, bootVars, limiterVars, installVars, containerVars>>

LimiterNext ==
    /\ focus = "limiter" /\ Limiter!Next
    /\ UNCHANGED <<focus, scriptVars, secretVars, backupVars, bootVars, sessionVars, installVars, containerVars>>

InstallNext ==
    /\ focus = "install" /\ Install!Next
    /\ UNCHANGED <<focus, scriptVars, secretVars, backupVars, bootVars, sessionVars, limiterVars, containerVars>>

ContainNext ==
    /\ focus = "container" /\ Contain!Next
    /\ UNCHANGED <<focus, scriptVars, secretVars, backupVars, bootVars, sessionVars, limiterVars, installVars>>

vars == <<focus, scriptVars, secretVars, backupVars, bootVars, sessionVars, limiterVars, installVars, containerVars>>

Next ==
    \/ ScriptNext \/ SecretNext \/ BackupNext \/ BootNext \/ SessionNext \/ LimiterNext \/ InstallNext \/ ContainNext

Spec == Init /\ [][Next]_vars

-----------------------------------------------------------------------------
\* Cron entries follow the rows of scripts; a script has one run at a time, none is
\* forgotten, and the newest one's outcome is shown (Scripts).
ScriptsHold ==
    focus = "script" => /\ Script!TypeOK /\ Script!EntriesFollow
                        /\ Script!OneAtATime /\ Script!RunsAccounted /\ Script!LastRunShown

\* An execution gets the secrets that were saved, as long as the key file stays (Secrets).
SecretsReadable == focus = "secret" => Secret!TypeOK /\ Secret!SecretsReadable

\* Backups, restores and crashes leave the newest complete backup, a whole file at the
\* database's path, the safety copy and what was committed (BackupRestore).
RestoreSafe ==
    focus = "backup" => /\ Backup!TypeOK /\ Backup!NewestKept /\ Backup!PathWhole
                        /\ Backup!SafetyHolds /\ Backup!CommitsKept

\* Migrations, seeding and the import take effect once, whoever starts and wherever it
\* stops (Boot).
StartedOnce ==
    focus = "boot" => /\ Start!TypeOK /\ Start!MigratedOnce /\ Start!ReadySchema
                      /\ Start!SeedKept /\ Start!ImportedOnce /\ Start!ImportedAll

\* Once a change of password is acknowledged, no older token opens a session, across
\* restarts and failing saves (Sessions).
TokensRevoked == focus = "session" => Session!TypeOK /\ Session!TokensRevoked

\* The config file is one that the next start accepts, with the password acknowledged last,
\* and the TLS pair is torn only by an end of the process while it is written (Sessions).
ConfigSafe ==
    focus = "session" => Session!Bootable /\ Session!AcknowledgedKept /\ Session!PairBreaksMidway

\* An address that was locked out gets no login through before the lockout is over
\* (LoginLimiter).
LockoutHolds == Limiter!LockoutHolds

\* Defaults are added once, and what PXE renders is what the generated file holds
\* (OSInstall).
InstallHolds == focus = "install" => Install!TypeOK /\ Install!SeededOnce /\ Install!FileAgrees

\* No container gets more memory than the host has, unless it was unknown (Containers).
MemoryBounded == focus = "container" => Contain!TypeOK /\ Contain!MemoryBounded

\* After a restart the database is the restored backup (BackupRestore).
RestoredExactly == Backup!RestoredExactly
=============================================================================
