------------------------------ MODULE AptIndex ------------------------------
(***************************************************************************)
(* The public APT repository (supply/apt.go, internal/apt) over the rows   *)
(* of files with ext 'deb': its index is rebuilt when the signature of the *)
(* files changes, and one parsed control file is remembered per path.      *)
(*                                                                         *)
(* A complete row keeps its size, its name and its checksum, so signatures *)
(* differ in ids and modification times only.  No modification time is     *)
(* used twice.  A control file is its architecture, or Broken.             *)
(***************************************************************************)
EXTENDS Naturals, FiniteSets

CONSTANTS
    None, Broken,
    Clients,            \* requests under way at a time
    Debs,               \* ids of rows, in the order of their names
    Archs,              \* architectures a control file may name, "all" among them
    MaxTime             \* bound: modification times

\* what the constants are
Constants ==
    /\ Debs \subseteq Nat
    /\ "all" \in Archs /\ Broken \notin Archs
    /\ MaxTime \in Nat \ {0}

VARIABLES
    complete,   \* rows of files with status 'complete'
    deleted,    \* ... and those that were deleted; their ids do not come back
    disk,       \* the file at a row's local_path: modification time and control file
    time,       \* the last modification time given
    aptCache,   \* AptHandler.cache
    debMemo,    \* AptHandler.debMemo, by path
    lock,       \* holder of AptHandler.mu as a writer
    req         \* the requests under way and their locals

vars == <<complete, deleted, disk, time, aptCache, debMemo, lock, req>>

Idle == [pc |-> "idle", debs |-> {}, todo |-> {}, sig |-> {}, entries |-> {}, seen |-> 0]

Init ==
    /\ complete = {}
    /\ deleted = {}
    /\ disk = [f \in Debs |-> None]
    /\ time = 0
    /\ aptCache = None
    /\ debMemo = [f \in Debs |-> None]
    /\ lock = None
    /\ req = [c \in Clients |-> Idle]

-----------------------------------------------------------------------------
(* Rows and files. *)

\* a file takes its place: DownloadFile's rename, or an upload over it
WriteFile(f, info) ==
    /\ time < MaxTime
    /\ time' = time + 1
    /\ disk' = [disk EXCEPT ![f] = [mtime |-> time + 1, info |-> info]]
    /\ UNCHANGED <<complete, deleted, aptCache, debMemo, lock, req>>

\* ... or goes, without its row
RemoveFile(f) ==
    /\ disk[f] # None
    /\ disk' = [disk EXCEPT ![f] = None]
    /\ UNCHANGED <<complete, deleted, time, aptCache, debMemo, lock, req>>

\* DownloadFile's last UpdateStatus
CompleteRow(f) ==
    /\ f \notin complete \cup deleted
    /\ disk[f] # None
    /\ complete' = complete \cup {f}
    /\ UNCHANGED <<deleted, disk, time, aptCache, debMemo, lock, req>>

\* ProjectRepo.Delete takes the rows of its files with it
DeleteRow(f) ==
    /\ f \in complete
    /\ complete' = complete \ {f}
    /\ deleted' = deleted \cup {f}
    /\ UNCHANGED <<disk, time, aptCache, debMemo, lock, req>>

-----------------------------------------------------------------------------
(* The APT repository: GET /apt/dists/... *)

\* AptHandler.Serve: the request's list of rows
Serve(c) ==
    /\ req[c].pc = "idle"
    /\ req' = [req EXCEPT ![c] = [Idle EXCEPT !.pc = "sig", !.debs = complete, !.todo = complete]]
    /\ UNCHANGED <<complete, deleted, disk, time, aptCache, debMemo, lock>>

First(S) == CHOOSE f \in S : \A g \in S : f <= g

\* Faulty variant: without the modification time.
Stamp_NoMtime(f) == <<f, 0>>

\* what a file adds to debSignature
Stamp(f) == <<f, disk[f].mtime>>

\* debSignatureNoMtime
NoMtime(debs) == {<<f, 0>> : f \in debs}

\* debSignature stats file after file; one that is missing gives it up
DebSignature(c) ==
    LET r == req[c]
        f == First(r.todo)
    IN
    /\ r.pc = "sig"
    /\ r.todo # {}
    /\ req' = [req EXCEPT ![c] =
           IF disk[f] = None
             THEN [r EXCEPT !.todo = {}, !.sig = NoMtime(r.debs)]
             ELSE [r EXCEPT !.todo = r.todo \ {f}, !.sig = r.sig \cup {Stamp(f)}]]
    /\ UNCHANGED <<complete, deleted, disk, time, aptCache, debMemo, lock>>

Hit(c) == aptCache # None /\ aptCache.sig = req[c].sig

\* the look under RLock: a hit answers the request
RepoFiles(c) ==
    /\ req[c].pc = "sig"
    /\ req[c].todo = {}
    /\ lock = None
    /\ req' = [req EXCEPT ![c] = IF Hit(c) THEN Idle ELSE [@ EXCEPT !.pc = "lock"]]
    /\ UNCHANGED <<complete, deleted, disk, time, aptCache, debMemo, lock>>

\* the second look, under Lock
Recheck(c) ==
    /\ req[c].pc = "lock"
    /\ lock = None
    /\ IF Hit(c)
         THEN req' = [req EXCEPT ![c] = Idle] /\ UNCHANGED lock
         ELSE /\ req' = [req EXCEPT ![c].pc = "parse", ![c].todo = req[c].debs]
              /\ lock' = c
    /\ UNCHANGED <<complete, deleted, disk, time, aptCache, debMemo>>

\* debMemo.parse: the stat, and a remembered control file.  A file that is missing
\* is left out of the index.
Stat(c) ==
    LET r == req[c]
        f == First(r.todo)
    IN
    /\ r.pc = "parse"
    /\ r.todo # {}
    /\ req' = [req EXCEPT ![c] =
           CASE disk[f] = None -> [r EXCEPT !.todo = @ \ {f}]
             [] disk[f] # None /\ debMemo[f] # None /\ debMemo[f].mtime = disk[f].mtime ->
                   [r EXCEPT !.todo = @ \ {f}, !.entries = @ \cup {<<f, debMemo[f].info>>}]
             [] OTHER -> [r EXCEPT !.pc = "read", !.seen = disk[f].mtime]]
    /\ UNCHANGED <<complete, deleted, disk, time, aptCache, debMemo, lock>>

\* ParseDeb: the control file of what is at the path, if it has one
ParseDeb(f) == IF disk[f] = None THEN Broken ELSE disk[f].info

\* the rest of debMemo.parse: open, parse, and remember in place of what was known of the path
Read(c) ==
    LET r == req[c]
        f == First(r.todo)
    IN
    /\ r.pc = "read"
    /\ IF ParseDeb(f) = Broken
         THEN /\ req' = [req EXCEPT ![c] = [r EXCEPT !.pc = "parse", !.todo = @ \ {f}]]
              /\ UNCHANGED debMemo
         ELSE /\ req' = [req EXCEPT ![c] = [r EXCEPT !.pc = "parse", !.todo = @ \ {f},
                                                     !.entries = @ \cup {<<f, ParseDeb(f)>>}]]
              /\ debMemo' = [debMemo EXCEPT ![f] = [mtime |-> r.seen, info |-> ParseDeb(f)]]
    /\ UNCHANGED <<complete, deleted, disk, time, aptCache, lock>>

\* archsOf
ArchsOf(entries) ==
    LET Named == {e[2] : e \in entries} \ {"all"}
    IN  IF Named = {} THEN {"amd64"} ELSE Named

\* filterByArch
FilterByArch(entries, arch) == {e \in entries : e[2] \in {arch, "all"}}

\* GenerateRepo: a Packages file per architecture
GenerateRepo(entries) == [arch \in ArchsOf(entries) |-> FilterByArch(entries, arch)]

\* the generated files are kept under the signature taken at first
Store(c) ==
    /\ req[c].pc = "parse"
    /\ req[c].todo = {}
    /\ aptCache' = [sig |-> req[c].sig, files |-> GenerateRepo(req[c].entries)]
    /\ lock' = None
    /\ req' = [req EXCEPT ![c] = Idle]
    /\ UNCHANGED <<complete, deleted, disk, time, debMemo>>

-----------------------------------------------------------------------------
Request(c) ==
    \/ Serve(c) \/ DebSignature(c) \/ RepoFiles(c) \/ Recheck(c)
    \/ Stat(c) \/ Read(c) \/ Store(c)

Next ==
    \/ \E f \in Debs, info \in Archs \cup {Broken} : WriteFile(f, info)
    \/ \E f \in Debs : RemoveFile(f) \/ CompleteRow(f) \/ DeleteRow(f)
    \/ \E c \in Clients : Request(c)

Spec == Init /\ [][Next]_vars

-----------------------------------------------------------------------------
TypeOK ==
    /\ complete \cup deleted \subseteq Debs
    /\ \A f \in Debs : disk[f] = None \/ disk[f] \in [mtime : 1..MaxTime, info : Archs \cup {Broken}]
    /\ \A f \in Debs : debMemo[f] = None \/ debMemo[f] \in [mtime : 1..MaxTime, info : Archs]
    /\ lock \in Clients \cup {None}

\* what a rebuild would list now
Current == {<<f, disk[f].info>> : f \in {g \in complete : disk[g] # None /\ disk[g].info # Broken}}

\* An APT index whose signature still fits lists what a rebuild would list, although its
\* files were listed, stat'ed and parsed at different times, other requests were rebuilding
\* too, and control files were remembered (repoFiles, debMemo.parse): every package in the
\* Packages file of its architecture, one for all architectures in each (GenerateRepo).
\* Without modification times (a file is missing) the code gives this up.
IndexCurrent ==
    /\ aptCache # None
    /\ \A f \in complete : disk[f] # None
    /\ aptCache.sig = {Stamp(f) : f \in complete}
    => /\ UNION {aptCache.files[arch] : arch \in DOMAIN aptCache.files} = Current
       /\ \A e \in Current, arch \in DOMAIN aptCache.files :
              e \in aptCache.files[arch] <=> e[2] \in {arch, "all"}
=============================================================================
