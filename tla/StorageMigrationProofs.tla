----------------------- MODULE StorageMigrationProofs -----------------------
(***************************************************************************)
(* Moving files loses none, for any number of files, directories and       *)
(* tasks, as long as one goroutine at a time moves files, operators ask    *)
(* for empty directories and the lookup of a row does not fail.            *)
(***************************************************************************)
EXTENDS StorageMigration, WellFoundedInduction, TLAPS

\* At most one task's goroutine moves files.
Alone == \A t, u \in Tasks : pc[t] # "idle" /\ pc[u] # "idle" => t = u

Busy   == {"copy", "check", "find", "update", "remove"}
Copied == Busy \ {"copy"}

\* No two paths share an inode.
PathsApart ==
    \A d, e \in Dirs, f, g \in Files :
        at[d][f] = at[e][g] /\ at[d][f] # NoInode => d = e /\ f = g

\* What a goroutine has not reached yet has no copy, and a row that points into
\* the directory it empties belongs to a file it has still to move.
Ahead(t) ==
    /\ from[t] # to[t]
    /\ \A f \in todo[t] : at[to[t]][f] = NoInode
    /\ pc[t] = "walk" => \A f \in Files : at[to[t]][f] = NoInode
    /\ pc[t] # "walk" => \A f \in Tracked :
           row[f] = from[t] => f \in todo[t] \/ (f = cur[t] /\ pc[t] \in Busy \ {"remove"})

\* What it moves: the copy is the beginning of the source, then all of it, and
\* the source goes only after the row has left it.
Moving(t) ==
    /\ pc[t] \in Busy => /\ cur[t] \in Files \ todo[t]
                         /\ at[from[t]][cur[t]] # NoInode
                         /\ at[to[t]][cur[t]] # NoInode
    /\ pc[t] = "copy" => /\ in[t] = at[from[t]][cur[t]]
                         /\ out[t] = at[to[t]][cur[t]]
                         /\ content[out[t]] = content[in[t]] \cap 1 .. pos[t]
    /\ pc[t] \in Copied => content[at[to[t]][cur[t]]] = content[at[from[t]][cur[t]]]
    /\ pc[t] = "update" => cur[t] \in Tracked /\ row[cur[t]] = from[t]
    /\ pc[t] = "remove" => (cur[t] \in Tracked => row[cur[t]] # from[t])

Inv ==
    /\ FilesKept
    /\ PathsApart
    /\ \A t \in Tasks : pc[t] # "idle" => Ahead(t) /\ Moving(t)

\* A non-empty set of chunks has a last one.
LEMMA LastChunk ==
    ASSUME NEW S \in SUBSET Whole, S # {}
    PROVE  /\ Max(S) \in S
           /\ \A y \in S : Max(S) >= y
  <1> DEFINE T == {NChunks - x : x \in S}
  <1>1. T \subseteq Nat /\ T # {}
    BY FilesAssumption, SMT DEF Whole
  <1>2. PICK m \in T : \A y \in T : ~(<<y, m>> \in OpToRel(<, Nat))
    BY <1>1, NatLessThanWellFounded, WFMin
  <1>3. \A y \in T : ~(y < m)
    BY <1>1, <1>2 DEF OpToRel
  <1>4. PICK x \in S : m = NChunks - x
    OBVIOUS
  <1>5. \A y \in S : x >= y
    BY <1>3, <1>4, FilesAssumption, SMT DEF Whole
  <1> QED BY <1>5 DEF Max

\* The size of a file is within its bounds, and no chunk lies behind it.
LEMMA SizeBounds ==
    ASSUME TypeOK, NEW i \in Inodes
    PROVE  Size(i) \in 0 .. NChunks /\ content[i] \subseteq 1 .. Size(i)
  <1>1. content[i] \in SUBSET Whole
    BY DEF TypeOK
  <1>2. CASE content[i] = {}
    BY <1>2, FilesAssumption, SMT DEF Size
  <1>3. CASE content[i] # {}
    BY <1>1, <1>3, LastChunk, FilesAssumption, SMT DEF Size, Whole
  <1> QED BY <1>2, <1>3

\* The part of the types that the steps of a goroutine change.
RunTypes ==
    /\ pc \in [Tasks -> Pcs]
    /\ todo \in [Tasks -> SUBSET Files]
    /\ cur \in [Tasks -> Files \cup {NoFile}]
    /\ in \in [Tasks -> Inodes \cup {NoInode}]
    /\ out \in [Tasks -> Inodes \cup {NoInode}]
    /\ pos \in [Tasks -> 0 .. NChunks]

TaskTypes ==
    /\ status \in [Tasks -> TaskStatuses]
    /\ active \subseteq Tasks
    /\ cancelled \in [Tasks -> BOOLEAN]
    /\ cancelling \subseteq Tasks
    /\ from \in [Tasks -> Dirs]
    /\ to \in [Tasks -> Dirs]

DiskTypes ==
    /\ row \in [Tracked -> Dirs]
    /\ at \in [Dirs -> [Files -> Inodes \cup {NoInode}]]
    /\ content \in [Inodes -> SUBSET Whole]

ConfigTypes ==
    /\ dir \in Dirs
    /\ handler \in {"idle", "save"}
    /\ wanted \in Dirs

LEMMA TypeParts == TypeOK <=> RunTypes /\ TaskTypes /\ DiskTypes /\ ConfigTypes
  BY DEF TypeOK, RunTypes, TaskTypes, DiskTypes, ConfigTypes

LEMMA TypePartsNext ==
    ASSUME RunTypes', TaskTypes', DiskTypes', ConfigTypes'
    PROVE  TypeOK'
  BY DEF TypeOK, RunTypes, TaskTypes, DiskTypes, ConfigTypes

\* Where no file, row or goroutine changes, the invariant stays.
LEMMA Rests ==
    ASSUME Inv, TypeOK', UNCHANGED <<row, disk, run>>
    PROVE  Inv'
  BY DEF Inv, FilesKept, RowHasFile, NothingLost, HasWhole, PathsApart, Ahead, Moving, disk, run

\* When a goroutine ends, no other one runs.
LEMMA EndsQuiet ==
    ASSUME Inv, Alone, TypeOK', UNCHANGED <<row, disk>>,
           NEW t \in Tasks, pc[t] # "idle",
           \A u \in Tasks : pc'[u] # "idle" => u # t /\ pc[u] # "idle"
    PROVE  Inv'
  <1>1. \A u \in Tasks : pc'[u] = "idle"
    BY DEF Alone
  <1> QED
    BY <1>1 DEF Inv, FilesKept, RowHasFile, NothingLost, HasWhole, PathsApart, disk

\* Returning keeps the types.
LEMMA EndsTypes ==
    ASSUME TypeOK, NEW t \in Tasks, NEW o \in TaskStatuses, Ends(t, o), UNCHANGED at
    PROVE  /\ TypeOK'
           /\ UNCHANGED <<row, disk>>
           /\ \A u \in Tasks : pc'[u] # "idle" => u # t /\ pc[u] # "idle"
  <1>1. RunTypes'
    BY FilesAssumption, TypeParts, SMT DEF Ends, Goto, RunTypes, Pcs
  <1>2. TaskTypes'
    BY TypeParts, SMT DEF Ends, TaskTypes
  <1>3. DiskTypes' /\ ConfigTypes'
    BY TypeParts DEF Ends, DiskTypes, ConfigTypes, config
  <1>4. \A u \in Tasks : pc'[u] # "idle" => u # t /\ pc[u] # "idle"
    BY TypeParts, SMT DEF Ends, Goto, RunTypes
  <1> QED BY <1>1, <1>2, <1>3, <1>4, TypePartsNext DEF Ends, disk

LEMMA EndsStep ==
    ASSUME Inv, Alone, NEW t \in Tasks, pc[t] # "idle",
           NEW o \in TaskStatuses, Ends(t, o), UNCHANGED at
    PROVE  Inv'
  BY EndsTypes, EndsQuiet DEF Inv, FilesKept

\* A step of the only goroutine has to keep what is said about it alone.
LEMMA GoesOn ==
    ASSUME Alone, NEW t \in Tasks, pc[t] # "idle", RunTypes, RunTypes',
           \A u \in Tasks \ {t} : pc'[u] = pc[u],
           FilesKept', PathsApart', Ahead(t)', Moving(t)'
    PROVE  Inv'
  <1>1. \A u \in Tasks : pc'[u] # "idle" => u = t
    BY DEF Alone
  <1> QED BY <1>1 DEF Inv

-----------------------------------------------------------------------------
(* One lemma per action. *)

LEMMA InitInv == Init => Inv
  <1> SUFFICES ASSUME Init PROVE Inv
    OBVIOUS
  <1>1. RunTypes /\ TaskTypes /\ ConfigTypes
    BY FilesAssumption, SMT
    DEF Init, RunTypes, TaskTypes, ConfigTypes, Pcs, TaskStatuses
  <1>2. DiskTypes
    BY FilesAssumption, SMT DEF Init, DiskTypes
  <1>3. \A f \in Files : HasWhole(Home, f)
    BY FilesAssumption DEF Init, HasWhole, Range
  <1>4. RowHasFile /\ NothingLost
    BY <1>3, FilesAssumption DEF Init, RowHasFile, NothingLost
  <1>5. PathsApart
    BY FilesAssumption DEF Init, PathsApart, IsInjective
  <1>6. \A t \in Tasks : pc[t] = "idle"
    BY DEF Init
  <1> QED BY <1>1, <1>2, <1>4, <1>5, <1>6, TypeParts DEF Inv, FilesKept

LEMMA EnqueueStep ==
    ASSUME Inv, Alone', EmptyTargets, NEW t \in Tasks, NEW d \in Dirs, Enqueue(t, d)
    PROVE  Inv'
  <1>1. TypeOK
    BY DEF Inv, FilesKept
  <1>2. TypeOK'
    <2>1. RunTypes'
      BY <1>1, TypeParts DEF Enqueue, Goto, RunTypes, Pcs
    <2>2. TaskTypes'
      BY <1>1, TypeParts DEF Enqueue, TaskTypes, TaskStatuses, ConfigTypes
    <2>3. DiskTypes' /\ ConfigTypes'
      BY <1>1, TypeParts DEF Enqueue, DiskTypes, ConfigTypes, disk
    <2> QED BY <2>1, <2>2, <2>3, TypePartsNext
  <1>3. FilesKept' /\ PathsApart'
    BY <1>2 DEF Inv, FilesKept, RowHasFile, NothingLost, HasWhole, PathsApart, Enqueue, disk
  <1>4. ASSUME NEW u \in Tasks, u # t, pc'[u] # "idle"
        PROVE  Ahead(u)' /\ Moving(u)'
    <2>1. /\ pc'[u] = pc[u] /\ from'[u] = from[u] /\ to'[u] = to[u]
          /\ UNCHANGED <<row, at, content, todo, cur, in, out, pos>>
      BY <1>1, <1>4 DEF Enqueue, Goto, TypeOK, disk
    <2>2. Ahead(u) /\ Moving(u)
      BY <2>1, <1>4 DEF Inv
    <2> QED BY <2>1, <2>2 DEF Ahead, Moving
  <1>5. ASSUME pc'[t] # "idle"
        PROVE  Ahead(t)' /\ Moving(t)'
    <2>1. pc'[t] = "walk" /\ from'[t] = dir /\ to'[t] = d /\ d # dir
      BY <1>1, <1>5 DEF Enqueue, Goto, TypeOK
    <2>2. at' = at /\ todo'[t] \subseteq Files /\ \A f \in Files : at[d][f] = NoInode
      BY <1>1 DEF Enqueue, disk, TypeOK
    <2> QED BY <2>1, <2>2 DEF Ahead, Moving, Busy, Copied
  <1> QED BY <1>3, <1>4, <1>5 DEF Inv

LEMMA RequestStep ==
    ASSUME Inv, SaveConfig \/ \E t \in Tasks : CancelMigration(t) \/ WriteCancelled(t)
    PROVE  Inv'
  <1>1. TypeOK
    BY DEF Inv, FilesKept
  <1>2. UNCHANGED <<row, disk, run>>
    BY DEF SaveConfig, CancelMigration, WriteCancelled
  <1>3. RunTypes' /\ DiskTypes'
    BY <1>1, <1>2, TypeParts DEF RunTypes, DiskTypes, run, disk
  <1>4. ConfigTypes'
    BY <1>1, TypeParts DEF SaveConfig, CancelMigration, WriteCancelled, ConfigTypes, config
  <1>5. TaskTypes'
    BY <1>1, <1>2, TypeParts
    DEF SaveConfig, CancelMigration, WriteCancelled, TaskTypes, TaskStatuses, task, run
  <1> QED BY <1>2, <1>3, <1>4, <1>5, TypePartsNext, Rests

LEMMA CrashStep ==
    ASSUME Inv, CrashRestart
    PROVE  Inv'
  <1>1. TypeOK
    BY DEF Inv, FilesKept
  <1>2. RunTypes'
    BY FilesAssumption, SMT DEF CrashRestart, RunTypes, Pcs
  <1>3. TaskTypes'
    BY <1>1, TypeParts DEF CrashRestart, TaskTypes, TaskStatuses
  <1>4. DiskTypes' /\ ConfigTypes'
    BY <1>1, TypeParts DEF CrashRestart, DiskTypes, ConfigTypes, disk
  <1>5. \A u \in Tasks : pc'[u] = "idle"
    BY DEF CrashRestart
  <1> QED
    BY <1>2, <1>3, <1>4, <1>5, TypePartsNext
    DEF Inv, FilesKept, RowHasFile, NothingLost, HasWhole, PathsApart, CrashRestart, disk

LEMMA WalkStep ==
    ASSUME Inv, Alone, NEW t \in Tasks, Walk(t)
    PROVE  Inv'
  <1>1. TypeOK /\ pc[t] # "idle" /\ Ahead(t)
    BY DEF Inv, FilesKept, Walk
  <1>2. /\ pc' = [pc EXCEPT ![t] = "next"]
        /\ todo' = [todo EXCEPT ![t] = {f \in Files : at[from[t]][f] # NoInode}]
        /\ UNCHANGED <<config, row, disk, task, from, to, cur, in, out, pos>>
    BY DEF Walk, Goto
  <1>3. RunTypes'
    BY <1>1, <1>2, TypeParts DEF RunTypes, Pcs
  <1>4. TypeOK'
    BY <1>1, <1>2, <1>3, TypeParts, TypePartsNext
    DEF TaskTypes, DiskTypes, ConfigTypes, config, disk, task
  <1>5. FilesKept' /\ PathsApart'
    BY <1>2, <1>4 DEF Inv, FilesKept, RowHasFile, NothingLost, HasWhole, PathsApart, disk
  <1>6. /\ pc'[t] = "next" /\ todo'[t] = {f \in Files : at[from[t]][f] # NoInode}
        /\ \A u \in Tasks \ {t} : pc'[u] = pc[u]
    BY <1>1, <1>2 DEF TypeOK
  <1>7. \A f \in Tracked : row[f] = from[t] => f \in todo'[t]
    BY <1>6, FilesAssumption DEF Inv, FilesKept, RowHasFile, HasWhole
  <1>8. Ahead(t)'
    BY <1>1, <1>2, <1>6, <1>7 DEF Ahead, disk, Walk
  <1>9. Moving(t)'
    BY <1>6 DEF Moving, Busy, Copied
  <1> QED BY <1>1, <1>3, <1>5, <1>6, <1>8, <1>9, TypeParts, GoesOn

LEMMA OpenFilesStep ==
    ASSUME Inv, Alone, NEW t \in Tasks, NEW f \in Files, OpenFiles(t, f)
    PROVE  Inv'
  <1>1. TypeOK /\ pc[t] = "next" /\ Ahead(t) /\ f \in todo[t]
    BY DEF Inv, FilesKept, OpenFiles
  <1>2. at[from[t]][f] # NoInode /\ at[to[t]][f] = NoInode /\ from[t] # to[t]
        /\ from[t] \in Dirs /\ to[t] \in Dirs
    BY <1>1 DEF Ahead, OpenFiles, TypeOK
  <1>3. PICK i \in FreeInodes :
          /\ out' = [out EXCEPT ![t] = i]
          /\ at' = AtPath(to[t], f, i)
          /\ content' = [content EXCEPT ![i] = {}]
    BY <1>2 DEF OpenFiles, NextInode
  <1>4. i \in Inodes /\ i # NoInode /\ \A d \in Dirs, g \in Files : at[d][g] # i
    BY FilesAssumption DEF FreeInodes, Linked
  <1>5. /\ todo' = [todo EXCEPT ![t] = @ \ {f}]
        /\ cur' = [cur EXCEPT ![t] = f]
        /\ in' = [in EXCEPT ![t] = at[from[t]][f]]
        /\ pos' = [pos EXCEPT ![t] = 0]
        /\ pc' = [pc EXCEPT ![t] = "copy"]
        /\ UNCHANGED <<config, row, task, from, to>>
    BY DEF OpenFiles, Goto
  <1>6. RunTypes'
    BY <1>1, <1>2, <1>3, <1>4, <1>5, TypeParts, FilesAssumption DEF RunTypes, Pcs, DiskTypes
  <1>7. DiskTypes'
    BY <1>1, <1>2, <1>3, <1>4, <1>5, TypeParts DEF DiskTypes, AtPath
  <1>8. TypeOK'
    BY <1>1, <1>5, <1>6, <1>7, TypeParts, TypePartsNext DEF TaskTypes, ConfigTypes, config, task
  <1>9. \A d \in Dirs, g \in Files :
          at'[d][g] = IF d = to[t] /\ g = f THEN i ELSE at[d][g]
    BY <1>1, <1>2, <1>3 DEF AtPath, TypeOK
  <1>10. /\ content'[i] = {}
         /\ \A j \in Inodes \ {i} : content'[j] = content[j]
    BY <1>1, <1>3, <1>4 DEF TypeOK
  <1>11. ASSUME NEW d \in Dirs, NEW g \in Files, HasWhole(d, g)
         PROVE  HasWhole(d, g)'
    <2>1. at[d][g] \in Inodes \ {i} /\ at'[d][g] = at[d][g]
      BY <1>1, <1>2, <1>4, <1>9, <1>11 DEF HasWhole, TypeOK
    <2> QED BY <2>1, <1>10, <1>11 DEF HasWhole
  <1>12. RowHasFile'
    BY <1>1, <1>5, <1>11, FilesAssumption DEF Inv, FilesKept, RowHasFile, TypeOK
  <1>13. NothingLost'
    BY <1>11 DEF Inv, FilesKept, NothingLost
  <1>14. PathsApart'
    BY <1>4, <1>9 DEF Inv, PathsApart
  <1>15. /\ pc'[t] = "copy" /\ todo'[t] = todo[t] \ {f} /\ cur'[t] = f
         /\ in'[t] = at[from[t]][f] /\ out'[t] = i /\ pos'[t] = 0
         /\ from'[t] = from[t] /\ to'[t] = to[t] /\ row' = row
         /\ \A u \in Tasks \ {t} : pc'[u] = pc[u]
    BY <1>1, <1>3, <1>5 DEF TypeOK
  <1>16. Ahead(t)'
    <2>1. \A g \in todo[t] \ {f} : at'[to[t]][g] = NoInode
      BY <1>1, <1>2, <1>9 DEF Ahead, TypeOK
    <2>2. \A g \in Tracked : row[g] = from[t] => g \in todo[t]
      BY <1>1 DEF Ahead, Busy
    <2> QED BY <1>2, <1>15, <2>1, <2>2 DEF Ahead, Busy
  <1>17. Moving(t)'
    <2>1. at'[from[t]][f] = at[from[t]][f] /\ at'[to[t]][f] = i
      BY <1>2, <1>9
    <2>2. 1 .. 0 = {}
      BY SMT
    <2> QED BY <1>2, <1>4, <1>10, <1>15, <2>1, <2>2 DEF Moving, Busy, Copied
  <1> QED BY <1>1, <1>6, <1>8, <1>12, <1>13, <1>14, <1>15, <1>16, <1>17, TypeParts, GoesOn
          DEF FilesKept

LEMMA CopyChunkStep ==
    ASSUME Inv, Alone, NEW t \in Tasks, CopyChunk(t)
    PROVE  Inv'
  <1>1. TypeOK /\ pc[t] = "copy" /\ Ahead(t) /\ Moving(t)
    BY DEF Inv, FilesKept, CopyChunk
  <1> DEFINE src == at[from[t]][cur[t]]
             dst == at[to[t]][cur[t]]
  <1>2. /\ src \in Inodes /\ dst \in Inodes /\ src # dst
        /\ in[t] = src /\ out[t] = dst
        /\ content[dst] = content[src] \cap 1 .. pos[t]
        /\ cur[t] \in Files \ todo[t]
    BY <1>1 DEF Ahead, Moving, Busy, TypeOK, Inv, PathsApart
  <1>3. pos[t] < NChunks /\ pos[t] \in Nat
    <2>1. Size(src) \in 0 .. NChunks /\ pos[t] < Size(src) /\ pos[t] \in 0 .. NChunks
      BY <1>1, <1>2, SizeBounds DEF CopyChunk, TypeOK
    <2> QED BY <2>1, FilesAssumption
  <1>4. /\ content' = [content EXCEPT ![dst] = @ \cup ({pos[t] + 1} \cap content[src])]
        /\ pos' = [pos EXCEPT ![t] = @ + 1]
        /\ UNCHANGED <<config, row, at, task, pc, from, to, todo, cur, in, out>>
    BY <1>2 DEF CopyChunk
  <1>5. RunTypes'
    BY <1>1, <1>3, <1>4, TypeParts, FilesAssumption DEF RunTypes
  <1>6. DiskTypes'
    BY <1>1, <1>2, <1>4, TypeParts DEF DiskTypes
  <1>7. TypeOK'
    BY <1>1, <1>4, <1>5, <1>6, TypeParts, TypePartsNext DEF TaskTypes, ConfigTypes, config, task
  <1>8. /\ content'[dst] = content[src] \cap 1 .. (pos[t] + 1)
        /\ content'[src] = content[src]
        /\ \A i \in Inodes : content[i] \subseteq content'[i] /\ content'[i] \subseteq Whole
    <2>1. /\ content'[dst] = content[dst] \cup ({pos[t] + 1} \cap content[src])
          /\ \A i \in Inodes \ {dst} : content'[i] = content[i]
      BY <1>1, <1>2, <1>4 DEF TypeOK
    <2>2. 1 .. (pos[t] + 1) = (1 .. pos[t]) \cup {pos[t] + 1}
      BY <1>3
    <2>3. content'[dst] = content[src] \cap 1 .. (pos[t] + 1)
      BY <1>2, <2>1, <2>2
    <2> QED BY <1>1, <1>2, <2>1, <2>3 DEF TypeOK
  <1>9. ASSUME NEW d \in Dirs, NEW g \in Files, HasWhole(d, g)
        PROVE  HasWhole(d, g)'
    <2>1. at[d][g] \in Inodes /\ at' = at
      BY <1>1, <1>4, <1>9 DEF HasWhole, TypeOK
    <2> QED BY <2>1, <1>8, <1>9 DEF HasWhole
  <1>10. RowHasFile'
    BY <1>1, <1>4, <1>9, FilesAssumption DEF Inv, FilesKept, RowHasFile, TypeOK
  <1>11. NothingLost'
    BY <1>9 DEF Inv, FilesKept, NothingLost
  <1>12. PathsApart'
    BY <1>4 DEF Inv, PathsApart
  <1>13. Ahead(t)'
    BY <1>1, <1>4 DEF Ahead
  <1>14. pos'[t] = pos[t] + 1
    BY <1>1, <1>4 DEF TypeOK
  <1>15. Moving(t)'
    BY <1>1, <1>2, <1>4, <1>8, <1>14 DEF Moving, Busy, Copied
  <1> QED BY <1>1, <1>4, <1>5, <1>7, <1>10, <1>11, <1>12, <1>13, <1>15, TypeParts, GoesOn
          DEF FilesKept

LEMMA CopyEndsStep ==
    ASSUME Inv, Alone, NEW t \in Tasks, CopyEnds(t)
    PROVE  Inv'
  <1>1. TypeOK /\ pc[t] = "copy" /\ Ahead(t) /\ Moving(t)
    BY DEF Inv, FilesKept, CopyEnds
  <1> DEFINE src == at[from[t]][cur[t]]
             dst == at[to[t]][cur[t]]
  <1>2. /\ src \in Inodes /\ in[t] = src
        /\ content[dst] = content[src] \cap 1 .. pos[t]
    BY <1>1 DEF Moving, Busy, TypeOK
  <1>3. content[dst] = content[src]
    <2>1. Size(src) \in 0 .. NChunks /\ content[src] \subseteq 1 .. Size(src)
      BY <1>1, <1>2, SizeBounds
    <2>2. pos[t] >= Size(src) /\ pos[t] \in 0 .. NChunks
      BY <1>1, <1>2 DEF CopyEnds, TypeOK
    <2>3. 1 .. Size(src) \subseteq 1 .. pos[t]
      BY <2>1, <2>2, FilesAssumption
    <2> QED BY <1>2, <2>1, <2>3
  <1>4. /\ in' = [in EXCEPT ![t] = NoInode]
        /\ out' = [out EXCEPT ![t] = NoInode]
        /\ pos' = [pos EXCEPT ![t] = 0]
        /\ pc' = [pc EXCEPT ![t] = "check"]
        /\ UNCHANGED <<config, row, at, content, task, from, to, todo, cur>>
    BY DEF CopyEnds, Goto, disk
  <1>5. RunTypes'
    BY <1>1, <1>4, TypeParts, FilesAssumption DEF RunTypes, Pcs
  <1>6. TypeOK'
    BY <1>1, <1>4, <1>5, TypeParts, TypePartsNext
    DEF TaskTypes, DiskTypes, ConfigTypes, config, task
  <1>7. FilesKept' /\ PathsApart'
    BY <1>4, <1>6 DEF Inv, FilesKept, RowHasFile, NothingLost, HasWhole, PathsApart
  <1>8. pc'[t] = "check" /\ \A u \in Tasks \ {t} : pc'[u] = pc[u]
    BY <1>1, <1>4 DEF TypeOK
  <1>9. Ahead(t)'
    BY <1>1, <1>4, <1>8 DEF Ahead, Busy
  <1>10. Moving(t)'
    BY <1>1, <1>3, <1>4, <1>8 DEF Moving, Busy, Copied
  <1> QED BY <1>1, <1>5, <1>7, <1>8, <1>9, <1>10, TypeParts, GoesOn

\* A goroutine that only changes where it is, from one phase of a file to the next.
LEMMA GotoStep ==
    ASSUME Inv, Alone, NEW t \in Tasks, NEW where, Goto(t, where),
           pc[t] \in {"check", "find"}, where \in {"find", "update", "remove"},
           where = "update" => cur[t] \in Tracked /\ row[cur[t]] = from[t],
           where = "remove" => (cur[t] \in Tracked => row[cur[t]] # from[t]),
           UNCHANGED <<config, row, disk, task, from, to, todo, cur, in, out, pos>>
    PROVE  Inv'
  <1>1. TypeOK /\ Ahead(t) /\ Moving(t)
    BY DEF Inv, FilesKept
  <1>2. RunTypes'
    BY <1>1, TypeParts DEF RunTypes, Pcs, Goto
  <1>3. TypeOK'
    BY <1>1, <1>2, TypeParts, TypePartsNext
    DEF TaskTypes, DiskTypes, ConfigTypes, config, task, disk
  <1>4. FilesKept' /\ PathsApart'
    BY <1>3 DEF Inv, FilesKept, RowHasFile, NothingLost, HasWhole, PathsApart, disk
  <1>5. pc'[t] = where /\ \A u \in Tasks \ {t} : pc'[u] = pc[u]
    BY <1>1 DEF TypeOK, Goto
  <1>6. Ahead(t)'
    BY <1>1, <1>5 DEF Ahead, Busy, disk
  <1>7. Moving(t)'
    BY <1>1, <1>5 DEF Moving, Busy, Copied, disk
  <1> QED BY <1>1, <1>2, <1>4, <1>5, <1>6, <1>7, TypeParts, GoesOn

\* The sizes of a source and its copy never differ, so the copy is never removed.
LEMMA CompareSizesStep ==
    ASSUME Inv, Alone, NEW t \in Tasks, CompareSizes(t)
    PROVE  Inv'
  <1> DEFINE src == at[from[t]][cur[t]]
             dst == at[to[t]][cur[t]]
  <1>1. pc[t] = "check" /\ Moving(t)
    BY DEF Inv, CompareSizes
  <1>2. src # NoInode /\ dst # NoInode /\ Size(src) = Size(dst)
    BY <1>1 DEF Moving, Busy, Copied, Size
  <1>3. /\ Goto(t, "find")
        /\ UNCHANGED <<config, row, disk, task, from, to, todo, cur, in, out, pos>>
    BY <1>2 DEF CompareSizes
  <1> QED BY <1>1, <1>3, GotoStep

LEMMA FindByLocalPathStep ==
    ASSUME Inv, Alone, ~LookupFails, NEW t \in Tasks, FindByLocalPath(t)
    PROVE  Inv'
  <1> DEFINE found == cur[t] \in Tracked /\ row[cur[t]] = from[t]
  <1>1. /\ pc[t] = "find" /\ Goto(t, IF found THEN "update" ELSE "remove")
        /\ UNCHANGED <<config, row, disk, task, from, to, todo, cur, in, out, pos>>
    BY DEF FindByLocalPath
  <1> QED BY <1>1, GotoStep

LEMMA UpdateLocalPathStep ==
    ASSUME Inv, Alone, NEW t \in Tasks, UpdateLocalPath(t)
    PROVE  Inv'
  <1>1. TypeOK /\ pc[t] = "update" /\ Ahead(t) /\ Moving(t)
    BY DEF Inv, FilesKept, UpdateLocalPath
  <1>2. CASE Ends(t, "failed") /\ UNCHANGED at
    BY <1>1, <1>2, EndsStep DEF TaskStatuses
  <1>3. CASE /\ row' = [row EXCEPT ![cur[t]] = to[t]]
             /\ Goto(t, "remove")
             /\ UNCHANGED <<config, disk, task, from, to, todo, cur, in, out, pos>>
    <2>1. RunTypes'
      BY <1>1, <1>3, TypeParts DEF RunTypes, Pcs, Goto
    <2>2. DiskTypes'
      BY <1>1, <1>3, TypeParts DEF DiskTypes, TaskTypes, disk
    <2>3. TypeOK'
      BY <1>1, <1>3, <2>1, <2>2, TypeParts, TypePartsNext
      DEF TaskTypes, ConfigTypes, config, task
    <2>4. /\ cur[t] \in Tracked /\ row[cur[t]] = from[t] /\ from[t] # to[t]
          /\ row'[cur[t]] = to[t] /\ \A f \in Tracked \ {cur[t]} : row'[f] = row[f]
      BY <1>1, <1>3 DEF Ahead, Moving, TypeOK
    <2>5. HasWhole(to[t], cur[t])
      BY <1>1, <2>4 DEF Moving, Busy, Copied, HasWhole, Inv, FilesKept, RowHasFile
    <2>6. FilesKept' /\ PathsApart'
      BY <1>3, <2>3, <2>4, <2>5
      DEF Inv, FilesKept, RowHasFile, NothingLost, HasWhole, PathsApart, disk
    <2>7. pc'[t] = "remove" /\ \A u \in Tasks \ {t} : pc'[u] = pc[u]
      BY <1>1, <1>3 DEF TypeOK, Goto
    <2>8. Ahead(t)'
      BY <1>1, <1>3, <2>4, <2>7 DEF Ahead, Busy, disk
    <2>9. Moving(t)'
      BY <1>1, <1>3, <2>4, <2>7 DEF Moving, Busy, Copied, disk
    <2> QED BY <1>1, <2>1, <2>6, <2>7, <2>8, <2>9, TypeParts, GoesOn
  <1> QED BY <1>2, <1>3 DEF UpdateLocalPath

LEMMA RemoveSourceStep ==
    ASSUME Inv, Alone, NEW t \in Tasks, RemoveSource(t)
    PROVE  Inv'
  <1>1. TypeOK /\ pc[t] = "remove" /\ Ahead(t) /\ Moving(t)
    BY DEF Inv, FilesKept, RemoveSource
  <1>2. /\ cur' = [cur EXCEPT ![t] = NoFile]
        /\ pc' = [pc EXCEPT ![t] = "next"]
        /\ at' \in {at, AtPath(from[t], cur[t], NoInode)}
        /\ UNCHANGED <<config, row, content, task, from, to, todo, in, out, pos>>
    BY DEF RemoveSource, Goto
  <1>3. from[t] \in Dirs /\ to[t] \in Dirs /\ from[t] # to[t] /\ cur[t] \in Files
    BY <1>1 DEF TypeOK, Ahead, Moving, Busy
  <1>4. RunTypes'
    BY <1>1, <1>2, TypeParts DEF RunTypes, Pcs
  <1>5. DiskTypes'
    <2>1. at \in [Dirs -> [Files -> Inodes \cup {NoInode}]]
      BY <1>1 DEF TypeOK
    <2>2. AtPath(from[t], cur[t], NoInode) \in [Dirs -> [Files -> Inodes \cup {NoInode}]]
      BY <2>1, <1>3, SMT DEF AtPath
    <2> QED BY <1>1, <1>2, <2>1, <2>2, TypeParts DEF DiskTypes
  <1>6. TypeOK'
    BY <1>1, <1>2, <1>4, <1>5, TypeParts, TypePartsNext DEF TaskTypes, ConfigTypes, config, task
  <1>7. /\ at'[from[t]][cur[t]] \in {at[from[t]][cur[t]], NoInode}
        /\ \A d \in Dirs, f \in Files :
             ~(d = from[t] /\ f = cur[t]) => at'[d][f] = at[d][f]
    BY <1>1, <1>2, <1>3 DEF AtPath, TypeOK
  <1>8. ASSUME NEW d \in Dirs, NEW f \in Files, HasWhole(d, f), ~(d = from[t] /\ f = cur[t])
        PROVE  HasWhole(d, f)'
    BY <1>2, <1>7, <1>8 DEF HasWhole
  <1>9. RowHasFile'
    <2> SUFFICES ASSUME NEW f \in Tracked PROVE HasWhole(row[f], f)'
      BY <1>2 DEF RowHasFile
    <2>1. row[f] \in Dirs /\ f \in Files /\ HasWhole(row[f], f)
      BY <1>1, FilesAssumption DEF TypeOK, Inv, FilesKept, RowHasFile
    <2>2. ~(row[f] = from[t] /\ f = cur[t])
      BY <1>1 DEF Moving
    <2> QED BY <1>2, <1>8, <2>1, <2>2 DEF HasWhole
  <1>10. NothingLost'
    <2> SUFFICES ASSUME NEW f \in Files PROVE \E d \in Dirs : HasWhole(d, f)'
      BY DEF NothingLost
    <2>1. PICK d \in Dirs : HasWhole(d, f)
      BY DEF Inv, FilesKept, NothingLost
    <2>2. CASE ~(d = from[t] /\ f = cur[t])
      BY <1>8, <2>1, <2>2
    <2>3. CASE d = from[t] /\ f = cur[t]
      <3>1. HasWhole(to[t], f)
        BY <1>1, <2>1, <2>3 DEF Moving, Busy, Copied, HasWhole
      <3> QED BY <1>3, <1>8, <3>1
    <2> QED BY <2>2, <2>3
  <1>11. PathsApart'
    BY <1>3, <1>7 DEF Inv, PathsApart
  <1>12. pc'[t] = "next" /\ \A u \in Tasks \ {t} : pc'[u] = pc[u]
    BY <1>1, <1>2 DEF TypeOK
  <1>13. Ahead(t)'
    <2>1. \A f \in todo[t] : at'[to[t]][f] = NoInode
      BY <1>1, <1>3, <1>7 DEF Ahead, TypeOK
    <2> QED BY <1>1, <1>2, <1>12, <2>1 DEF Ahead, Busy
  <1>14. Moving(t)'
    BY <1>12 DEF Moving, Busy, Copied
  <1> QED BY <1>1, <1>4, <1>6, <1>9, <1>10, <1>11, <1>12, <1>13, <1>14, TypeParts, GoesOn
          DEF FilesKept

\* The steps that end the goroutine leave every file where it is.
LEMMA ReturnStep ==
    ASSUME Inv, Alone, NEW t \in Tasks, Stops(t) \/ CopyFails(t) \/ SetCompleted(t)
    PROVE  Inv'
  <1>1. status[t] \in TaskStatuses
    BY DEF Inv, FilesKept, TypeOK
  <1>2. CASE Stops(t)
    BY <1>1, <1>2, EndsStep DEF Stops
  <1>3. CASE CopyFails(t)
    BY <1>3, EndsStep DEF CopyFails, TaskStatuses
  <1>4. CASE SetCompleted(t)
    BY <1>4, EndsStep DEF SetCompleted, TaskStatuses
  <1> QED BY <1>2, <1>3, <1>4

LEMMA NextInv ==
    ASSUME EmptyTargets, ~LookupFails, Inv, Alone, Alone', [Next]_vars
    PROVE  Inv'
  <1>1. CASE UNCHANGED vars
    <2>1. TypeOK'
      BY <1>1 DEF Inv, FilesKept, TypeOK, vars, config, disk, task, run
    <2> QED BY <1>1, <2>1, Rests DEF vars
  <1>2. ASSUME NEW t \in Tasks, NEW d \in Dirs, Enqueue(t, d) PROVE Inv'
    BY <1>2, EnqueueStep
  <1>3. CASE SaveConfig \/ \E t \in Tasks : CancelMigration(t) \/ WriteCancelled(t)
    BY <1>3, RequestStep
  <1>4. CASE CrashRestart
    BY <1>4, CrashStep
  <1>5. ASSUME NEW t \in Tasks, Step(t) PROVE Inv'
    BY <1>5, WalkStep, OpenFilesStep, CopyChunkStep, CopyEndsStep, CompareSizesStep,
       FindByLocalPathStep, UpdateLocalPathStep, RemoveSourceStep, ReturnStep DEF Step
  <1> QED BY <1>1, <1>2, <1>3, <1>4, <1>5 DEF Next

-----------------------------------------------------------------------------
\* Copy, update, remove (runMigration): while one goroutine at a time moves
\* files, into directories that were empty, and row lookups work, every row
\* names a whole file and no file is lost, at every moment and so also after a
\* crash, a cancellation or a failed write.
THEOREM MigrationKeepsFiles ==
    ASSUME EmptyTargets, ~LookupFails
    PROVE  Spec /\ []Alone => []FilesKept
  <1>1. Inv /\ Alone /\ Alone' /\ [Next]_vars => Inv'
    BY NextInv
  <1>2. Inv => FilesKept
    BY DEF Inv
  <1> QED BY <1>1, <1>2, InitInv, PTL DEF Spec

\* With one task record the hypothesis on the goroutines holds by itself.
THEOREM OneMigrationKeepsFiles ==
    ASSUME EmptyTargets, ~LookupFails, \A t, u \in Tasks : t = u
    PROVE  Spec => []FilesKept
  <1>1. Alone
    BY DEF Alone
  <1> QED BY <1>1, MigrationKeepsFiles, PTL

\* The change of status that CompletedMoved is about.
LEMMA CompletesMoved ==
    ASSUME Inv, Next, NEW t \in Tasks,
           pc[t] = "next", status[t] = "running", status'[t] = "completed"
    PROVE  \A f \in Tracked : row[f] # from[t]
  <1>1. TypeOK /\ Ahead(t)
    BY DEF Inv, FilesKept
  <1>2. ASSUME NEW u \in Tasks, NEW o, Ends(u, o), o # "completed" \/ u # t
        PROVE  FALSE
    BY <1>1, <1>2 DEF Ends, TypeOK
  <1>3. ~CrashRestart
    BY DEF CrashRestart
  <1>4. ~SaveConfig
    BY DEF SaveConfig, task
  <1>5. \A u \in Tasks : ~CancelMigration(u) /\ ~WriteCancelled(u)
    BY <1>1 DEF CancelMigration, WriteCancelled, TypeOK
  <1>6. \A u \in Tasks, d \in Dirs : ~Enqueue(u, d)
    BY <1>1 DEF Enqueue, TypeOK
  <1>7. PICK u \in Tasks : Step(u)
    BY <1>3, <1>4, <1>5, <1>6 DEF Next
  <1>8. u = t /\ SetCompleted(t)
    <2>1. ~Walk(u) /\ ~CopyChunk(u) /\ ~CopyEnds(u) /\ ~FindByLocalPath(u) /\ ~RemoveSource(u)
          /\ \A f \in Files : ~OpenFiles(u, f)
      BY DEF Walk, CopyChunk, CopyEnds, FindByLocalPath, RemoveSource, OpenFiles, task
    <2>2. ~CompareSizes(u) /\ ~UpdateLocalPath(u) /\ ~CopyFails(u)
      BY <1>2 DEF CompareSizes, UpdateLocalPath, CopyFails, task
    <2>3. ~Stops(u)
      BY <1>2 DEF Stops
    <2>4. SetCompleted(u)
      BY <1>7, <2>1, <2>2, <2>3 DEF Step
    <2> QED BY <1>2, <2>4 DEF SetCompleted
  <1> QED BY <1>1, <1>8 DEF SetCompleted, Ahead, Busy

\* A task that is marked completed has left no row behind: cancelling it, or
\* a crash before the last file, never reads as success.
THEOREM CompletedMeansMoved ==
    ASSUME EmptyTargets, ~LookupFails
    PROVE  Spec /\ []Alone => CompletedMoved
  <1> DEFINE A == \A t \in Tasks :
          (pc[t] = "next" /\ status[t] = "running" /\ status'[t] = "completed")
              => \A f \in Tracked : row[f] # from[t]
  <1>1. Inv /\ Alone /\ Alone' /\ [Next]_vars => Inv'
    BY NextInv
  <1>2. Inv /\ [Next]_vars => [A]_vars
    BY CompletesMoved
  <1> HIDE DEF A
  <1>3. Spec /\ []Alone => [][A]_vars
    BY <1>1, <1>2, InitInv, PTL DEF Spec
  <1> QED BY <1>3 DEF CompletedMoved, A

=============================================================================
