---------------------------- MODULE WebDAVFiles ----------------------------
(***************************************************************************)
(* The writable view of the WebDAV server (VirtualFS): files below         *)
(* manual_uploads, the rows of files that RegisterFile inserts and the     *)
(* nodes that show them, each written by statements of their own while     *)
(* other clients upload, create folders, delete and rename.                *)
(*                                                                         *)
(* A path is the sequence of its names, at most a folder and a file.       *)
(* golang.org/x/net/webdav, which turns methods into calls, is external.   *)
(***************************************************************************)
EXTENDS Naturals, Sequences, FiniteSets

CONSTANTS
    Names,          \* what a file or folder may be called
    Folders,        \* those of them that clients use for folders
    Clients,        \* requests under way at a time
    Moves,          \* whether clients send a Destination that the view resolves
    MaxFile,        \* bound: rows of files
    MaxNode,        \* bound: nodes
    None

\* what the constants are
Constants ==
    /\ Folders \subseteq Names
    /\ Moves \in BOOLEAN
    /\ {MaxFile, MaxNode} \subseteq Nat

Dirs  == {<<d>> : d \in Folders}
Files == {<<n>> : n \in Names \ Folders} \cup {<<d, n>> : d \in Folders, n \in Names \ Folders}
Paths == Dirs \cup Files

\* path.Base and path.Dir
Base(p) == p[Len(p)]
Dir(p)  == SubSeq(p, 1, Len(p) - 1)

VARIABLES
    disk,       \* what is below manual_uploads at a path: none, dir, part or whole
    files,      \* local_path of the rows of files, by id; every status is 'complete'
    nodes,      \* rows of virtual_nodes, by id: parent, name, file (0 is a folder)
    req,        \* a client's request and its locals
    mixed       \* history: paths whose upload overlapped another request for the path or its
                \* folder, or that were moved

vars == <<disk, files, nodes, req, mixed>>

Idle == [pc |-> "idle", op |-> "get", path |-> <<>>, to |-> <<>>, id |-> 0, parent |-> 0]

Init ==
    /\ disk = [p \in Paths |-> "none"]
    /\ files = <<>>
    /\ nodes = <<>>
    /\ req = [c \in Clients |-> Idle]
    /\ mixed = {}

-----------------------------------------------------------------------------
(* The tree. *)

\* ListNodesByParent, of the visible ones
Children(parent, name) == {n \in DOMAIN nodes : nodes[n].parent = parent /\ nodes[n].name = name}

\* the first in an order by name: any of several with the same name
AnyChild(parent, name) == IF Children(parent, name) = {} THEN {0} ELSE Children(parent, name)

\* resolveNode: the nodes that a path may resolve to, 0 for ErrNotExist
ResolveNode(p) ==
    IF Len(p) = 1 THEN AnyChild(0, p[1])
    ELSE UNION {IF d = 0 THEN {0} ELSE AnyChild(d, p[2]) : d \in AnyChild(0, p[1])}

\* Faulty variant: every node goes to the root.
ResolveParentNode_Root(p) == {0}

\* resolveParentNode: the root also stands for a folder that has no node
ResolveParentNode(p) == IF Len(p) = 1 THEN {0} ELSE AnyChild(0, p[1])

\* nodeExists
NodeExists(parent, name) == Children(parent, name) # {}

\* Stat: a folder, or a file whose row getFile returns (every one has a row)
Stat(p) == \E n \in ResolveNode(p) : n # 0

\* OpenFile for reading
Opens(p) ==
    \A n \in ResolveNode(p) : n # 0 /\ (nodes[n].file # 0 => disk[files[nodes[n].file]] # "none")

-----------------------------------------------------------------------------
(* webdav.Dir below manual_uploads. *)

HasParent(p) == IF Len(p) = 1 THEN TRUE ELSE disk[Dir(p)] = "dir"

\* a path and what is below it
Below(p) == {q \in Paths : Len(q) >= Len(p) /\ SubSeq(q, 1, Len(p)) = p}

Related(p, q) == q \in Below(p) \/ p \in Below(q)

\* paths that a node may end up under: the own ones, and the root's, which stands
\* for a folder that has no node yet
Tainted(ps) == ps \cup {<<Base(p)>> : p \in ps}

\* history: a request for q begins
Mix(c, q) ==
    LET Met == {d \in Clients \ {c} : req[d].pc # "idle"
                                      /\ (Related(req[d].path, q) \/ (req[d].op = "move" /\ Related(req[d].to, q)))}
    IN  IF Met = {} THEN mixed
        ELSE mixed \cup Tainted(Below(q) \cup UNION {Below(req[d].path) : d \in Met})

Begin(c, pc, op, p) == req' = [req EXCEPT ![c] = [Idle EXCEPT !.pc = pc, !.op = op, !.path = p]]

End(c) == req' = [req EXCEPT ![c] = Idle]

Goto(c, pc) == req' = [req EXCEPT ![c].pc = pc]

-----------------------------------------------------------------------------
(* PUT. *)

\* openWrite truncates or creates the file
OpenWrite(c, p) ==
    /\ req[c].pc = "idle"
    /\ HasParent(p)
    /\ disk[p] # "dir"
    /\ disk' = [disk EXCEPT ![p] = "part"]
    /\ Begin(c, "copy", "put", p)
    /\ mixed' = Mix(c, p)
    /\ UNCHANGED <<files, nodes>>

\* the body arrives; what was unlinked meanwhile stays away
CopyBody(c) ==
    /\ req[c].pc = "copy"
    /\ disk' = [disk EXCEPT ![req[c].path] = IF @ = "part" THEN "whole" ELSE @]
    /\ Goto(c, "close")
    /\ UNCHANGED <<files, nodes, mixed>>

\* the client goes away: a cancelled context fails the statements of Close, and
\* without one what has arrived is registered
BodyLost(c) ==
    /\ req[c].pc = "copy"
    /\ End(c) \/ Goto(c, "close")
    /\ UNCHANGED <<disk, files, nodes, mixed>>

\* Close stats the file; RegisterFile looks for the path's row
CloseUpload(c) ==
    /\ req[c].pc = "close"
    /\ LET p    == req[c].path
           Rows == {i \in DOMAIN files : files[i] = p}
       IN  IF disk[p] = "none" THEN End(c)
           ELSE IF Rows = {} THEN Goto(c, "insert")
           ELSE \E i \in Rows : req' = [req EXCEPT ![c].pc = "node", ![c].id = i]
    /\ UNCHANGED <<disk, files, nodes, mixed>>

\* and inserts one, without looking again
RegisterFile(c) ==
    /\ req[c].pc = "insert"
    /\ Len(files) < MaxFile
    /\ files' = Append(files, req[c].path)
    /\ req' = [req EXCEPT ![c].pc = "node", ![c].id = Len(files) + 1]
    /\ UNCHANGED <<disk, nodes, mixed>>

\* createFileRefNode and createFolderNode leave a node of the name alone
NodeWanted(c, parent) == ~NodeExists(parent, Base(req[c].path))

\* they look up the parent, then the name
FindParent(c) ==
    /\ req[c].pc = "node"
    /\ \E parent \in ResolveParentNode(req[c].path) :
          IF NodeWanted(c, parent)
          THEN req' = [req EXCEPT ![c].pc = "create", ![c].parent = parent]
          ELSE End(c)
    /\ UNCHANGED <<disk, files, nodes, mixed>>

\* and insert; the request is answered
CreateNode(c) ==
    /\ req[c].pc = "create"
    /\ Len(nodes) < MaxNode
    /\ nodes' = Append(nodes, [parent |-> req[c].parent, name |-> Base(req[c].path), file |-> req[c].id])
    /\ End(c)
    /\ UNCHANGED <<disk, files, mixed>>

-----------------------------------------------------------------------------
(* MKCOL, DELETE and MOVE. *)

\* Mkdir
Mkdir(c, p) ==
    /\ req[c].pc = "idle"
    /\ disk[p] = "none"
    /\ disk' = [disk EXCEPT ![p] = "dir"]
    /\ Begin(c, "node", "mkcol", p)
    /\ mixed' = Mix(c, p)
    /\ UNCHANGED <<files, nodes>>

\* the physical part of RemoveAll
RemovePhysical(p) == disk' = [q \in Paths |-> IF q \in Below(p) THEN "none" ELSE disk[q]]

\* DELETE: Stat, and RemoveAll
RemoveAll(c, p) ==
    /\ req[c].pc = "idle"
    /\ Stat(p)
    /\ RemovePhysical(p)
    /\ Begin(c, "soft", "delete", p)
    /\ mixed' = Mix(c, p)
    /\ UNCHANGED <<files, nodes>>

\* SoftDelete sets status = 'deleted', which the table's CHECK refuses: a warning
\* is logged, and the request succeeds
SoftDelete(c) ==
    /\ req[c].pc = "soft"
    /\ End(c)
    /\ UNCHANGED <<disk, files, nodes, mixed>>

\* MOVE of a file, which overwrites (RemoveAll of the target, whose SoftDelete changes
\* nothing, and the physical part of Rename)
Rename(c, p, q) ==
    /\ Moves
    /\ req[c].pc = "idle"
    /\ p # q
    /\ disk[p] \in {"part", "whole"}
    /\ HasParent(q) /\ disk[q] # "dir"
    /\ disk' = [disk EXCEPT ![p] = "none", ![q] = disk[p]]
    /\ req' = [req EXCEPT ![c] = [Idle EXCEPT !.pc = "rename", !.op = "move", !.path = p, !.to = q]]
    /\ mixed' = mixed \cup Tainted({p, q, Append(Dir(p), Base(q))})
    /\ UNCHANGED <<files, nodes>>

\* UpdateNode: the node gets the new name and keeps parent and file, and the row its path
RenameNode(c) ==
    /\ req[c].pc = "rename"
    /\ \E n \in ResolveNode(req[c].path) :
          nodes' = IF n = 0 THEN nodes ELSE [nodes EXCEPT ![n].name = Base(req[c].to)]
    /\ End(c)
    /\ UNCHANGED <<disk, files, mixed>>

-----------------------------------------------------------------------------
(* The flat tree below storage, which Handler serves without the database. *)

\* Handler.ServeHTTP: a PUT, DELETE or MOVE of a path below manual_uploads
LegacyWrite(p, now) ==
    /\ HasParent(p)
    /\ disk[p] # now
    /\ disk' = [disk EXCEPT ![p] = now]
    /\ mixed' = mixed \cup {p}
    /\ UNCHANGED <<files, nodes, req>>

Next ==
    \/ \E c \in Clients, p \in Files : OpenWrite(c, p)
    \/ \E c \in Clients, p \in Dirs : Mkdir(c, p)
    \/ \E c \in Clients, p \in Paths : RemoveAll(c, p)
    \/ \E c \in Clients, p, q \in Files : Rename(c, p, q)
    \/ \E c \in Clients :
           \/ CopyBody(c) \/ BodyLost(c) \/ CloseUpload(c) \/ RegisterFile(c)
           \/ FindParent(c) \/ CreateNode(c) \/ SoftDelete(c) \/ RenameNode(c)
    \/ \E p \in Files, now \in {"none", "whole"} : LegacyWrite(p, now)

Spec == Init /\ [][Next]_vars

-----------------------------------------------------------------------------
(* Properties. *)

Pcs == {"idle", "copy", "close", "insert", "node", "create", "soft", "rename"}

\* Every variable has its type; a node names a row of files, or is a folder.
TypeOK ==
    /\ disk \in [Paths -> {"none", "dir", "part", "whole"}]
    /\ files \in Seq(Paths)
    /\ \A n \in DOMAIN nodes :
           /\ nodes[n].parent \in 0..(n - 1)
           /\ nodes[n].name \in Names
           /\ nodes[n].file \in 0..Len(files)
    /\ \A c \in Clients : req[c].pc \in Pcs /\ req[c].id \in 0..Len(files) /\ req[c].parent \in 0..Len(nodes)
    /\ mixed \subseteq Paths

Quiet == \A c \in Clients : req[c].pc = "idle"

\* "so the upload becomes visible through the virtual tree" (manualUploadFile):
\* with no request under way, a whole file in a folder of the view is found by its
\* path and opens, unless its upload overlapped another request for it or its folder.
UploadVisible ==
    Quiet => \A p \in Files \ mixed : disk[p] = "whole" /\ HasParent(p) => Stat(p) /\ Opens(p)

\* RegisterFile and createFileRefNode "is idempotent": uploads that did not overlap
\* leave one row for a path and one node for a name in a folder.
NoDuplicates ==
    /\ \A i, j \in DOMAIN files : files[i] = files[j] /\ files[i] \notin mixed => i = j
    /\ mixed = {} => \A m, n \in DOMAIN nodes :
           nodes[m].parent = nodes[n].parent /\ nodes[m].name = nodes[n].name => m = n

\* RemoveAll: "Soft-delete the underlying file if the removed node is a file
\* reference".  With no request under way, what the view shows is there.
DeletedGone == Quiet => \A p \in Files \ mixed : Stat(p) => disk[p] # "none"
=============================================================================
