---------------------------- MODULE VirtualTree ----------------------------
(***************************************************************************)
(* The virtual directory trees of the supply layer: the rows of            *)
(* virtual_nodes as the admin requests of VirtualAdminHandler and          *)
(* VirtualIndexService, and the WebDAV uploads of VirtualFS, change them;  *)
(* the event bus that tells of a change; and VPathIndexService, a          *)
(* goroutine that rebuilds the materialized full_path index of a view      *)
(* when it hears of one.                                                   *)
(*                                                                         *)
(* A step is one SQL statement or one operation on the bus's channel,      *)
(* taken together with the reads and the writes of virtual_node_paths that *)
(* nobody else can disturb.  A request may end before any of its steps:    *)
(* its context is the client's.  Names, types, file ids, rule              *)
(* configurations and the order of siblings are left out.  No code removes *)
(* a row or changes its view, and none but SetNodeParent its parent.       *)
(***************************************************************************)
EXTENDS Naturals, Sequences

CONSTANTS
    Views,          \* the views, all of which exist
    MaxNodes,       \* bound: AUTOINCREMENT ids handed out
    Admins,         \* bound: concurrent admin requests
    Movers,         \* the admins that move nodes; all create, rename and delete
    BufferSize,     \* capacity of the subscriber channel (100 in the code)
    MaxTreeDepth,   \* maxTreeDepth (50 in the code)
    NoView

NoNode == 0
Nodes == 1 .. MaxNodes

ASSUME TreeAssumption ==
    /\ MaxNodes \in Nat
    /\ Movers \subseteq Admins
    /\ BufferSize \in Nat \ {0}
    /\ MaxTreeDepth \in Nat \ {0}
    /\ NoView \notin Views

VARIABLES
    lastId,     \* the last id handed out; the rows are 1 .. lastId
    view,       \* virtual_nodes.view_id
    parent,     \* virtual_nodes.parent_id
    hidden,     \* the nodes with status 'hidden'
    bus,        \* the views in the buffer of the NodeTreeChanged channel
    req,        \* the request an admin has under way, see Requests
    paths,      \* virtual_node_paths: a node's full_path, <<>> without a row
    worker,     \* the path index worker: the view it rebuilds, if any, and
                \* the paths it has still to write
    unheard     \* history: views with a change since the worker last began to
                \* rebuild them, of which no event will tell it

tree == <<lastId, view, parent, hidden>>
vars == <<tree, bus, req, paths, worker, unheard>>

Rows == 1 .. lastId

Idle == [pc |-> "idle"]

\* A request with the local variables it will still read: "check" and
\* "setparent" are MoveNode's, "collect" and "hide" SoftDeleteNode's, and
\* "created", "moved", "updated" and "deleted" are about to publish the event.
Requests ==
    {Idle}
    \cup [pc : {"check"}, node : Rows, to : Rows, cur : Rows,
          depth : 0 .. MaxTreeDepth]
    \cup [pc : {"setparent"}, node : Rows, to : Rows]
    \cup [pc : {"collect"}, node : Rows, todo : SUBSET Rows, ids : SUBSET Rows,
          doomed : SUBSET Rows]
    \cup [pc : {"hide"}, view : Views, ids : SUBSET Rows, doomed : SUBSET Rows]
    \cup [pc : {"deleted"}, view : Views, doomed : SUBSET Rows]
    \cup [pc : {"created", "moved", "updated"}, view : Views]

Resting == [pc |-> "idle", view |-> NoView, pending |-> {}]

Init ==
    /\ lastId = 0
    /\ view = [n \in Nodes |-> NoView]
    /\ parent = [n \in Nodes |-> NoNode]
    /\ hidden = {}
    /\ bus = <<>>
    /\ req = [a \in Admins |-> Idle]
    /\ paths = [n \in Nodes |-> <<>>]
    /\ worker = Resting
    /\ unheard = {}

Children(n) == {m \in Rows : parent[m] = n}

\* n and all of its descendants: the least set with n and closed under Children.
Below(n) ==
    {m \in Rows : \A S \in SUBSET Rows :
        (n \in S /\ \A k \in S : Children(k) \subseteq S) => m \in S}

Become(a, r) == req' = [req EXCEPT ![a] = r]

-----------------------------------------------------------------------------
(* The bus. *)

Queued(v) == \E i \in 1 .. Len(bus) : bus[i] = v

\* Bus.Publish does not block: with a full buffer the event is dropped.
Publish(v) == bus' = IF Len(bus) < BufferSize THEN Append(bus, v) ELSE bus

\* The event of a creation or of a move.
EmitChange(a) ==
    /\ req[a].pc \in {"created", "moved"}
    /\ Publish(req[a].view)
    /\ unheard' = IF Len(bus) < BufferSize \/ Queued(req[a].view) THEN unheard
                  ELSE unheard \cup {req[a].view}
    /\ Become(a, IF req[a].pc = "created" THEN Idle
                 ELSE [pc |-> "updated", view |-> req[a].view])
    /\ UNCHANGED <<tree, paths, worker>>

\* The event of a deletion, or of an UpdateNode, which also ends a move; the
\* paths do not depend on what these change.
EmitNote(a) ==
    /\ req[a].pc \in {"updated", "deleted"}
    /\ Publish(req[a].view)
    /\ Become(a, Idle)
    /\ UNCHANGED <<tree, paths, worker, unheard>>

-----------------------------------------------------------------------------
(* Creation and renaming. *)

\* The INSERT.  The foreign key asks only that the parent is a row.
InsertNode(v, p) ==
    /\ lastId < MaxNodes
    /\ p \in Rows \cup {NoNode}
    /\ lastId' = lastId + 1
    /\ view' = [view EXCEPT ![lastId + 1] = v]
    /\ parent' = [parent EXCEPT ![lastId + 1] = p]
    /\ UNCHANGED hidden

CreateNode(a, v, p) ==
    /\ req[a] = Idle
    /\ InsertNode(v, p)
    /\ Become(a, [pc |-> "created", view |-> v])
    /\ UNCHANGED <<bus, paths, worker, unheard>>

\* createFolderNode and createFileRefNode of an upload: the parent is a visible
\* node of the view that resolveParentNode found a moment ago, and no event is
\* published.
WebDAVCreateNode(v, p) ==
    /\ p # NoNode => view[p] = v
    /\ InsertNode(v, p)
    /\ unheard' = unheard \cup {v}
    /\ UNCHANGED <<bus, req, paths, worker>>

\* UpdateNode without a new parent: only the event matters here.
UpdateNode(a, n) ==
    /\ req[a] = Idle
    /\ n \in Rows
    /\ Become(a, [pc |-> "updated", view |-> view[n]])
    /\ UNCHANGED <<tree, bus, paths, worker, unheard>>

-----------------------------------------------------------------------------
(* UpdateNode with a parent_id that is not the one just read: MoveNode. *)

MoveNode(a, n, p) ==
    /\ req[a] = Idle
    /\ a \in Movers
    /\ n \in Rows /\ p \in Rows
    /\ p # parent[n]
    /\ Become(a, [pc |-> "check", node |-> n, to |-> p, cur |-> p, depth |-> 0])
    /\ UNCHANGED <<tree, bus, paths, worker, unheard>>

\* Faulty variant: a node is compared with its new parent's ancestors only.
CheckCycle_NotSelf(a) ==
    /\ req[a].pc = "check"
    /\ LET r == req[a] IN
       Become(a, IF r.depth = MaxTreeDepth \/ (r.cur = r.node /\ r.depth > 0)
                   THEN Idle
                 ELSE IF parent[r.cur] = NoNode
                   THEN [pc |-> "setparent", node |-> r.node, to |-> r.to]
                 ELSE [r EXCEPT !.cur = parent[r.cur], !.depth = @ + 1])
    /\ UNCHANGED <<tree, bus, paths, worker, unheard>>

\* checkCycle, one row at a time: the move is refused when the node is met or
\* the chain is too long, and goes ahead when the root is reached.
CheckCycle(a) ==
    /\ req[a].pc = "check"
    /\ LET r == req[a] IN
       Become(a, IF r.depth = MaxTreeDepth \/ r.cur = r.node
                   THEN Idle
                 ELSE IF parent[r.cur] = NoNode
                   THEN [pc |-> "setparent", node |-> r.node, to |-> r.to]
                 ELSE [r EXCEPT !.cur = parent[r.cur], !.depth = @ + 1])
    /\ UNCHANGED <<tree, bus, paths, worker, unheard>>

SetNodeParent(a) ==
    /\ req[a].pc = "setparent"
    /\ parent' = [parent EXCEPT ![req[a].node] = req[a].to]
    /\ Become(a, [pc |-> "moved", view |-> view[req[a].node]])
    /\ UNCHANGED <<lastId, view, hidden, bus, paths, worker, unheard>>

-----------------------------------------------------------------------------
(* Deletion. *)

SoftDeleteNode(a, n) ==
    /\ req[a] = Idle
    /\ n \in Rows
    /\ Become(a, [pc |-> "collect", node |-> n, todo |-> {n}, ids |-> {},
                  doomed |-> Below(n)])
    /\ UNCHANGED <<tree, bus, paths, worker, unheard>>

\* The walk ends when nothing is left to expand.
Collected(r) ==
    IF r.todo # {} THEN r
    ELSE [pc |-> "hide", view |-> view[r.node], ids |-> r.ids, doomed |-> r.doomed]

\* Faulty variant: only the children are collected.
CollectSubtree_OneLevel(a) ==
    /\ req[a].pc = "collect"
    /\ \E c \in req[a].todo :
          Become(a, Collected([req[a] EXCEPT
              !.todo = (@ \ {c}) \cup (IF c = req[a].node THEN Children(c) ELSE {}),
              !.ids = @ \cup {c}]))
    /\ UNCHANGED <<tree, bus, paths, worker, unheard>>

\* collectSubtreeIDs: one query for the children of each node found.
CollectSubtree(a) ==
    /\ req[a].pc = "collect"
    /\ \E c \in req[a].todo :
          Become(a, Collected([req[a] EXCEPT !.todo = (@ \ {c}) \cup Children(c),
                                             !.ids = @ \cup {c}]))
    /\ UNCHANGED <<tree, bus, paths, worker, unheard>>

\* SoftDeleteNodeCascade: one UPDATE per row.
HideNode(a) ==
    /\ req[a].pc = "hide"
    /\ \E c \in req[a].ids :
          /\ hidden' = hidden \cup {c}
          /\ Become(a, IF req[a].ids # {c} THEN [req[a] EXCEPT !.ids = @ \ {c}]
                       ELSE [pc |-> "deleted", view |-> req[a].view,
                             doomed |-> req[a].doomed])
    /\ UNCHANGED <<lastId, view, parent, bus, paths, worker, unheard>>

-----------------------------------------------------------------------------
\* The view has a change whose event a request has yet to publish.
Owed(v) == \E a \in Admins : req[a].pc \in {"created", "moved"} /\ req[a].view = v

\* The client is gone: the next statement fails, or Publish finds its context
\* done, and the request ends where it is.
ClientGone(a) ==
    /\ req[a] # Idle
    /\ unheard' = unheard \cup {v \in Views : req[a].pc \in {"created", "moved"}
                                                /\ req[a].view = v}
    /\ Become(a, Idle)
    /\ UNCHANGED <<tree, bus, paths, worker>>

-----------------------------------------------------------------------------
(* VPathIndexService. *)

\* Faulty variant: the old rows are not deleted first.
UpdatePath_NoClear ==
    /\ worker = Resting
    /\ bus # <<>>
    /\ bus' = Tail(bus)
    /\ worker' = [Resting EXCEPT !.pc = "roots", !.view = Head(bus)]
    /\ unheard' = unheard \ {Head(bus)}
    /\ UNCHANGED <<tree, req, paths>>

\* An event is received, and the view's rows are deleted.
UpdatePath ==
    /\ worker = Resting
    /\ bus # <<>>
    /\ bus' = Tail(bus)
    /\ paths' = [n \in Nodes |-> IF view[n] = Head(bus) THEN <<>> ELSE paths[n]]
    /\ worker' = [Resting EXCEPT !.pc = "roots", !.view = Head(bus)]
    /\ unheard' = unheard \ {Head(bus)}
    /\ UNCHANGED <<tree, req>>

\* The rebuild goes on with the given paths, and is over when there are none.
Walk(ps) ==
    worker' = IF ps = {} THEN Resting
              ELSE [worker EXCEPT !.pc = "walk", !.pending = ps]

ListNodesByParent(p) == {m \in Rows : view[m] = worker.view /\ parent[m] = p}

ListRoots ==
    /\ worker.pc = "roots"
    /\ Walk({<<n>> : n \in ListNodesByParent(NoNode)})
    /\ UNCHANGED <<tree, bus, req, paths, unheard>>

\* updateSubtree visits a node's children before its siblings.
Deepest ==
    {p \in worker.pending : \A q \in worker.pending : Len(q) <= Len(p)}

\* updateSubtree: the INSERT, which fails on UNIQUE(view_id, node_id) when the
\* node was met before (the rebuild is given up), and the query for the children.
UpdateSubtree ==
    /\ worker.pc = "walk"
    /\ \E p \in Deepest :
          LET n == p[Len(p)] IN
          IF paths[n] # <<>>
            THEN Walk({}) /\ UNCHANGED paths
            ELSE /\ paths' = [paths EXCEPT ![n] = p]
                 /\ Walk((worker.pending \ {p})
                           \cup {Append(p, c) : c \in ListNodesByParent(n)})
    /\ UNCHANGED <<tree, bus, req, unheard>>

-----------------------------------------------------------------------------
\* The rows stay.  Nothing rebuilds the index of a view at the next start.
CrashRestart ==
    /\ bus # <<>> \/ worker # Resting \/ \E a \in Admins : req[a] # Idle
    /\ unheard' = unheard \cup
          {v \in Views : Queued(v) \/ worker.view = v \/ Owed(v)}
    /\ bus' = <<>>
    /\ req' = [a \in Admins |-> Idle]
    /\ worker' = Resting
    /\ UNCHANGED <<tree, paths>>

Request(a) ==
    \/ \E v \in Views, p \in Nodes \cup {NoNode} : CreateNode(a, v, p)
    \/ \E n \in Nodes : UpdateNode(a, n) \/ SoftDeleteNode(a, n)
    \/ \E n, p \in Nodes : MoveNode(a, n, p)
    \/ CheckCycle(a) \/ SetNodeParent(a)
    \/ CollectSubtree(a) \/ HideNode(a)
    \/ EmitChange(a) \/ EmitNote(a) \/ ClientGone(a)

Next ==
    \/ \E a \in Admins : Request(a)
    \/ \E v \in Views, p \in Nodes \cup {NoNode} : WebDAVCreateNode(v, p)
    \/ UpdatePath \/ ListRoots \/ UpdateSubtree
    \/ CrashRestart

Spec == Init /\ [][Next]_vars

-----------------------------------------------------------------------------
(* Properties. *)

TypeOK ==
    /\ lastId \in 0 .. MaxNodes
    /\ view \in [Nodes -> Views \cup {NoView}]
    /\ \A n \in Rows : view[n] \in Views
    /\ parent \in [Nodes -> Rows \cup {NoNode}]
    /\ hidden \subseteq Rows
    /\ bus \in Seq(Views)
    /\ req \in [Admins -> Requests]
    /\ paths \in [Nodes -> Seq(Nodes)]
    /\ worker \in [pc : {"idle", "roots", "walk"}, view : Views \cup {NoView},
                  pending : SUBSET Seq(Nodes)]
    /\ unheard \subseteq Views

\* MoveNode "rejects moves that would create a cycle": every non-empty set of
\* nodes has one whose parent lies outside it.
Acyclic ==
    \A S \in SUBSET Nodes : S # {} => \E n \in S : parent[n] \notin S

\* What checkCycle has established of its move still holds at each of its steps
\* and when SetNodeParent runs: a set of nodes without the node to be moved,
\* with the new parent in it and closed under ancestors, up to the node the walk
\* has come to.
Climbed(r) ==
    /\ r.pc = "check" =>
          \E U \in SUBSET Rows :
              /\ r.node \notin U
              /\ r.to \in U \cup {r.cur}
              /\ \A u \in U : parent[u] \in U \cup {r.cur}
    /\ r.pc = "setparent" =>
          \E U \in SUBSET Rows :
              /\ r.node \notin U
              /\ r.to \in U
              /\ \A u \in U : parent[u] \in U \cup {NoNode}

CheckHolds == \A a \in Admins : Climbed(req[a])

\* The rows of virtual_node_paths for a view are those of the tree as it is.
PathsRight(v) ==
    \A n \in Rows : view[n] = v =>
        paths[n] = IF parent[n] = NoNode THEN <<n>>
                   ELSE IF view[parent[n]] = v /\ paths[parent[n]] # <<>>
                     THEN Append(paths[parent[n]], n)
                   ELSE <<>>

\* When the worker is done with a view and no change of it went unheard, the
\* index is right: a rebuild that moves overtook, or that a node met twice made
\* UpdatePath give up, is always followed by another.
QuietIndex ==
    \A v \in Views \ unheard :
        Queued(v) \/ worker.view = v \/ Owed(v) \/ PathsRight(v)

\* SoftDeleteNode "marks a node and all of its descendants as 'hidden'": when
\* it is about to say so, all that was below the node when it began is hidden.
CascadeComplete ==
    \A a \in Admins : req[a].pc = "deleted" => req[a].doomed \subseteq hidden
=============================================================================
