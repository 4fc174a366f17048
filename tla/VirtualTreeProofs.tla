------------------------- MODULE VirtualTreeProofs -------------------------
(***************************************************************************)
(* For any number of nodes, views and admins: while at most one admin      *)
(* moves nodes at a time the trees stay trees; a deletion hides all that   *)
(* was below its node, unless a move is written while it collects; and the *)
(* path index of a view is right whenever the worker is done with it and   *)
(* no change of it went unheard.                                           *)
(***************************************************************************)
EXTENDS VirtualTree, TLAPS

SingleMover == \A a, b \in Movers : a = b

\* Only movers move nodes.
OnlyMoversMove ==
    \A a \in Admins : req[a].pc \in {"check", "setparent"} => a \in Movers

IInv == TypeOK /\ OnlyMoversMove /\ Acyclic /\ CheckHolds

-----------------------------------------------------------------------------
\* What the two lemmas need of the types.
TreeTyped ==
    /\ lastId \in 0 .. MaxNodes
    /\ parent \in [Nodes -> Rows \cup {NoNode}]

\* A new row is nobody's parent, so no cycle goes through it.
LEMMA InsertKeepsAcyclic ==
    ASSUME TreeTyped, Acyclic, NEW v, NEW p, InsertNode(v, p)
    PROVE  Acyclic'
<1> USE TreeAssumption DEF Nodes, NoNode, Rows, TreeTyped
<1>1. lastId + 1 \in Nodes
  BY DEF InsertNode
<1>2. parent' = [parent EXCEPT ![lastId + 1] = p]
  BY DEF InsertNode
<1> SUFFICES ASSUME NEW S \in SUBSET Nodes, S # {}
             PROVE  \E n \in S : parent'[n] \notin S
  BY DEF Acyclic
<1>3. CASE S = {lastId + 1}
  BY <1>1, <1>2, <1>3 DEF InsertNode
<1>4. CASE S # {lastId + 1}
  <2> DEFINE T == S \ {lastId + 1}
  <2>1. T # {} /\ T \in SUBSET Nodes
    BY <1>4
  <2>2. PICK n \in T : parent[n] \notin T
    BY <2>1 DEF Acyclic
  <2>3. parent'[n] = parent[n] /\ parent[n] # lastId + 1
    BY <1>1, <1>2, <2>2
  <2> QED
    BY <2>2, <2>3
<1> QED
  BY <1>3, <1>4

\* A move under a node none of whose ancestors is the moved one makes no cycle.
LEMMA MoveKeepsAcyclic ==
    ASSUME TreeTyped, Acyclic, NEW n \in Nodes, NEW p \in Nodes,
           NEW U \in SUBSET Nodes,
           n \notin U, p \in U,
           \A u \in U : parent[u] \in U \cup {NoNode},
           parent' = [parent EXCEPT ![n] = p]
    PROVE  Acyclic'
<1> USE DEF Nodes, NoNode, TreeTyped
<1> SUFFICES ASSUME NEW S \in SUBSET Nodes, S # {}
             PROVE  \E m \in S : parent'[m] \notin S
  BY DEF Acyclic
<1>1. CASE S \cap U # {}
  <2>1. PICK m \in S \cap U : parent[m] \notin S \cap U
    BY <1>1 DEF Acyclic
  <2>2. parent'[m] = parent[m]
    BY <2>1
  <2>3. parent[m] \notin S
    BY <2>1
  <2> QED
    BY <2>1, <2>2, <2>3
<1>2. CASE S \cap U = {} /\ n \in S
  BY <1>2
<1>3. CASE S \cap U = {} /\ n \notin S
  <2>1. PICK m \in S : parent[m] \notin S
    BY DEF Acyclic
  <2> QED
    BY <1>3, <2>1
<1> QED
  BY <1>1, <1>2, <1>3

-----------------------------------------------------------------------------
(* Type correctness. *)

LEMMA InsertTyped ==
    ASSUME TypeOK, NEW v \in Views, NEW p, InsertNode(v, p)
    PROVE  /\ lastId' \in 0 .. MaxNodes
           /\ view' \in [Nodes -> Views \cup {NoView}]
           /\ \A n \in Rows' : view'[n] \in Views
           /\ parent' \in [Nodes -> Rows' \cup {NoNode}]
           /\ hidden' \subseteq Rows'
           /\ Rows \subseteq Rows'
BY TreeAssumption DEF TypeOK, InsertNode, Nodes, NoNode, Rows

\* More rows, more requests.
LEMMA RequestsGrow ==
    ASSUME Rows \subseteq Rows'
    PROVE  Requests \subseteq Requests'
BY DEF Requests, Idle

LEMMA PublishTyped ==
    ASSUME bus \in Seq(Views), NEW v \in Views, Publish(v)
    PROVE  bus' \in Seq(Views)
<1>1. CASE Len(bus) < BufferSize
  BY <1>1 DEF Publish
<1>2. CASE ~(Len(bus) < BufferSize)
  BY <1>2 DEF Publish
<1> QED
  BY <1>1, <1>2

\* The fields of a request, by its pc.
LEMMA RequestShape ==
    ASSUME NEW r \in Requests
    PROVE  /\ r.pc = "check" =>
                r \in [pc : {"check"}, node : Rows, to : Rows, cur : Rows,
                       depth : 0 .. MaxTreeDepth]
           /\ r.pc = "setparent" => r \in [pc : {"setparent"}, node : Rows, to : Rows]
           /\ r.pc = "collect" =>
                r \in [pc : {"collect"}, node : Rows, todo : SUBSET Rows,
                       ids : SUBSET Rows, doomed : SUBSET Rows]
           /\ r.pc = "hide" =>
                r \in [pc : {"hide"}, view : Views, ids : SUBSET Rows,
                       doomed : SUBSET Rows]
           /\ r.pc = "deleted" =>
                r \in [pc : {"deleted"}, view : Views, doomed : SUBSET Rows]
           /\ r.pc \in {"created", "moved", "updated"} =>
                r \in [pc : {"created", "moved", "updated"}, view : Views]
BY DEF Requests, Idle

\* A step that leaves the rows alone is typed when what it does to its own
\* request, to the bus and to the worker is.
LEMMA SameRowsTyped ==
    ASSUME TypeOK, UNCHANGED <<lastId, view, parent, hidden>>,
           bus' \in Seq(Views), req' \in [Admins -> Requests],
           paths' \in [Nodes -> Seq(Nodes)],
           worker' \in [pc : {"idle", "roots", "walk"}, view : Views \cup {NoView},
                       pending : SUBSET Seq(Nodes)],
           unheard' \subseteq Views
    PROVE  TypeOK'
BY DEF TypeOK, Rows, Requests

\* TypeOK is inductive.
LEMMA TypeStep ==
    ASSUME TypeOK, [Next]_vars
    PROVE  TypeOK'
<1> USE TreeAssumption
<1>0. /\ lastId \in 0 .. MaxNodes /\ Rows \subseteq Nodes
      /\ \A n \in Rows : view[n] \in Views
      /\ parent \in [Nodes -> Rows \cup {NoNode}]
      /\ hidden \subseteq Rows
      /\ bus \in Seq(Views) /\ unheard \subseteq Views
      /\ req \in [Admins -> Requests] /\ Idle \in Requests
      /\ paths \in [Nodes -> Seq(Nodes)]
      /\ worker \in [pc : {"idle", "roots", "walk"}, view : Views \cup {NoView},
                     pending : SUBSET Seq(Nodes)]
      /\ Resting \in [pc : {"idle", "roots", "walk"}, view : Views \cup {NoView},
                      pending : SUBSET Seq(Nodes)]
  BY DEF TypeOK, Rows, Nodes, Requests, Resting
<1>1. ASSUME NEW a \in Admins, NEW v \in Views, NEW p, CreateNode(a, v, p)
      PROVE  TypeOK'
  <2>1. [pc |-> "created", view |-> v] \in Requests
    BY DEF Requests
  <2>2. req' \in [Admins -> Requests']
    BY <1>0, <1>1, <2>1, InsertTyped, RequestsGrow DEF CreateNode, Become
  <2> QED
    BY <1>0, <1>1, <2>2, InsertTyped DEF CreateNode, TypeOK
<1>2. ASSUME NEW v \in Views, NEW p, WebDAVCreateNode(v, p)
      PROVE  TypeOK'
  <2>1. req' \in [Admins -> Requests']
    BY <1>0, <1>2, InsertTyped, RequestsGrow DEF WebDAVCreateNode
  <2> QED
    BY <1>0, <1>2, <2>1, InsertTyped DEF WebDAVCreateNode, TypeOK
<1>3. ASSUME NEW a \in Admins, NEW n \in Nodes, UpdateNode(a, n)
      PROVE  TypeOK'
  <2>1. [pc |-> "updated", view |-> view[n]] \in Requests
    BY <1>0, <1>3 DEF Requests, UpdateNode
  <2> QED
    BY <1>0, <1>3, <2>1, SameRowsTyped DEF UpdateNode, Become, tree
<1>4. ASSUME NEW a \in Admins, NEW n \in Nodes, SoftDeleteNode(a, n)
      PROVE  TypeOK'
  <2>1. [pc |-> "collect", node |-> n, todo |-> {n}, ids |-> {}, doomed |-> Below(n)]
           \in Requests
    BY <1>4 DEF Requests, SoftDeleteNode, Below
  <2> QED
    BY <1>0, <1>4, <2>1, SameRowsTyped DEF SoftDeleteNode, Become, tree
<1>5. ASSUME NEW a \in Admins, NEW n \in Nodes, NEW p \in Nodes, MoveNode(a, n, p)
      PROVE  TypeOK'
  <2>1. [pc |-> "check", node |-> n, to |-> p, cur |-> p, depth |-> 0] \in Requests
    BY <1>5 DEF Requests, MoveNode
  <2> QED
    BY <1>0, <1>5, <2>1, SameRowsTyped DEF MoveNode, Become, tree
<1>6. ASSUME NEW a \in Admins, CheckCycle(a)
      PROVE  TypeOK'
  <2> DEFINE r == req[a]
  <2>1. r \in [pc : {"check"}, node : Rows, to : Rows, cur : Rows,
               depth : 0 .. MaxTreeDepth]
    BY <1>0, <1>6, RequestShape DEF CheckCycle
  <2>2. [pc |-> "setparent", node |-> r.node, to |-> r.to] \in Requests
    BY <2>1 DEF Requests
  <2>3. ASSUME r.depth # MaxTreeDepth, parent[r.cur] # NoNode
        PROVE  [r EXCEPT !.cur = parent[r.cur], !.depth = @ + 1] \in Requests
    <3>1. parent[r.cur] \in Rows /\ r.depth + 1 \in 0 .. MaxTreeDepth
      BY <1>0, <2>1, <2>3
    <3>2. [r EXCEPT !.cur = parent[r.cur], !.depth = @ + 1]
             \in [pc : {"check"}, node : Rows, to : Rows, cur : Rows,
                  depth : 0 .. MaxTreeDepth]
      BY <2>1, <3>1
    <3> QED
      BY <3>2 DEF Requests
  <2>4. req' \in [Admins -> Requests]
    BY <1>0, <1>6, <2>2, <2>3 DEF CheckCycle, Become
  <2> QED
    BY <1>0, <1>6, <2>4, SameRowsTyped DEF CheckCycle, tree
<1>7. ASSUME NEW a \in Admins, SetNodeParent(a)
      PROVE  TypeOK'
  <2>1. req[a].node \in Rows /\ req[a].to \in Rows
    BY <1>0, <1>7, RequestShape DEF SetNodeParent
  <2>2. [pc |-> "moved", view |-> view[req[a].node]] \in Requests
    BY <1>0, <2>1 DEF Requests
  <2>3. req' \in [Admins -> Requests']
    BY <1>0, <1>7, <2>2 DEF SetNodeParent, Become, Requests, Rows
  <2>4. parent' \in [Nodes -> Rows \cup {NoNode}] /\ Rows' = Rows
    BY <1>0, <1>7, <2>1 DEF SetNodeParent, Rows
  <2> QED
    BY <1>0, <1>7, <2>3, <2>4 DEF SetNodeParent, TypeOK
<1>8. ASSUME NEW a \in Admins, EmitChange(a)
      PROVE  TypeOK'
  <2>1. req[a].view \in Views
    BY <1>0, <1>8, RequestShape DEF EmitChange
  <2>2. [pc |-> "updated", view |-> req[a].view] \in Requests
    BY <2>1 DEF Requests
  <2>3. bus' \in Seq(Views)
    BY <1>0, <1>8, <2>1, PublishTyped DEF EmitChange
  <2>4. unheard' \subseteq Views
    BY <1>0, <1>8, <2>1 DEF EmitChange
  <2>5. req' \in [Admins -> Requests]
    BY <1>0, <1>8, <2>2 DEF EmitChange, Become
  <2> QED
    BY <1>0, <1>8, <2>3, <2>4, <2>5, SameRowsTyped DEF EmitChange, tree
<1>9. ASSUME NEW a \in Admins, EmitNote(a)
      PROVE  TypeOK'
  <2>1. req[a].view \in Views
    BY <1>0, <1>9, RequestShape DEF EmitNote
  <2>2. bus' \in Seq(Views)
    BY <1>0, <1>9, <2>1, PublishTyped DEF EmitNote
  <2> QED
    BY <1>0, <1>9, <2>2, SameRowsTyped DEF EmitNote, Become, tree
<1>10. ASSUME NEW a \in Admins, CollectSubtree(a)
       PROVE  TypeOK'
  <2>1. req[a] \in [pc : {"collect"}, node : Rows, todo : SUBSET Rows,
                    ids : SUBSET Rows, doomed : SUBSET Rows]
    BY <1>0, <1>10, RequestShape DEF CollectSubtree
  <2>2. PICK c \in req[a].todo :
           Become(a, Collected([req[a] EXCEPT !.todo = (@ \ {c}) \cup Children(c),
                                              !.ids = @ \cup {c}]))
    BY <1>10 DEF CollectSubtree
  <2> DEFINE r == [req[a] EXCEPT !.todo = (@ \ {c}) \cup Children(c),
                                 !.ids = @ \cup {c}]
  <2>3. r \in [pc : {"collect"}, node : Rows, todo : SUBSET Rows,
               ids : SUBSET Rows, doomed : SUBSET Rows]
    BY <2>1, <2>2 DEF Children
  <2> HIDE DEF r
  <2>4. [pc |-> "hide", view |-> view[r.node], ids |-> r.ids, doomed |-> r.doomed]
           \in Requests
    BY <1>0, <2>3 DEF Requests
  <2>5. r \in Requests
    BY <2>3 DEF Requests
  <2>6. Collected(r) \in Requests
    BY <2>4, <2>5 DEF Collected
  <2>7. req' \in [Admins -> Requests]
    BY <1>0, <2>2, <2>6 DEF Become, r
  <2> QED
    BY <1>0, <1>10, <2>7, SameRowsTyped DEF CollectSubtree, tree
<1>11. ASSUME NEW a \in Admins, HideNode(a)
       PROVE  TypeOK'
  <2>1. req[a] \in [pc : {"hide"}, view : Views, ids : SUBSET Rows,
                    doomed : SUBSET Rows]
    BY <1>0, <1>11, RequestShape DEF HideNode
  <2>2. PICK c \in req[a].ids :
           /\ hidden' = hidden \cup {c}
           /\ Become(a, IF req[a].ids # {c} THEN [req[a] EXCEPT !.ids = @ \ {c}]
                        ELSE [pc |-> "deleted", view |-> req[a].view,
                              doomed |-> req[a].doomed])
    BY <1>11 DEF HideNode
  <2>3. [req[a] EXCEPT !.ids = @ \ {c}]
           \in [pc : {"hide"}, view : Views, ids : SUBSET Rows, doomed : SUBSET Rows]
    BY <2>1
  <2>4. [req[a] EXCEPT !.ids = @ \ {c}] \in Requests
    BY <2>3 DEF Requests
  <2>5. [pc |-> "deleted", view |-> req[a].view, doomed |-> req[a].doomed] \in Requests
    BY <2>1 DEF Requests
  <2>6. req' \in [Admins -> Requests]
    BY <1>0, <2>2, <2>4, <2>5 DEF Become
  <2>7. hidden' \subseteq Rows /\ Rows' = Rows /\ Requests' = Requests
    BY <1>0, <1>11, <2>1, <2>2 DEF HideNode, Rows, Requests
  <2> QED
    BY <1>0, <1>11, <2>6, <2>7 DEF HideNode, TypeOK
<1>12. ASSUME NEW a \in Admins, ClientGone(a)
       PROVE  TypeOK'
  BY <1>0, <1>12, SameRowsTyped DEF ClientGone, Become, tree
<1>13. CASE UpdatePath
  <2>1. Head(bus) \in Views /\ Tail(bus) \in Seq(Views)
    BY <1>0, <1>13 DEF UpdatePath
  <2>2. paths' \in [Nodes -> Seq(Nodes)]
    BY <1>0, <1>13 DEF UpdatePath
  <2>3. worker' \in [pc : {"idle", "roots", "walk"}, view : Views \cup {NoView},
                     pending : SUBSET Seq(Nodes)]
    BY <1>13, <2>1 DEF UpdatePath, Resting
  <2> QED
    BY <1>0, <1>13, <2>1, <2>2, <2>3, SameRowsTyped DEF UpdatePath, tree
<1>14. ASSUME NEW ps \in SUBSET Seq(Nodes), Walk(ps)
       PROVE  worker' \in [pc : {"idle", "roots", "walk"}, view : Views \cup {NoView},
                           pending : SUBSET Seq(Nodes)]
  BY <1>0, <1>14 DEF Walk
<1>15. CASE ListRoots
  <2>1. {<<n>> : n \in ListNodesByParent(NoNode)} \in SUBSET Seq(Nodes)
    <3>1. \A n \in Nodes : <<n>> \in Seq(Nodes)
      OBVIOUS
    <3>2. ListNodesByParent(NoNode) \subseteq Nodes
      BY <1>0 DEF ListNodesByParent
    <3> QED
      BY <3>1, <3>2, Zenon
  <2>2. worker' \in [pc : {"idle", "roots", "walk"}, view : Views \cup {NoView},
                     pending : SUBSET Seq(Nodes)]
    BY <1>14, <1>15, <2>1 DEF ListRoots
  <2> QED
    BY <1>0, <1>15, <2>2, SameRowsTyped DEF ListRoots, tree
<1>16. CASE UpdateSubtree
  <2>1. PICK p \in Deepest :
           IF paths[p[Len(p)]] # <<>>
             THEN Walk({}) /\ UNCHANGED paths
             ELSE /\ paths' = [paths EXCEPT ![p[Len(p)]] = p]
                  /\ Walk((worker.pending \ {p})
                        \cup {Append(p, c) : c \in ListNodesByParent(p[Len(p)])})
    BY <1>16 DEF UpdateSubtree
  <2>2. p \in Seq(Nodes) /\ worker.pending \in SUBSET Seq(Nodes)
    BY <1>0 DEF Deepest
  <2>3. {Append(p, c) : c \in ListNodesByParent(p[Len(p)])} \in SUBSET Seq(Nodes)
    <3>1. \A n \in Nodes : Append(p, n) \in Seq(Nodes)
      BY <2>2
    <3>2. ListNodesByParent(p[Len(p)]) \subseteq Nodes
      BY <1>0 DEF ListNodesByParent
    <3> QED
      BY <3>1, <3>2, Zenon
  <2>4. paths' \in [Nodes -> Seq(Nodes)]
    BY <1>0, <2>1, <2>2
  <2>5. worker' \in [pc : {"idle", "roots", "walk"}, view : Views \cup {NoView},
                     pending : SUBSET Seq(Nodes)]
    BY <1>14, <2>1, <2>2, <2>3
  <2> QED
    BY <1>0, <1>16, <2>4, <2>5, SameRowsTyped DEF UpdateSubtree, tree
<1>17. CASE CrashRestart
  BY <1>0, <1>17, SameRowsTyped DEF CrashRestart, tree
<1>18. CASE UNCHANGED vars
  BY <1>0, <1>18, SameRowsTyped DEF vars, tree
<1> QED
  BY <1>1, <1>2, <1>3, <1>4, <1>5, <1>6, <1>7, <1>8, <1>9, <1>10, <1>11, <1>12,
     <1>13, <1>15, <1>16, <1>17, <1>18 DEF Next, Request

LEMMA TypeInit == Init => TypeOK
BY TreeAssumption DEF Init, TypeOK, Nodes, NoNode, Rows, Requests, Resting

\* Every row, request, event and materialized path is of its type: parents are
\* rows, and no request outlives the rows it names.
THEOREM TypeCorrect == Spec => []TypeOK
<1>1. TypeOK /\ [Next]_vars => TypeOK'
  BY TypeStep
<1> QED
  BY TypeInit, <1>1, PTL DEF Spec

-----------------------------------------------------------------------------
(* Acyclicity. *)

\* A step that changes no parent, and whose request is no longer or not yet a
\* move, leaves what the moves under way rely on as it was.
LEMMA NoMoveKeeps ==
    ASSUME OnlyMoversMove, Acyclic, CheckHolds, UNCHANGED <<lastId, parent>>,
           \A a \in Admins :
               req'[a] = req[a] \/ req'[a].pc \notin {"check", "setparent"}
    PROVE  OnlyMoversMove' /\ Acyclic' /\ CheckHolds'
<1>1. OnlyMoversMove'
  BY DEF OnlyMoversMove
<1>2. Acyclic'
  BY DEF Acyclic
<1>3. ASSUME NEW a \in Admins PROVE Climbed(req[a])'
  <2>1. CASE req'[a] = req[a]
    BY <2>1 DEF CheckHolds, Climbed, Rows
  <2>2. CASE req'[a].pc \notin {"check", "setparent"}
    BY <2>2 DEF Climbed
  <2> QED
    BY <2>1, <2>2
<1> QED
  BY <1>1, <1>2, <1>3 DEF CheckHolds

\* A new row is not among the ancestors a walk has seen.
LEMMA InsertKeepsClimbed ==
    ASSUME lastId \in 0 .. MaxNodes, parent \in [Nodes -> Rows \cup {NoNode}],
           NEW r, Climbed(r), NEW v, NEW p, InsertNode(v, p)
    PROVE  Climbed(r)'
<1>1. /\ Rows \subseteq Rows'
      /\ \A n \in Rows : parent'[n] = parent[n]
  BY TreeAssumption DEF InsertNode, Rows, Nodes
<1>2. ASSUME r.pc = "check"
      PROVE  \E U \in SUBSET Rows' :
                 /\ r.node \notin U
                 /\ r.to \in U \cup {r.cur}
                 /\ \A u \in U : parent'[u] \in U \cup {r.cur}
  BY <1>1, <1>2 DEF Climbed
<1>3. ASSUME r.pc = "setparent"
      PROVE  \E U \in SUBSET Rows' :
                 /\ r.node \notin U
                 /\ r.to \in U
                 /\ \A u \in U : parent'[u] \in U \cup {NoNode}
  BY <1>1, <1>3 DEF Climbed
<1> QED
  BY <1>2, <1>3 DEF Climbed

\* Creating a node leaves every request that moves one as it was.
LEMMA InsertKeeps ==
    ASSUME TypeOK, OnlyMoversMove, Acyclic, CheckHolds,
           NEW v, NEW p, InsertNode(v, p),
           \A a \in Admins :
               req'[a] = req[a] \/ req'[a].pc \notin {"check", "setparent"}
    PROVE  OnlyMoversMove' /\ Acyclic' /\ CheckHolds'
<1>1. OnlyMoversMove'
  BY DEF OnlyMoversMove
<1>2. lastId \in 0 .. MaxNodes /\ parent \in [Nodes -> Rows \cup {NoNode}]
  BY DEF TypeOK
<1>3. Acyclic'
  BY <1>2, InsertKeepsAcyclic DEF TreeTyped
<1>4. ASSUME NEW a \in Admins PROVE Climbed(req[a])'
  <2>1. CASE req'[a] = req[a]
    <3> DEFINE r == req[a]
    <3>1. Climbed(r)
      BY DEF CheckHolds
    <3> QED
      BY <1>2, <2>1, <3>1, InsertKeepsClimbed DEF Climbed
  <2>2. CASE req'[a].pc \notin {"check", "setparent"}
    BY <2>2 DEF Climbed
  <2> QED
    BY <2>1, <2>2
<1> QED
  BY <1>1, <1>3, <1>4 DEF CheckHolds

\* With one mover, IInv is inductive.
LEMMA IInvStep ==
    ASSUME SingleMover, IInv, [Next]_vars
    PROVE  IInv'
<1> USE TreeAssumption
<1>0. TypeOK' /\ TypeOK /\ OnlyMoversMove /\ Acyclic /\ CheckHolds
  BY TypeStep DEF IInv
<1>a. req \in [Admins -> Requests]
  BY <1>0 DEF TypeOK
<1> SUFFICES OnlyMoversMove' /\ Acyclic' /\ CheckHolds'
  BY <1>0 DEF IInv
<1>1. ASSUME NEW a \in Admins, NEW v \in Views, NEW p, CreateNode(a, v, p)
      PROVE  OnlyMoversMove' /\ Acyclic' /\ CheckHolds'
  <2>1. \A b \in Admins : req'[b] = req[b] \/ req'[b].pc \notin {"check", "setparent"}
    BY <1>a, <1>1 DEF CreateNode, Become
  <2> QED
    BY <1>0, <1>1, <2>1, InsertKeeps DEF CreateNode
<1>2. ASSUME NEW v \in Views, NEW p, WebDAVCreateNode(v, p)
      PROVE  OnlyMoversMove' /\ Acyclic' /\ CheckHolds'
  BY <1>0, <1>2, InsertKeeps DEF WebDAVCreateNode
<1>3. ASSUME NEW a \in Admins, NEW n \in Nodes, NEW p \in Nodes, MoveNode(a, n, p)
      PROVE  OnlyMoversMove' /\ Acyclic' /\ CheckHolds'
  <2>1. Acyclic'
    BY <1>0, <1>3 DEF MoveNode, Acyclic, tree
  <2>2. OnlyMoversMove'
    BY <1>0, <1>a, <1>3 DEF MoveNode, Become, OnlyMoversMove
  <2>3. ASSUME NEW b \in Admins, b # a PROVE Climbed(req[b])'
    BY <1>0, <1>a, <1>3, <2>3 DEF MoveNode, Become, CheckHolds, Climbed, tree, Rows
  <2>4. Climbed(req[a])'
    <3>1. req'[a] = [pc |-> "check", node |-> n, to |-> p, cur |-> p, depth |-> 0]
      BY <1>a, <1>3 DEF MoveNode, Become
    <3>2. \E U \in SUBSET Rows' :
             n \notin U /\ p \in U \cup {p} /\ \A u \in U : parent'[u] \in U \cup {p}
      <4> WITNESS {} \in SUBSET Rows'
      <4> QED
        OBVIOUS
    <3> QED
      BY <3>1, <3>2 DEF Climbed
  <2> QED
    BY <2>1, <2>2, <2>3, <2>4 DEF CheckHolds
<1>4. ASSUME NEW a \in Admins, CheckCycle(a)
      PROVE  OnlyMoversMove' /\ Acyclic' /\ CheckHolds'
  <2> DEFINE r == req[a]
  <2>1. Acyclic'
    BY <1>0, <1>4 DEF CheckCycle, Acyclic, tree
  <2>2. OnlyMoversMove'
    BY <1>0, <1>a, <1>4 DEF CheckCycle, Become, OnlyMoversMove
  <2>3. ASSUME NEW b \in Admins, b # a PROVE Climbed(req[b])'
    BY <1>0, <1>a, <1>4, <2>3 DEF CheckCycle, Become, CheckHolds, Climbed, tree, Rows
  <2>4. Climbed(req[a])'
    <3>1. r \in [pc : {"check"}, node : Rows, to : Rows, cur : Rows,
                 depth : 0 .. MaxTreeDepth]
      BY <1>a, <1>4, RequestShape DEF CheckCycle
    <3>2. PICK U \in SUBSET Rows :
             /\ r.node \notin U
             /\ r.to \in U \cup {r.cur}
             /\ \A u \in U : parent[u] \in U \cup {r.cur}
      BY <1>0, <3>1 DEF CheckHolds, Climbed
    <3>3. Rows' = Rows /\ parent' = parent
      BY <1>4 DEF CheckCycle, tree, Rows
    <3> DEFINE V == U \cup {r.cur}
    <3>4. V \in SUBSET Rows /\ r.to \in V
      BY <3>1, <3>2
    <3>5. CASE r.depth = MaxTreeDepth \/ r.cur = r.node
      BY <1>a, <1>4, <3>5 DEF CheckCycle, Become, Climbed, Idle
    <3>6. CASE ~(r.depth = MaxTreeDepth \/ r.cur = r.node) /\ parent[r.cur] = NoNode
      <4>1. req'[a] = [pc |-> "setparent", node |-> r.node, to |-> r.to]
        BY <1>a, <1>4, <3>6 DEF CheckCycle, Become
      <4>2. r.node \notin V /\ \A u \in V : parent[u] \in V \cup {NoNode}
        BY <3>2, <3>6
      <4> HIDE DEF V
      <4>3. \E W \in SUBSET Rows' :
               r.node \notin W /\ r.to \in W /\ \A u \in W : parent'[u] \in W \cup {NoNode}
        BY <3>3, <3>4, <4>2
      <4> QED
        BY <4>1, <4>3 DEF Climbed
    <3>7. CASE ~(r.depth = MaxTreeDepth \/ r.cur = r.node) /\ parent[r.cur] # NoNode
      <4>1. req'[a] = [r EXCEPT !.cur = parent[r.cur], !.depth = @ + 1]
        BY <1>a, <1>4, <3>7 DEF CheckCycle, Become
      <4>2. req'[a].pc = "check" /\ req'[a].node = r.node /\ req'[a].to = r.to
            /\ req'[a].cur = parent[r.cur]
        BY <3>1, <4>1
      <4>3. r.node \notin V /\ \A u \in V : parent[u] \in V \cup {parent[r.cur]}
        BY <3>2, <3>7
      <4> HIDE DEF V
      <4>4. \E W \in SUBSET Rows' :
               /\ r.node \notin W
               /\ r.to \in W \cup {parent[r.cur]}
               /\ \A u \in W : parent'[u] \in W \cup {parent[r.cur]}
        BY <3>3, <3>4, <4>3
      <4> QED
        BY <4>2, <4>4 DEF Climbed
    <3> QED
      BY <3>5, <3>6, <3>7
  <2> QED
    BY <2>1, <2>2, <2>3, <2>4 DEF CheckHolds
<1>5. ASSUME NEW a \in Admins, SetNodeParent(a)
      PROVE  OnlyMoversMove' /\ Acyclic' /\ CheckHolds'
  <2> DEFINE r == req[a]
  <2>1. r \in [pc : {"setparent"}, node : Rows, to : Rows]
    BY <1>a, <1>5, RequestShape DEF SetNodeParent
  <2>2. PICK U \in SUBSET Rows :
           /\ r.node \notin U
           /\ r.to \in U
           /\ \A u \in U : parent[u] \in U \cup {NoNode}
    BY <1>0, <2>1 DEF CheckHolds, Climbed
  <2>3. Rows \subseteq Nodes /\ TreeTyped
    BY <1>0 DEF TypeOK, TreeTyped, Rows, Nodes
  <2>4. Acyclic'
    BY <1>0, <1>5, <2>1, <2>2, <2>3, MoveKeepsAcyclic DEF SetNodeParent
  <2>5. \A b \in Admins : req'[b] = req[b] \/ req'[b].pc \notin {"check", "setparent"}
    BY <1>a, <1>5 DEF SetNodeParent, Become
  <2>6. OnlyMoversMove'
    BY <1>0, <2>5 DEF OnlyMoversMove
  <2>7. ASSUME NEW b \in Admins PROVE req'[b].pc \notin {"check", "setparent"}
    <3>1. a \in Movers
      BY <1>0, <1>5 DEF OnlyMoversMove, SetNodeParent
    <3>2. CASE b = a
      BY <1>a, <1>5, <3>2 DEF SetNodeParent, Become
    <3>3. CASE b # a
      BY <1>0, <1>5, <2>5, <3>1, <3>3 DEF OnlyMoversMove, SingleMover
    <3> QED
      BY <3>2, <3>3
  <2> QED
    BY <2>4, <2>6, <2>7 DEF CheckHolds, Climbed
<1>6. ASSUME UNCHANGED <<lastId, parent>>,
             \A b \in Admins :
                 req'[b] = req[b] \/ req'[b].pc \notin {"check", "setparent"}
      PROVE  OnlyMoversMove' /\ Acyclic' /\ CheckHolds'
  BY <1>0, <1>6, NoMoveKeeps
<1>7. ASSUME NEW a \in Admins, NEW n \in Nodes, UpdateNode(a, n) \/ SoftDeleteNode(a, n)
      PROVE  OnlyMoversMove' /\ Acyclic' /\ CheckHolds'
  BY <1>a, <1>6, <1>7 DEF UpdateNode, SoftDeleteNode, Become, tree
<1>8. ASSUME NEW a \in Admins, EmitChange(a) \/ EmitNote(a)
      PROVE  OnlyMoversMove' /\ Acyclic' /\ CheckHolds'
  BY <1>a, <1>6, <1>8 DEF EmitChange, EmitNote, Become, Idle, tree
<1>9. ASSUME NEW a \in Admins, CollectSubtree(a)
      PROVE  OnlyMoversMove' /\ Acyclic' /\ CheckHolds'
  <2>1. req[a] \in [pc : {"collect"}, node : Rows, todo : SUBSET Rows,
                    ids : SUBSET Rows, doomed : SUBSET Rows]
    BY <1>a, <1>9, RequestShape DEF CollectSubtree
  <2>2. \A b \in Admins : req'[b] = req[b] \/ req'[b].pc \notin {"check", "setparent"}
    BY <1>a, <1>9, <2>1 DEF CollectSubtree, Collected, Become
  <2> QED
    BY <1>6, <1>9, <2>2 DEF CollectSubtree, tree
<1>10. ASSUME NEW a \in Admins, HideNode(a)
       PROVE  OnlyMoversMove' /\ Acyclic' /\ CheckHolds'
  <2>1. req[a] \in [pc : {"hide"}, view : Views, ids : SUBSET Rows,
                    doomed : SUBSET Rows]
    BY <1>a, <1>10, RequestShape DEF HideNode
  <2>2. \A b \in Admins : req'[b] = req[b] \/ req'[b].pc \notin {"check", "setparent"}
    BY <1>a, <1>10, <2>1 DEF HideNode, Become
  <2> QED
    BY <1>6, <1>10, <2>2 DEF HideNode
<1>11. ASSUME NEW a \in Admins, ClientGone(a)
       PROVE  OnlyMoversMove' /\ Acyclic' /\ CheckHolds'
  BY <1>a, <1>6, <1>11 DEF ClientGone, Become, Idle, tree
<1>12. CASE UpdatePath \/ ListRoots \/ UpdateSubtree
  BY <1>6, <1>12 DEF UpdatePath, ListRoots, UpdateSubtree, tree
<1>13. CASE CrashRestart
  BY <1>6, <1>13 DEF CrashRestart, Idle, tree
<1>14. CASE UNCHANGED vars
  BY <1>6, <1>14 DEF vars, tree
<1> QED
  BY <1>1, <1>2, <1>3, <1>4, <1>5, <1>7, <1>8, <1>9, <1>10, <1>11, <1>12, <1>13,
     <1>14 DEF Next, Request

LEMMA IInvInit == Init => IInv
<1> SUFFICES ASSUME Init PROVE IInv
  OBVIOUS
<1>1. TypeOK
  BY TypeInit
<1>2. OnlyMoversMove /\ CheckHolds
  BY DEF Init, Idle, OnlyMoversMove, CheckHolds, Climbed
<1>3. Acyclic
  <2> SUFFICES ASSUME NEW S \in SUBSET Nodes, S # {}
               PROVE  \E n \in S : parent[n] \notin S
    BY DEF Acyclic
  <2>1. PICK n \in S : n \in Nodes
    OBVIOUS
  <2>2. parent[n] = 0 /\ 0 \notin S
    BY TreeAssumption, <2>1 DEF Init, Nodes, NoNode
  <2> QED
    BY <2>1, <2>2
<1> QED
  BY <1>1, <1>2, <1>3 DEF IInv

\* MoveNode "rejects moves that would create a cycle", however many admins
\* create, rename and delete meanwhile, while at most one of them moves nodes.
THEOREM TreesStayTrees ==
    ASSUME SingleMover
    PROVE  Spec => []Acyclic
<1>1. IInv /\ [Next]_vars => IInv'
  BY IInvStep
<1>2. IInv => Acyclic
  BY DEF IInv
<1> QED
  BY IInvInit, <1>1, <1>2, PTL DEF Spec

-----------------------------------------------------------------------------
(* The cascade of a deletion. *)

\* All that was below the node when its deletion began can be reached from it
\* through nodes that were.
Reaches(r) ==
    \A S \in SUBSET Rows :
        (r.node \in S /\ \A k \in S : Children(k) \cap r.doomed \subseteq S)
            => r.doomed \subseteq S

\* How far a deletion has come: what the walk has expanded leads to nothing
\* that is not collected or to do, and what is not yet hidden is collected.
Cascading(r) ==
    /\ r.pc = "collect" =>
          /\ Reaches(r)
          /\ r.node \in r.ids \cup r.todo
          /\ \A k \in r.ids : Children(k) \cap r.doomed \subseteq r.ids \cup r.todo
    /\ r.pc = "hide" => r.doomed \subseteq hidden \cup r.ids
    /\ r.pc = "deleted" => r.doomed \subseteq hidden

CascadeInv == TypeOK /\ \A a \in Admins : Cascading(req[a])

\* No move is about to be written while a deletion collects its subtree.
Undisturbed ==
    \A a, b \in Admins : req[a].pc = "setparent" => req[b].pc # "collect"

\* Below is closed under Children, so a deletion starts with Reaches.
LEMMA BelowReaches ==
    ASSUME NEW n \in Rows, NEW r, r.node = n, r.doomed = Below(n)
    PROVE  Reaches(r)
<1> SUFFICES ASSUME NEW S \in SUBSET Rows, n \in S,
                    \A k \in S : Children(k) \cap Below(n) \subseteq S
             PROVE  Below(n) \subseteq S
  BY DEF Reaches
<1> DEFINE T == S \cap Below(n)
<1>1. n \in Below(n)
  BY DEF Below
<1>2. ASSUME NEW k \in Below(n) PROVE Children(k) \subseteq Below(n)
  BY <1>2 DEF Below, Children
<1>3. T \in SUBSET Rows /\ n \in T /\ \A k \in T : Children(k) \subseteq T
  BY <1>1, <1>2
<1> HIDE DEF T
<1>4. Below(n) \subseteq T
  BY <1>3 DEF Below
<1> QED
  BY <1>4 DEF T

\* A step that changes no parent does not set a deletion back.
LEMMA SameTreeCascading ==
    ASSUME NEW r, Cascading(r), UNCHANGED <<lastId, parent>>, hidden \subseteq hidden'
    PROVE  Cascading(r)'
<1>1. Reaches(r)' <=> Reaches(r)
  BY DEF Reaches, Children, Rows
<1>2. \A k : Children(k)' = Children(k)
  BY DEF Children, Rows
<1> QED
  BY <1>1, <1>2 DEF Cascading

\* What holds of the request an admin has after a step holds of req'.
LEMMA NowCascading ==
    ASSUME NEW a, NEW r, req'[a] = r, Cascading(r)'
    PROVE  Cascading(req[a])'
BY DEF Cascading, Reaches

\* A row that is new is not among the doomed.
LEMMA InsertCascading ==
    ASSUME TypeOK, NEW r \in Requests, Cascading(r), NEW v, NEW p, InsertNode(v, p)
    PROVE  Cascading(r)'
<1>1. /\ Rows' = Rows \cup {lastId + 1} /\ lastId + 1 \notin Rows
      /\ \A n \in Rows : parent'[n] = parent[n]
      /\ hidden' = hidden
  BY TreeAssumption DEF InsertNode, Rows, Nodes, TypeOK
<1>2. CASE r.pc = "collect"
  <2>1. r.doomed \subseteq Rows /\ r.ids \subseteq Rows
    BY <1>2, RequestShape
  <2>2. ASSUME NEW k PROVE Children(k)' \cap r.doomed = Children(k) \cap r.doomed
    BY <1>1, <2>1 DEF Children
  <2>3. ASSUME NEW S \in SUBSET Rows', r.node \in S,
               \A k \in S : Children(k)' \cap r.doomed \subseteq S
        PROVE  r.doomed \subseteq S
    <3> DEFINE T == S \cap Rows
    <3>1. r.node \in T
      BY <1>2, <2>3, RequestShape
    <3>2. ASSUME NEW k \in T PROVE Children(k) \cap r.doomed \subseteq T
      BY <2>1, <2>2, <2>3
    <3>3. T \in SUBSET Rows
      OBVIOUS
    <3> HIDE DEF T
    <3>4. r.doomed \subseteq T
      BY <1>2, <3>1, <3>2, <3>3 DEF Cascading, Reaches
    <3> QED
      BY <3>4 DEF T
  <2>4. Reaches(r)'
    BY <2>3 DEF Reaches
  <2> QED
    BY <1>2, <2>2, <2>4 DEF Cascading
<1>3. CASE r.pc # "collect"
  BY <1>1, <1>3 DEF Cascading
<1> QED
  BY <1>2, <1>3

\* One query of collectSubtreeIDs.
LEMMA CollectCascading ==
    ASSUME CascadeInv, NEW a \in Admins, CollectSubtree(a)
    PROVE  Cascading(req[a])'
<1>0. req \in [Admins -> Requests] /\ Cascading(req[a])
  BY DEF CascadeInv, TypeOK
<1>1. /\ req[a].pc = "collect"
      /\ req[a] \in [pc : {"collect"}, node : Rows, todo : SUBSET Rows,
                     ids : SUBSET Rows, doomed : SUBSET Rows]
  BY <1>0, RequestShape DEF CollectSubtree
<1>2. PICK c \in req[a].todo :
         Become(a, Collected([req[a] EXCEPT !.todo = (@ \ {c}) \cup Children(c),
                                            !.ids = @ \cup {c}]))
  BY DEF CollectSubtree
<1> DEFINE r == [req[a] EXCEPT !.todo = (@ \ {c}) \cup Children(c),
                               !.ids = @ \cup {c}]
<1>3. /\ r.pc = "collect" /\ r.node = req[a].node /\ r.doomed = req[a].doomed
      /\ r.todo = (req[a].todo \ {c}) \cup Children(c)
      /\ r.ids = req[a].ids \cup {c}
      /\ r.ids \subseteq Rows
  BY <1>1, <1>2
<1>4. req'[a] = Collected(r) /\ UNCHANGED <<lastId, parent, hidden>>
  BY <1>0, <1>2 DEF Become, CollectSubtree, tree
<1> HIDE DEF r
<1>5. Reaches(r) /\ r.node \in r.ids \cup r.todo
  BY <1>0, <1>1, <1>3 DEF Cascading, Reaches
<1>6. \A k \in r.ids : Children(k) \cap r.doomed \subseteq r.ids \cup r.todo
  BY <1>0, <1>1, <1>3 DEF Cascading
<1>7. Cascading(Collected(r))
  <2>1. CASE r.todo # {}
    BY <1>3, <1>5, <1>6, <2>1 DEF Cascading, Collected
  <2>2. CASE r.todo = {}
    <3>1. r.doomed \subseteq r.ids
      BY <1>3, <1>5, <1>6, <2>2 DEF Reaches
    <3> DEFINE h == [pc |-> "hide", view |-> view[r.node], ids |-> r.ids,
                     doomed |-> r.doomed]
    <3>2. Collected(r) = h
      BY <2>2 DEF Collected
    <3>3. Cascading(h)
      BY <3>1 DEF Cascading
    <3> QED
      BY <3>2, <3>3
  <2> QED
    BY <2>1, <2>2
<1>8. PICK q : q = Collected(r)
  OBVIOUS
<1>9. Cascading(q)'
  BY <1>4, <1>7, <1>8, SameTreeCascading
<1> QED
  BY <1>4, <1>8, <1>9, NowCascading

\* One UPDATE of SoftDeleteNodeCascade.
LEMMA HideCascading ==
    ASSUME CascadeInv, NEW a \in Admins, HideNode(a)
    PROVE  Cascading(req[a])'
<1>0. req \in [Admins -> Requests] /\ Cascading(req[a])
  BY DEF CascadeInv, TypeOK
<1>1. /\ req[a].pc = "hide"
      /\ req[a] \in [pc : {"hide"}, view : Views, ids : SUBSET Rows,
                     doomed : SUBSET Rows]
  BY <1>0, RequestShape DEF HideNode
<1>2. PICK c \in req[a].ids :
         /\ hidden' = hidden \cup {c}
         /\ Become(a, IF req[a].ids # {c} THEN [req[a] EXCEPT !.ids = @ \ {c}]
                      ELSE [pc |-> "deleted", view |-> req[a].view,
                            doomed |-> req[a].doomed])
  BY DEF HideNode
<1>3. req[a].doomed \subseteq hidden \cup req[a].ids
  BY <1>0, <1>1 DEF Cascading
<1>4. CASE req[a].ids # {c}
  <2>1. req'[a] = [req[a] EXCEPT !.ids = @ \ {c}]
    BY <1>0, <1>2, <1>4 DEF Become
  <2>2. /\ req'[a].pc = "hide" /\ req'[a].doomed = req[a].doomed
        /\ req'[a].ids = req[a].ids \ {c}
    BY <1>1, <2>1
  <2> QED
    BY <1>2, <1>3, <2>2 DEF Cascading
<1>5. CASE req[a].ids = {c}
  <2>1. req'[a] = [pc |-> "deleted", view |-> req[a].view, doomed |-> req[a].doomed]
    BY <1>0, <1>2, <1>5 DEF Become
  <2>2. req'[a].pc = "deleted" /\ req'[a].doomed = req[a].doomed
    BY <2>1
  <2> QED
    BY <1>2, <1>3, <1>5, <2>2 DEF Cascading
<1> QED
  BY <1>4, <1>5

\* CascadeInv is inductive while nothing is moved under a walk's feet.
LEMMA CascadeStep ==
    ASSUME CascadeInv, Undisturbed, [Next]_vars
    PROVE  CascadeInv'
<1>0. TypeOK /\ TypeOK' /\ req \in [Admins -> Requests]
      /\ \A b \in Admins : Cascading(req[b])
  BY TypeStep DEF CascadeInv, TypeOK
<1> SUFFICES ASSUME NEW b \in Admins PROVE Cascading(req[b])'
  BY <1>0 DEF CascadeInv
<1>a. PICK r : r = req[b]
  OBVIOUS
<1>b. Cascading(r) /\ r \in Requests
  BY <1>0, <1>a
<1>c. ASSUME req'[b].pc \notin {"collect", "hide", "deleted"}
      PROVE  Cascading(req[b])'
  BY <1>c DEF Cascading
<1>d. ASSUME req'[b] = req[b], UNCHANGED <<lastId, parent>>, hidden \subseteq hidden'
      PROVE  Cascading(req[b])'
  BY <1>a, <1>b, <1>d, SameTreeCascading, NowCascading
<1>1. ASSUME NEW a \in Admins, NEW v \in Views, NEW p, CreateNode(a, v, p)
      PROVE  Cascading(req[b])'
  <2>1. CASE b = a
    BY <1>0, <1>c, <1>1, <2>1 DEF CreateNode, Become
  <2>2. CASE b # a
    <3>1. req'[b] = r
      BY <1>0, <1>a, <1>1, <2>2 DEF CreateNode, Become
    <3> QED
      BY <1>0, <1>b, <1>1, <3>1, InsertCascading, NowCascading DEF CreateNode
  <2> QED
    BY <2>1, <2>2
<1>2. ASSUME NEW v \in Views, NEW p, WebDAVCreateNode(v, p)
      PROVE  Cascading(req[b])'
  BY <1>0, <1>a, <1>b, <1>2, InsertCascading, NowCascading DEF WebDAVCreateNode
<1>3. ASSUME NEW a \in Admins, NEW n \in Nodes, UpdateNode(a, n)
      PROVE  Cascading(req[b])'
  BY <1>0, <1>c, <1>d, <1>3 DEF UpdateNode, Become, tree
<1>4. ASSUME NEW a \in Admins, NEW n \in Nodes, SoftDeleteNode(a, n)
      PROVE  Cascading(req[b])'
  <2>1. CASE b = a
    <3> DEFINE start == [pc |-> "collect", node |-> n, todo |-> {n}, ids |-> {},
                         doomed |-> Below(n)]
    <3>1. PICK q : q = start
      OBVIOUS
    <3>2. /\ q.pc = "collect" /\ q.node = n /\ q.todo = {n} /\ q.ids = {}
          /\ q.doomed = Below(n) /\ n \in Rows
      BY <1>4, <3>1 DEF SoftDeleteNode
    <3>3. Reaches(q)
      BY <3>2, BelowReaches
    <3>4. Cascading(q)
      BY <3>2, <3>3 DEF Cascading
    <3>5. req'[b] = q /\ UNCHANGED <<lastId, parent, hidden>>
      BY <1>0, <1>4, <2>1, <3>1 DEF SoftDeleteNode, Become, tree
    <3> QED
      BY <3>4, <3>5, SameTreeCascading, NowCascading
  <2>2. CASE b # a
    BY <1>0, <1>d, <1>4, <2>2 DEF SoftDeleteNode, Become, tree
  <2> QED
    BY <2>1, <2>2
<1>5. ASSUME NEW a \in Admins, NEW n \in Nodes, NEW p \in Nodes, MoveNode(a, n, p)
      PROVE  Cascading(req[b])'
  BY <1>0, <1>c, <1>d, <1>5 DEF MoveNode, Become, tree
<1>6. ASSUME NEW a \in Admins, CheckCycle(a)
      PROVE  Cascading(req[b])'
  <2>1. CASE b = a
    <3>1. req[a] \in [pc : {"check"}, node : Rows, to : Rows, cur : Rows,
                      depth : 0 .. MaxTreeDepth]
      BY <1>0, <1>6, RequestShape DEF CheckCycle
    <3>2. req'[a].pc \in {"idle", "setparent", "check"}
      BY <1>0, <1>6, <3>1 DEF CheckCycle, Become, Idle
    <3> QED
      BY <1>c, <2>1, <3>2
  <2>2. CASE b # a
    BY <1>0, <1>d, <1>6, <2>2 DEF CheckCycle, Become, tree
  <2> QED
    BY <2>1, <2>2
<1>7. ASSUME NEW a \in Admins, SetNodeParent(a)
      PROVE  Cascading(req[b])'
  <2>1. CASE b = a
    BY <1>0, <1>c, <1>7, <2>1 DEF SetNodeParent, Become
  <2>2. CASE b # a
    <3>1. req'[b] = req[b] /\ req[b].pc # "collect" /\ hidden' = hidden
      BY <1>0, <1>7, <2>2 DEF SetNodeParent, Become, Undisturbed
    <3> QED
      BY <1>0, <3>1 DEF Cascading
  <2> QED
    BY <2>1, <2>2
<1>8. ASSUME NEW a \in Admins, CollectSubtree(a)
      PROVE  Cascading(req[b])'
  <2>1. CASE b = a
    BY <1>8, <2>1, CollectCascading
  <2>2. CASE b # a
    BY <1>0, <1>d, <1>8, <2>2 DEF CollectSubtree, Become, tree
  <2> QED
    BY <2>1, <2>2
<1>9. ASSUME NEW a \in Admins, HideNode(a)
      PROVE  Cascading(req[b])'
  <2>1. CASE b = a
    BY <1>9, <2>1, HideCascading
  <2>2. CASE b # a
    BY <1>0, <1>d, <1>9, <2>2 DEF HideNode, Become
  <2> QED
    BY <2>1, <2>2
<1>10. ASSUME NEW a \in Admins, EmitChange(a) \/ EmitNote(a)
       PROVE  Cascading(req[b])'
  BY <1>0, <1>c, <1>d, <1>10 DEF EmitChange, EmitNote, Become, Idle, tree
<1>11. ASSUME NEW a \in Admins, ClientGone(a)
       PROVE  Cascading(req[b])'
  BY <1>0, <1>c, <1>d, <1>11 DEF ClientGone, Become, Idle, tree
<1>12. CASE UpdatePath \/ ListRoots \/ UpdateSubtree
  BY <1>d, <1>12 DEF UpdatePath, ListRoots, UpdateSubtree, tree
<1>13. CASE CrashRestart
  BY <1>c, <1>13 DEF CrashRestart, Idle
<1>14. CASE UNCHANGED vars
  BY <1>d, <1>14 DEF vars, tree
<1> QED
  BY <1>1, <1>2, <1>3, <1>4, <1>5, <1>6, <1>7, <1>8, <1>9, <1>10, <1>11, <1>12,
     <1>13, <1>14 DEF Next, Request

LEMMA CascadeInit == Init => CascadeInv
BY TypeInit DEF Init, CascadeInv, Cascading, Idle

\* SoftDeleteNode "marks a node and all of its descendants as 'hidden'": however
\* many rows are created below the node meanwhile, and whatever other admins
\* rename or delete, all that was below it when the request began is hidden
\* when it ends, as long as no move is written while the subtree is collected.
THEOREM DeletionHidesAll == Spec /\ []Undisturbed => []CascadeComplete
<1>1. CascadeInv /\ Undisturbed /\ [Next]_vars => CascadeInv'
  BY CascadeStep
<1>2. CascadeInv => CascadeComplete
  BY DEF CascadeInv, Cascading, CascadeComplete
<1> QED
  BY CascadeInit, <1>1, <1>2, PTL DEF Spec

\* A single admin, with uploads over WebDAV and crashes besides, never disturbs
\* a deletion: the request is the only one that could move a node.
THEOREM OneAdminDeletesAll ==
    ASSUME \A a, b \in Admins : a = b
    PROVE  Spec => []CascadeComplete
<1>1. Undisturbed
  BY DEF Undisturbed
<1> QED
  BY <1>1, DeletionHidesAll, PTL

-----------------------------------------------------------------------------
(* The path index. *)

RowsOf(v) == {n \in Rows : view[n] = v}

Last(p) == p[Len(p)]

\* The walk of v's tree comes to n once n's parent has its path.
Met(v, n) ==
    parent[n] = NoNode \/ (view[parent[n]] = v /\ paths[parent[n]] # <<>>)

\* The path of n that follows from its parent's.
PathOf(n) ==
    IF parent[n] = NoNode THEN <<n>> ELSE Append(paths[parent[n]], n)

\* The worker has a view while it is busy, and walks only nodes of that view.
WorkerOwn ==
    /\ worker.pc = "idle" <=> worker.view = NoView
    /\ worker.pc = "walk" =>
          \A p \in worker.pending : p # <<>> /\ Last(p) \in RowsOf(worker.view)

\* The walk of an unchanged tree: what is written is right, and what is met
\* and not written is pending, with the right path, once.
WalkRight(v, ps) ==
    /\ \A n \in RowsOf(v) : paths[n] # <<>> => Met(v, n) /\ paths[n] = PathOf(n)
    /\ \A p \in ps :
          paths[Last(p)] = <<>> /\ Met(v, Last(p)) /\ p = PathOf(Last(p))
    /\ \A n \in RowsOf(v) :
          Met(v, n) /\ paths[n] = <<>> => \E p \in ps : Last(p) = n

Rebuilding(v) ==
    /\ worker.pc = "roots" => \A n \in RowsOf(v) : paths[n] = <<>>
    /\ worker.pc = "walk" => WalkRight(v, worker.pending)

\* There is a change of v that the worker has yet to hear of, or never will.
Stale(v) == v \in unheard \/ Queued(v) \/ Owed(v)

IndexRight(v) == IF worker.view = v THEN Rebuilding(v) ELSE PathsRight(v)

IndexInv ==
    /\ TypeOK
    /\ WorkerOwn
    /\ \A v \in Views : Stale(v) \/ IndexRight(v)

\* What the steps of the worker need of the types.
LEMMA IndexTypes ==
    ASSUME TypeOK
    PROVE  /\ lastId \in Nat /\ Rows \subseteq Nodes /\ NoNode \notin Rows
           /\ \A n \in Rows : view[n] \in Views
           /\ \A n \in Nodes : parent[n] \in Rows \cup {NoNode}
           /\ parent \in [Nodes -> Rows \cup {NoNode}]
           /\ paths \in [Nodes -> Seq(Nodes)]
           /\ bus \in Seq(Views)
           /\ worker \in [pc : {"idle", "roots", "walk"}, view : Views \cup {NoView},
                          pending : SUBSET Seq(Nodes)]
           /\ req \in [Admins -> Requests]
BY TreeAssumption DEF TypeOK, Rows, Nodes, NoNode

\* Whether the index of v is right depends only on v's rows, their parents and
\* their paths.
SameRowsOf(v) ==
    /\ RowsOf(v)' = RowsOf(v)
    /\ \A n \in RowsOf(v) : parent'[n] = parent[n] /\ paths'[n] = paths[n]
    /\ \A n \in Rows : view'[n] = view[n]

LEMMA MetFrame ==
    ASSUME NEW v \in Views, TypeOK, SameRowsOf(v), NEW n \in RowsOf(v)
    PROVE  /\ Met(v, n)' <=> Met(v, n)
           /\ Met(v, n) => PathOf(n)' = PathOf(n)
           /\ parent[n] # NoNode => (view'[parent[n]] = v <=> view[parent[n]] = v)
           /\ parent[n] # NoNode /\ view[parent[n]] = v
                => paths'[parent[n]] = paths[parent[n]]
<1>0. Rows \subseteq Nodes /\ NoNode \notin Rows
      /\ \A m \in Nodes : parent[m] \in Rows \cup {NoNode}
  BY IndexTypes
<1> QED
  BY <1>0 DEF Met, PathOf, RowsOf, SameRowsOf

LEMMA PathsRightFrame ==
    ASSUME NEW v \in Views, TypeOK, PathsRight(v), SameRowsOf(v)
    PROVE  PathsRight(v)'
<1>1. ASSUME NEW n \in RowsOf(v)
      PROVE  paths'[n] = IF parent'[n] = NoNode THEN <<n>>
                 ELSE IF view'[parent'[n]] = v /\ paths'[parent'[n]] # <<>>
                   THEN Append(paths'[parent'[n]], n)
                 ELSE <<>>
  <2>1. paths[n] = IF parent[n] = NoNode THEN <<n>>
                 ELSE IF view[parent[n]] = v /\ paths[parent[n]] # <<>>
                   THEN Append(paths[parent[n]], n)
                 ELSE <<>>
    BY DEF PathsRight, RowsOf
  <2> QED
    BY <2>1, MetFrame DEF SameRowsOf
<1> QED
  BY <1>1 DEF PathsRight, RowsOf, SameRowsOf

LEMMA RebuildingFrame ==
    ASSUME NEW v \in Views, TypeOK, WorkerOwn, worker.view = v, Rebuilding(v),
           SameRowsOf(v), worker' = worker
    PROVE  Rebuilding(v)'
<1>1. worker.pc = "roots" => \A n \in RowsOf(v)' : paths'[n] = <<>>
  BY DEF Rebuilding, SameRowsOf
<1>2. ASSUME worker.pc = "walk" PROVE WalkRight(v, worker.pending)'
  <2>1. ASSUME NEW n \in RowsOf(v)', paths'[n] # <<>>
        PROVE  Met(v, n)' /\ paths'[n] = PathOf(n)'
    BY <1>2, <2>1, MetFrame DEF Rebuilding, WalkRight, SameRowsOf
  <2>2. ASSUME NEW p \in worker.pending, NEW l, l = Last(p)
        PROVE  paths'[l] = <<>> /\ Met(v, l)' /\ p = PathOf(l)'
    <3>1. l \in RowsOf(v)
      BY <1>2, <2>2 DEF WorkerOwn
    <3>2. paths[l] = <<>> /\ Met(v, l) /\ p = PathOf(l)
      BY <1>2, <2>2 DEF Rebuilding, WalkRight
    <3> QED
      BY <3>1, <3>2, MetFrame DEF SameRowsOf
  <2>3. ASSUME NEW n \in RowsOf(v)', Met(v, n)', paths'[n] = <<>>
        PROVE  \E p \in worker.pending : Last(p) = n
    BY <1>2, <2>3, MetFrame DEF Rebuilding, WalkRight, SameRowsOf
  <2> QED
    BY <2>1, <2>2, <2>3 DEF WalkRight
<1> QED
  BY <1>1, <1>2 DEF Rebuilding

\* A step that leaves the worker and the rows of v as they are.
LEMMA IndexRightFrame ==
    ASSUME NEW v \in Views, TypeOK, WorkerOwn, IndexRight(v), SameRowsOf(v),
           worker' = worker
    PROVE  IndexRight(v)'
BY PathsRightFrame, RebuildingFrame DEF IndexRight

\* When nothing is pending the index is right.
LEMMA WalkDone ==
    ASSUME NEW v \in Views, TypeOK', WalkRight(v, {})'
    PROVE  PathsRight(v)'
<1> SUFFICES ASSUME NEW n \in Rows', view'[n] = v
             PROVE  paths'[n] = IF parent'[n] = NoNode THEN <<n>>
                        ELSE IF view'[parent'[n]] = v /\ paths'[parent'[n]] # <<>>
                          THEN Append(paths'[parent'[n]], n)
                        ELSE <<>>
  BY DEF PathsRight
<1>1. n \in RowsOf(v)'
  BY DEF RowsOf
<1>2. paths'[n] # <<>> => Met(v, n)' /\ paths'[n] = PathOf(n)'
  BY <1>1 DEF WalkRight
<1>3. Met(v, n)' => paths'[n] # <<>>
  BY <1>1 DEF WalkRight
<1> QED
  BY <1>2, <1>3 DEF Met, PathOf

LEMMA LastOfAppend ==
    ASSUME NEW p \in Seq(Nodes), NEW c \in Nodes
    PROVE  /\ Append(p, c) # <<>> /\ Last(Append(p, c)) = c
           /\ <<c>> # <<>> /\ Last(<<c>>) = c
BY DEF Last

\* A walk goes on with what is pending, or is over.
LEMMA WalkOn ==
    ASSUME TypeOK, TypeOK', NEW v \in Views, worker.view = v, NEW ps, Walk(ps),
           WalkRight(v, ps)'
    PROVE  IndexRight(v)'
<1>1. worker \in [pc : {"idle", "roots", "walk"}, view : Views \cup {NoView},
                  pending : SUBSET Seq(Nodes)]
  BY IndexTypes
<1>2. CASE ps = {}
  <2>1. worker'.view # v
    BY <1>2, TreeAssumption DEF Walk, Resting
  <2> QED
    BY <1>2, <2>1, WalkDone DEF IndexRight
<1>3. CASE ps # {}
  <2>1. worker'.view = v /\ worker'.pc = "walk" /\ worker'.pending = ps
    BY <1>1, <1>3 DEF Walk
  <2> QED
    BY <2>1 DEF IndexRight, Rebuilding
<1> QED
  BY <1>2, <1>3

\* The worker stays with the nodes of its view.
LEMMA WalkOwn ==
    ASSUME TypeOK, worker.view \in Views, NEW ps, Walk(ps), UNCHANGED tree,
           \A p \in ps : p # <<>> /\ Last(p) \in RowsOf(worker.view)
    PROVE  WorkerOwn' /\ worker'.view \in {worker.view, NoView}
<1>1. worker \in [pc : {"idle", "roots", "walk"}, view : Views \cup {NoView},
                  pending : SUBSET Seq(Nodes)]
  BY IndexTypes
<1>2. CASE ps = {}
  BY <1>2 DEF Walk, Resting, WorkerOwn
<1>3. CASE ps # {}
  <2>1. worker'.view = worker.view /\ worker'.pc = "walk" /\ worker'.pending = ps
    BY <1>1, <1>3 DEF Walk
  <2>2. worker'.view # NoView
    BY <2>1, TreeAssumption
  <2>3. RowsOf(worker.view)' = RowsOf(worker.view)
    BY <2>1 DEF RowsOf, Rows, tree
  <2> QED
    BY <2>1, <2>2, <2>3 DEF WorkerOwn
<1> QED
  BY <1>2, <1>3

\* updateSubtree comes to a node for the first time, and leaves the walk right.
LEMMA VisitRight ==
    ASSUME TypeOK, WorkerOwn, worker.pc = "walk", NEW v \in Views, worker.view = v,
           WalkRight(v, worker.pending), NEW p \in worker.pending,
           NEW n, n = Last(p), UNCHANGED tree,
           paths' = [paths EXCEPT ![n] = p],
           NEW ps, ps = (worker.pending \ {p})
                          \cup {Append(p, c) : c \in ListNodesByParent(n)}
    PROVE  WalkRight(v, ps)'
<1>0. /\ Rows \subseteq Nodes /\ NoNode \notin Rows
      /\ \A m \in Nodes : parent[m] \in Rows \cup {NoNode}
      /\ paths \in [Nodes -> Seq(Nodes)]
      /\ worker.pending \subseteq Seq(Nodes)
  BY IndexTypes
<1>1. n \in RowsOf(v) /\ n \in Nodes /\ p # <<>> /\ p \in Seq(Nodes)
  BY <1>0 DEF WorkerOwn, RowsOf
<1>2. paths[n] = <<>> /\ Met(v, n) /\ p = PathOf(n)
  BY DEF WalkRight
<1>3. /\ RowsOf(v)' = RowsOf(v) /\ RowsOf(v) \subseteq Nodes
      /\ parent' = parent /\ view' = view
      /\ paths'[n] = p /\ \A m \in Nodes \ {n} : paths'[m] = paths[m]
  BY <1>0, <1>1 DEF RowsOf, Rows, tree
\* What was met stays met, with the same path: n had none before.
<1>4. ASSUME NEW m \in RowsOf(v), Met(v, m)
      PROVE  Met(v, m)' /\ PathOf(m)' = PathOf(m)
  <2>1. CASE parent[m] = NoNode
    BY <1>3, <2>1 DEF Met, PathOf
  <2>2. CASE parent[m] # NoNode
    <3>1. parent[m] \in Nodes \ {n}
      BY <1>0, <1>2, <1>3, <1>4, <2>2 DEF Met
    <3> QED
      BY <1>3, <1>4, <2>2, <3>1 DEF Met, PathOf
  <2> QED
    BY <2>1, <2>2
<1>5. ASSUME NEW m \in RowsOf(v), Met(v, m)', ~Met(v, m)
      PROVE  parent[m] = n /\ m \in ListNodesByParent(n)
  BY <1>0, <1>1, <1>3, <1>5 DEF Met, ListNodesByParent, RowsOf
\* A child of n is met only now.
<1>6. ASSUME NEW c \in ListNodesByParent(n)
      PROVE  /\ c \in RowsOf(v) /\ c # n /\ paths[c] = <<>>
             /\ Met(v, c)' /\ PathOf(c)' = Append(p, c)
  <2>1. c \in RowsOf(v) /\ parent[c] = n /\ n # NoNode
    BY <1>0, <1>1, <1>6 DEF ListNodesByParent, RowsOf
  <2>2. ~Met(v, c)
    BY <1>2, <2>1 DEF Met
  <2>3. c # n /\ paths[c] = <<>>
    BY <1>2, <2>1, <2>2 DEF WalkRight
  <2>4. view[n] = v
    BY <1>1 DEF RowsOf
  <2> QED
    BY <1>1, <1>3, <2>1, <2>3, <2>4 DEF Met, PathOf
<1>7. ASSUME NEW m \in RowsOf(v)', paths'[m] # <<>>
      PROVE  Met(v, m)' /\ paths'[m] = PathOf(m)'
  <2>1. CASE m = n
    BY <1>1, <1>2, <1>3, <1>4, <2>1
  <2>2. CASE m # n
    BY <1>3, <1>4, <1>7, <2>2 DEF WalkRight
  <2> QED
    BY <2>1, <2>2
<1>8. ASSUME NEW q \in ps, NEW l, l = Last(q)
      PROVE  paths'[l] = <<>> /\ Met(v, l)' /\ q = PathOf(l)'
  <2>1. CASE q \in worker.pending \ {p}
    <3>1. l \in RowsOf(v) /\ paths[l] = <<>> /\ Met(v, l) /\ q = PathOf(l)
      BY <1>8, <2>1 DEF WorkerOwn, WalkRight
    <3>2. l # n
      BY <1>2, <2>1, <3>1
    <3> QED
      BY <1>3, <1>4, <3>1, <3>2
  <2>2. CASE q \notin worker.pending \ {p}
    <3>1. PICK c \in ListNodesByParent(n) : q = Append(p, c)
      BY <1>8, <2>2
    <3>2. c \in Nodes
      BY <1>3, <1>6
    <3>3. l = c
      BY <1>1, <1>8, <3>1, <3>2, LastOfAppend
    <3> QED
      BY <1>3, <1>6, <3>1, <3>2, <3>3
  <2> QED
    BY <2>1, <2>2
<1>9. ASSUME NEW m \in RowsOf(v)', Met(v, m)', paths'[m] = <<>>
      PROVE  \E q \in ps : Last(q) = m
  <2>0. m # n /\ paths[m] = <<>> /\ m \in Nodes
    BY <1>1, <1>3, <1>9
  <2>1. CASE Met(v, m)
    <3>1. PICK q \in worker.pending : Last(q) = m
      BY <1>3, <1>9, <2>0, <2>1 DEF WalkRight
    <3>2. q # p
      BY <2>0, <3>1
    <3> QED
      BY <3>1, <3>2
  <2>2. CASE ~Met(v, m)
    <3>1. m \in ListNodesByParent(n)
      BY <1>3, <1>5, <1>9, <2>2
    <3>2. Append(p, m) \in ps
      BY <3>1
    <3>3. Last(Append(p, m)) = m
      BY <1>1, <2>0, LastOfAppend
    <3> QED
      BY <3>2, <3>3
  <2> QED
    BY <2>1, <2>2
<1> QED
  BY <1>7, <1>8, <1>9 DEF WalkRight

\* The roots are the first to be pending.
LEMMA RootsRight ==
    ASSUME TypeOK, NEW v \in Views, worker.view = v,
           \A n \in RowsOf(v) : paths[n] = <<>>, UNCHANGED <<tree, paths>>,
           NEW ps, ps = {<<n>> : n \in ListNodesByParent(NoNode)}
    PROVE  WalkRight(v, ps)'
<1>0. /\ Rows \subseteq Nodes /\ NoNode \notin Rows
      /\ \A m \in Nodes : parent[m] \in Rows \cup {NoNode}
  BY IndexTypes
<1>1. /\ RowsOf(v)' = RowsOf(v) /\ RowsOf(v) \subseteq Nodes
      /\ parent' = parent /\ view' = view /\ paths' = paths
  BY <1>0 DEF RowsOf, Rows, tree
<1>2. ASSUME NEW m \in RowsOf(v)
      PROVE  /\ Met(v, m)' <=> parent[m] = NoNode
             /\ parent[m] = NoNode => PathOf(m)' = <<m>>
             /\ m \in ListNodesByParent(NoNode) <=> parent[m] = NoNode
  BY <1>0, <1>1, <1>2 DEF Met, PathOf, ListNodesByParent, RowsOf
<1>3. ASSUME NEW q \in ps, NEW l, l = Last(q)
      PROVE  paths'[l] = <<>> /\ Met(v, l)' /\ q = PathOf(l)'
  <2>1. PICK c \in ListNodesByParent(NoNode) : q = <<c>>
    BY <1>3
  <2>2. c \in RowsOf(v) /\ l = c
    BY <1>3, <2>1 DEF ListNodesByParent, RowsOf, Last
  <2> QED
    BY <1>1, <1>2, <2>1, <2>2
<1>4. ASSUME NEW m \in RowsOf(v)', Met(v, m)'
      PROVE  \E q \in ps : Last(q) = m
  <2>1. m \in ListNodesByParent(NoNode)
    BY <1>1, <1>2, <1>4
  <2>2. <<m>> \in ps /\ Last(<<m>>) = m
    BY <2>1 DEF Last
  <2> QED
    BY <2>2
<1> QED
  BY <1>1, <1>3, <1>4 DEF WalkRight

\* Publishing loses no event that is queued, and queues its own if it can.
LEMMA PublishQueues ==
    ASSUME bus \in Seq(Views), NEW w \in Views, Publish(w)
    PROVE  /\ \A v \in Views : Queued(v) => Queued(v)'
           /\ Len(bus) < BufferSize => Queued(w)'
<1>1. CASE Len(bus) < BufferSize
  <2>1. bus' = Append(bus, w) /\ Len(bus) \in Nat
    BY <1>1 DEF Publish
  <2>2. Len(bus') = Len(bus) + 1 /\ bus'[Len(bus) + 1] = w
        /\ \A i \in 1 .. Len(bus) : bus'[i] = bus[i]
    BY <2>1
  <2>3. ASSUME NEW v \in Views, NEW i \in 1 .. Len(bus), bus[i] = v
        PROVE  i \in 1 .. Len(bus') /\ bus'[i] = v
    BY <2>1, <2>2, <2>3
  <2>4. Len(bus) + 1 \in 1 .. Len(bus')
    BY <2>1, <2>2
  <2> QED
    BY <2>2, <2>3, <2>4 DEF Queued
<1>2. CASE ~(Len(bus) < BufferSize)
  BY <1>2 DEF Publish, Queued
<1> QED
  BY <1>1, <1>2

\* Taking the first event leaves the others.
LEMMA TailQueues ==
    ASSUME bus \in Seq(Views), bus # <<>>, bus' = Tail(bus), NEW v \in Views,
           Queued(v), v # Head(bus)
    PROVE  Queued(v)'
<1>1. PICK i \in 1 .. Len(bus) : bus[i] = v
  BY DEF Queued
<1>2. Len(bus) \in Nat /\ i # 1
  BY <1>1
<1>3. i - 1 \in 1 .. Len(bus') /\ bus'[i - 1] = v
  BY <1>1, <1>2
<1> QED
  BY <1>3 DEF Queued

\* A request that owes no event of v can go on as it likes.
LEMMA StillStale ==
    ASSUME NEW v \in Views, Stale(v), UNCHANGED <<unheard, bus>>,
           \A a \in Admins :
               req'[a] = req[a] \/ req[a].pc \notin {"created", "moved"}
    PROVE  Stale(v)'
<1>1. Owed(v) => Owed(v)'
  BY DEF Owed
<1> QED
  BY <1>1 DEF Stale, Queued

\* A step of a request that writes no row, once no event is lost by it.
LEMMA RequestKeepsIndex ==
    ASSUME IndexInv, UNCHANGED <<lastId, view, parent, paths, worker>>,
           \A v \in Views : Stale(v) => Stale(v)'
    PROVE  WorkerOwn' /\ \A v \in Views : Stale(v)' \/ IndexRight(v)'
<1>1. ASSUME NEW v PROVE SameRowsOf(v)
  BY DEF SameRowsOf, RowsOf, Rows
<1>2. WorkerOwn'
  BY DEF IndexInv, WorkerOwn, RowsOf, Rows
<1> QED
  BY <1>1, <1>2, IndexRightFrame DEF IndexInv

\* A new row changes the index of its own view only, whose event is owed or
\* will never come.
LEMMA InsertKeepsIndex ==
    ASSUME IndexInv, NEW v \in Views, NEW p, InsertNode(v, p), Stale(v)',
           UNCHANGED <<paths, worker>>,
           \A w \in Views : Stale(w) => Stale(w)'
    PROVE  WorkerOwn' /\ \A w \in Views : Stale(w)' \/ IndexRight(w)'
<1>0. TypeOK /\ WorkerOwn
  BY DEF IndexInv
<1>1. /\ Rows' = Rows \cup {lastId + 1} /\ lastId + 1 \notin Rows
      /\ \A n \in Rows : parent'[n] = parent[n] /\ view'[n] = view[n]
      /\ view'[lastId + 1] = v
  BY <1>0, TreeAssumption DEF InsertNode, Rows, Nodes, TypeOK
<1>2. ASSUME NEW w \in Views, w # v PROVE SameRowsOf(w)
  BY <1>1, <1>2 DEF SameRowsOf, RowsOf
<1>3. \A w : RowsOf(w) \subseteq RowsOf(w)'
  BY <1>1 DEF RowsOf
<1>4. WorkerOwn'
  <2>1. ASSUME worker'.pc = "walk", NEW q \in worker'.pending
        PROVE  q # <<>> /\ Last(q) \in Rows' /\ view'[Last(q)] = worker'.view
    <3>1. q # <<>> /\ Last(q) \in RowsOf(worker.view)
      BY <1>0, <2>1 DEF WorkerOwn
    <3> QED
      BY <1>1, <3>1 DEF RowsOf
  <2>2. worker'.pc = "idle" <=> worker'.view = NoView
    BY <1>0 DEF WorkerOwn
  <2> QED
    BY <2>1, <2>2 DEF WorkerOwn, RowsOf
<1> QED
  BY <1>0, <1>2, <1>4, IndexRightFrame DEF IndexInv

\* SetNodeParent: the view of the moved node has an event to come.
LEMMA MoveKeepsIndex ==
    ASSUME IndexInv, NEW a \in Admins, SetNodeParent(a)
    PROVE  WorkerOwn' /\ \A w \in Views : Stale(w)' \/ IndexRight(w)'
<1>0. TypeOK /\ WorkerOwn /\ req \in [Admins -> Requests]
      /\ parent \in [Nodes -> Rows \cup {NoNode}] /\ Rows \subseteq Nodes
  BY IndexTypes DEF IndexInv
<1>1. req[a] \in [pc : {"setparent"}, node : Rows, to : Rows]
  BY <1>0, RequestShape DEF SetNodeParent
<1>2. PICK n : n = req[a].node
  OBVIOUS
<1>3. /\ n \in Rows /\ view' = view /\ lastId' = lastId /\ paths' = paths
      /\ worker' = worker /\ bus' = bus /\ unheard' = unheard
      /\ \A m \in Rows \ {n} : parent'[m] = parent[m]
      /\ req'[a] = [pc |-> "moved", view |-> view[n]]
      /\ \A b \in Admins \ {a} : req'[b] = req[b]
  BY <1>0, <1>1, <1>2 DEF SetNodeParent, Become
<1>4. Owed(view[n])'
  BY <1>3 DEF Owed
<1>5. ASSUME NEW w \in Views, w # view[n] PROVE SameRowsOf(w)
  BY <1>3, <1>5 DEF SameRowsOf, RowsOf, Rows
<1>6. WorkerOwn'
  BY <1>0, <1>3 DEF WorkerOwn, RowsOf, Rows
<1>7. ASSUME NEW w \in Views, Stale(w) PROVE Stale(w)'
  <2>1. \A b \in Admins : req'[b] = req[b] \/ req[b].pc \notin {"created", "moved"}
    BY <1>1, <1>3
  <2> QED
    BY <1>3, <1>7, <2>1, StillStale
<1>8. ASSUME NEW w \in Views PROVE Stale(w)' \/ IndexRight(w)'
  <2>1. CASE w = view[n]
    BY <1>3, <1>4, <2>1 DEF Stale, Owed
  <2>2. CASE w # view[n]
    BY <1>0, <1>3, <1>5, <1>7, <2>2, IndexRightFrame DEF IndexInv
  <2> QED
    BY <2>1, <2>2
<1> QED
  BY <1>6, <1>8

\* An event is received: its view starts from nothing, the others stay.
LEMMA UpdatePathKeepsIndex ==
    ASSUME IndexInv, UpdatePath
    PROVE  WorkerOwn' /\ \A w \in Views : Stale(w)' \/ IndexRight(w)'
<1>0. /\ TypeOK /\ bus \in Seq(Views) /\ paths \in [Nodes -> Seq(Nodes)]
      /\ Rows \subseteq Nodes
  BY IndexTypes DEF IndexInv
<1>1. PICK v \in Views : v = Head(bus)
  BY <1>0 DEF UpdatePath
<1>2. /\ worker'.pc = "roots" /\ worker'.view = v /\ worker.view = NoView
      /\ v # NoView
      /\ UNCHANGED <<lastId, view, parent, req>>
      /\ unheard' = unheard \ {v}
      /\ bus # <<>> /\ bus' = Tail(bus)
      /\ \A n \in Nodes : paths'[n] = IF view[n] = v THEN <<>> ELSE paths[n]
  BY <1>1, TreeAssumption DEF UpdatePath, Resting, tree
<1>3. WorkerOwn'
  BY <1>2 DEF WorkerOwn
<1>4. ASSUME NEW w \in Views PROVE Stale(w)' \/ IndexRight(w)'
  <2>1. CASE w = v
    <3>1. \A n \in RowsOf(v)' : paths'[n] = <<>>
      BY <1>0, <1>2 DEF RowsOf, Rows
    <3>2. Rebuilding(v)'
      BY <1>2, <3>1 DEF Rebuilding
    <3> QED
      BY <1>2, <2>1, <3>2 DEF IndexRight
  <2>2. CASE w # v /\ Stale(w)
    <3>1. Queued(w) => Queued(w)'
      BY <1>0, <1>1, <1>2, <2>2, TailQueues
    <3> QED
      BY <1>2, <2>2, <3>1 DEF Stale, Owed
  <2>3. CASE w # v /\ ~Stale(w)
    <3>1. PathsRight(w)
      BY <1>2, <2>3, TreeAssumption DEF IndexInv, IndexRight
    <3>2. SameRowsOf(w)
      BY <1>0, <1>2, <2>3 DEF SameRowsOf, RowsOf, Rows
    <3>3. PathsRight(w)'
      BY <1>0, <3>1, <3>2, PathsRightFrame
    <3> QED
      BY <1>2, <2>3, <3>3 DEF IndexRight
  <2> QED
    BY <2>1, <2>2, <2>3
<1> QED
  BY <1>3, <1>4

\* A step of the rebuild of one view, once it is right for that view.
LEMMA WalkKeepsIndex ==
    ASSUME IndexInv, NEW v \in Views, worker.view = v, NEW ps, Walk(ps),
           UNCHANGED <<tree, bus, req, unheard>>,
           \A w \in Views \ {v} : SameRowsOf(w),
           \A p \in ps : p # <<>> /\ Last(p) \in RowsOf(v),
           Stale(v) \/ IndexRight(v)'
    PROVE  WorkerOwn' /\ \A w \in Views : Stale(w)' \/ IndexRight(w)'
<1>0. TypeOK
  BY DEF IndexInv
<1>1. WorkerOwn' /\ worker'.view \in {v, NoView}
  BY <1>0, WalkOwn
<1>2. \A w : Stale(w)' <=> Stale(w)
  BY DEF Stale, Queued, Owed
<1>3. ASSUME NEW w \in Views, w # v, ~Stale(w) PROVE IndexRight(w)'
  <2>1. PathsRight(w)
    BY <1>3 DEF IndexInv, IndexRight
  <2>2. PathsRight(w)'
    BY <1>0, <1>3, <2>1, PathsRightFrame
  <2> QED
    BY <1>1, <1>3, <2>2, TreeAssumption DEF IndexRight
<1> QED
  BY <1>1, <1>2, <1>3

LEMMA ListRootsKeepsIndex ==
    ASSUME IndexInv, TypeOK', ListRoots
    PROVE  WorkerOwn' /\ \A w \in Views : Stale(w)' \/ IndexRight(w)'
<1>0. /\ TypeOK /\ WorkerOwn
      /\ worker \in [pc : {"idle", "roots", "walk"}, view : Views \cup {NoView},
                     pending : SUBSET Seq(Nodes)]
  BY IndexTypes DEF IndexInv
<1>1. PICK v \in Views : worker.view = v
  BY <1>0 DEF ListRoots, WorkerOwn
<1>2. PICK ps : ps = {<<n>> : n \in ListNodesByParent(NoNode)}
  OBVIOUS
<1>3. Walk(ps) /\ UNCHANGED <<tree, bus, req, paths, unheard>>
  BY <1>2 DEF ListRoots
<1>4. ASSUME NEW p \in ps PROVE p # <<>> /\ Last(p) \in RowsOf(v)
  BY <1>1, <1>2, <1>4 DEF ListNodesByParent, RowsOf, Last
<1>5. ASSUME NEW w \in Views PROVE SameRowsOf(w)
  BY <1>3 DEF SameRowsOf, RowsOf, Rows, tree
<1>6. ASSUME ~Stale(v) PROVE IndexRight(v)'
  <2>1. \A n \in RowsOf(v) : paths[n] = <<>>
    BY <1>1, <1>6 DEF IndexInv, IndexRight, Rebuilding, ListRoots
  <2>2. WalkRight(v, ps)'
    BY <1>0, <1>1, <1>2, <1>3, <2>1, RootsRight
  <2> QED
    BY <1>0, <1>1, <1>3, <2>2, WalkOn
<1> QED
  BY <1>1, <1>3, <1>4, <1>5, <1>6, WalkKeepsIndex

LEMMA UpdateSubtreeKeepsIndex ==
    ASSUME IndexInv, TypeOK', UpdateSubtree
    PROVE  WorkerOwn' /\ \A w \in Views : Stale(w)' \/ IndexRight(w)'
<1>0. /\ TypeOK /\ WorkerOwn /\ Rows \subseteq Nodes
      /\ paths \in [Nodes -> Seq(Nodes)]
      /\ worker \in [pc : {"idle", "roots", "walk"}, view : Views \cup {NoView},
                     pending : SUBSET Seq(Nodes)]
  BY IndexTypes DEF IndexInv
<1>1. PICK v \in Views : worker.view = v
  BY <1>0 DEF UpdateSubtree, WorkerOwn
<1>2. worker.pc = "walk" /\ UNCHANGED <<tree, bus, req, unheard>>
  BY DEF UpdateSubtree
<1>3. PICK p \in Deepest :
         IF paths[p[Len(p)]] # <<>>
           THEN Walk({}) /\ UNCHANGED paths
           ELSE /\ paths' = [paths EXCEPT ![p[Len(p)]] = p]
                /\ Walk((worker.pending \ {p})
                      \cup {Append(p, c) : c \in ListNodesByParent(p[Len(p)])})
  BY DEF UpdateSubtree
<1>4. PICK n : n = Last(p)
  OBVIOUS
<1>5. p \in worker.pending /\ p \in Seq(Nodes) /\ n \in RowsOf(v) /\ n \in Nodes
  BY <1>0, <1>1, <1>2, <1>4 DEF Deepest, WorkerOwn, RowsOf
<1>6. ASSUME ~Stale(v)
      PROVE  WalkRight(v, worker.pending) /\ paths[n] = <<>>
  BY <1>1, <1>2, <1>4, <1>5, <1>6 DEF IndexInv, IndexRight, Rebuilding, WalkRight
<1>7. CASE paths[n] # <<>>
  <2>1. Walk({}) /\ paths' = paths
    BY <1>3, <1>4, <1>7 DEF Last
  <2>2. ASSUME NEW w \in Views PROVE SameRowsOf(w)
    BY <1>2, <2>1 DEF SameRowsOf, RowsOf, Rows, tree
  <2>3. Stale(v)
    BY <1>6, <1>7
  <2> QED
    BY <1>1, <1>2, <2>1, <2>2, <2>3, WalkKeepsIndex
<1>8. CASE paths[n] = <<>>
  <2>1. PICK ps : ps = (worker.pending \ {p})
                         \cup {Append(p, c) : c \in ListNodesByParent(n)}
    OBVIOUS
  <2>2. Walk(ps) /\ paths' = [paths EXCEPT ![n] = p]
    BY <1>3, <1>4, <1>8, <2>1 DEF Last
  <2>3. ASSUME NEW q \in ps PROVE q # <<>> /\ Last(q) \in RowsOf(v)
    <3>1. CASE q \in worker.pending
      BY <1>0, <1>1, <1>2, <3>1 DEF WorkerOwn
    <3>2. CASE q \notin worker.pending
      <4>1. PICK c \in ListNodesByParent(n) : q = Append(p, c)
        BY <2>1, <2>3, <3>2
      <4>2. c \in Nodes /\ c \in RowsOf(v)
        BY <1>0, <1>1 DEF ListNodesByParent, RowsOf
      <4> QED
        BY <1>5, <4>1, <4>2, LastOfAppend
    <3> QED
      BY <3>1, <3>2
  <2>4. ASSUME NEW w \in Views \ {v} PROVE SameRowsOf(w)
    <3>1. /\ RowsOf(w)' = RowsOf(w) /\ RowsOf(w) \subseteq Nodes
          /\ parent' = parent /\ view' = view
      BY <1>0, <1>2 DEF RowsOf, Rows, tree
    <3>2. n \notin RowsOf(w)
      BY <1>5 DEF RowsOf
    <3>3. \A m \in RowsOf(w) : paths'[m] = paths[m]
      BY <1>0, <2>2, <3>1, <3>2
    <3> QED
      BY <3>1, <3>3 DEF SameRowsOf
  <2>5. ASSUME ~Stale(v) PROVE IndexRight(v)'
    <3>1. WalkRight(v, ps)'
      BY <1>0, <1>1, <1>2, <1>4, <1>5, <1>6, <2>1, <2>2, <2>5, VisitRight
    <3> QED
      BY <1>0, <1>1, <2>2, <3>1, WalkOn
  <2> QED
    BY <1>1, <1>2, <2>2, <2>3, <2>4, <2>5, WalkKeepsIndex
<1> QED
  BY <1>7, <1>8

\* A restart: every view with an event on its way or a rebuild under way has a
\* change that will go unheard.
LEMMA CrashKeepsIndex ==
    ASSUME IndexInv, CrashRestart
    PROVE  WorkerOwn' /\ \A w \in Views : Stale(w)' \/ IndexRight(w)'
<1>1. worker' = Resting /\ UNCHANGED <<lastId, view, parent, paths>>
  BY DEF CrashRestart, tree
<1>2. worker'.pc = "idle" /\ worker'.view = NoView
  BY <1>1 DEF Resting
<1>3. WorkerOwn'
  BY <1>2 DEF WorkerOwn
<1>4. ASSUME NEW w \in Views PROVE Stale(w)' \/ IndexRight(w)'
  <2>1. CASE Stale(w) \/ worker.view = w
    BY <2>1 DEF Stale, CrashRestart
  <2>2. CASE ~Stale(w) /\ worker.view # w
    <3>1. PathsRight(w)
      BY <2>2 DEF IndexInv, IndexRight
    <3>2. PathsRight(w)'
      BY <1>1, <3>1 DEF PathsRight, Rows
    <3> QED
      BY <1>2, <3>2, TreeAssumption DEF IndexRight
  <2> QED
    BY <2>1, <2>2
<1> QED
  BY <1>3, <1>4

\* IndexInv is inductive, for any number of admins and whoever moves nodes.
LEMMA IndexStep ==
    ASSUME IndexInv, [Next]_vars
    PROVE  IndexInv'
<1> DEFINE Kept == WorkerOwn' /\ \A w \in Views : Stale(w)' \/ IndexRight(w)'
<1>0. TypeOK /\ TypeOK' /\ bus \in Seq(Views) /\ req \in [Admins -> Requests]
  BY TypeStep, IndexTypes DEF IndexInv
<1> SUFFICES Kept
  BY <1>0 DEF IndexInv
<1>a. ASSUME UNCHANGED <<lastId, view, parent, paths, worker, bus, unheard>>,
             \A a \in Admins :
                 req'[a] = req[a] \/ req[a].pc \notin {"created", "moved"}
      PROVE  Kept
  BY <1>a, StillStale, RequestKeepsIndex
<1>b. ASSUME NEW a, req[a] = Idle PROVE req[a].pc \notin {"created", "moved"}
  BY <1>b DEF Idle
<1>1. ASSUME NEW a \in Admins, NEW v \in Views, NEW p, CreateNode(a, v, p)
      PROVE  Kept
  <2>1. /\ InsertNode(v, p) /\ UNCHANGED <<paths, worker, bus, unheard>>
        /\ req'[a] = [pc |-> "created", view |-> v]
        /\ \A b \in Admins \ {a} : req'[b] = req[b]
        /\ req[a].pc \notin {"created", "moved"}
    BY <1>0, <1>1, <1>b DEF CreateNode, Become
  <2>2. Stale(v)'
    BY <2>1 DEF Stale, Owed
  <2>3. \A w \in Views : Stale(w) => Stale(w)'
    BY <2>1, StillStale
  <2> QED
    BY <2>1, <2>2, <2>3, InsertKeepsIndex
<1>2. ASSUME NEW v \in Views, NEW p, WebDAVCreateNode(v, p)
      PROVE  Kept
  <2>1. /\ InsertNode(v, p) /\ UNCHANGED <<paths, worker, bus, req>>
        /\ unheard' = unheard \cup {v}
    BY <1>2 DEF WebDAVCreateNode
  <2>2. Stale(v)' /\ \A w \in Views : Stale(w) => Stale(w)'
    BY <2>1 DEF Stale, Queued, Owed
  <2> QED
    BY <2>1, <2>2, InsertKeepsIndex
<1>3. ASSUME NEW a \in Admins, NEW n \in Nodes, UpdateNode(a, n) \/ SoftDeleteNode(a, n)
      PROVE  Kept
  BY <1>0, <1>a, <1>b, <1>3 DEF UpdateNode, SoftDeleteNode, Become, tree
<1>4. ASSUME NEW a \in Admins, NEW n \in Nodes, NEW p \in Nodes, MoveNode(a, n, p)
      PROVE  Kept
  BY <1>0, <1>a, <1>b, <1>4 DEF MoveNode, Become, tree
<1>5. ASSUME NEW a \in Admins, CheckCycle(a)
      PROVE  Kept
  BY <1>0, <1>a, <1>5 DEF CheckCycle, Become, tree
<1>6. ASSUME NEW a \in Admins, SetNodeParent(a)
      PROVE  Kept
  BY <1>6, MoveKeepsIndex
<1>7. ASSUME NEW a \in Admins, CollectSubtree(a)
      PROVE  Kept
  BY <1>0, <1>a, <1>7 DEF CollectSubtree, Become, tree
<1>8. ASSUME NEW a \in Admins, HideNode(a)
      PROVE  Kept
  BY <1>0, <1>a, <1>8 DEF HideNode, Become
<1>9. ASSUME NEW a \in Admins, EmitChange(a)
      PROVE  Kept
  <2>1. PICK v \in Views : v = req[a].view
    BY <1>0, <1>9, RequestShape DEF EmitChange
  <2>2. /\ Publish(v) /\ UNCHANGED <<lastId, view, parent, paths, worker>>
        /\ unheard' = IF Len(bus) < BufferSize \/ Queued(v) THEN unheard
                      ELSE unheard \cup {v}
        /\ \A b \in Admins \ {a} : req'[b] = req[b]
    BY <1>0, <1>9, <2>1 DEF EmitChange, Become, tree
  <2>3. /\ \A w \in Views : Queued(w) => Queued(w)'
        /\ Len(bus) < BufferSize => Queued(v)'
    BY <1>0, <2>2, PublishQueues
  <2>4. Stale(v)'
    BY <2>2, <2>3 DEF Stale
  <2>5. ASSUME NEW w \in Views, w # v, Stale(w) PROVE Stale(w)'
    <3>1. Owed(w) => Owed(w)'
      BY <2>1, <2>2, <2>5 DEF Owed
    <3> QED
      BY <2>2, <2>3, <2>5, <3>1 DEF Stale
  <2> QED
    BY <2>2, <2>4, <2>5, RequestKeepsIndex
<1>10. ASSUME NEW a \in Admins, EmitNote(a)
       PROVE  Kept
  <2>1. PICK v \in Views : v = req[a].view
    BY <1>0, <1>10, RequestShape DEF EmitNote
  <2>2. /\ Publish(v) /\ UNCHANGED <<lastId, view, parent, paths, worker, unheard>>
        /\ \A b \in Admins \ {a} : req'[b] = req[b]
        /\ req[a].pc \notin {"created", "moved"}
    BY <1>0, <1>10, <2>1 DEF EmitNote, Become, tree
  <2>3. ASSUME NEW w \in Views, Stale(w) PROVE Stale(w)'
    <3>1. Owed(w) => Owed(w)'
      BY <2>2 DEF Owed
    <3>2. Queued(w) => Queued(w)'
      BY <1>0, <2>2, PublishQueues
    <3> QED
      BY <2>2, <2>3, <3>1, <3>2 DEF Stale
  <2> QED
    BY <2>2, <2>3, RequestKeepsIndex
<1>11. ASSUME NEW a \in Admins, ClientGone(a)
       PROVE  Kept
  <2>1. /\ UNCHANGED <<lastId, view, parent, paths, worker, bus>>
        /\ unheard' = unheard \cup {v \in Views : req[a].pc \in {"created", "moved"}
                                                  /\ req[a].view = v}
        /\ \A b \in Admins \ {a} : req'[b] = req[b]
    BY <1>0, <1>11 DEF ClientGone, Become, tree
  <2>2. ASSUME NEW w \in Views, Stale(w) PROVE Stale(w)'
    <3>1. Owed(w) => Owed(w)' \/ w \in unheard'
      BY <2>1 DEF Owed
    <3> QED
      BY <2>1, <2>2, <3>1 DEF Stale, Queued
  <2> QED
    BY <2>1, <2>2, RequestKeepsIndex
<1>12. CASE UpdatePath \/ ListRoots \/ UpdateSubtree \/ CrashRestart
  BY <1>0, <1>12, UpdatePathKeepsIndex, ListRootsKeepsIndex, UpdateSubtreeKeepsIndex,
     CrashKeepsIndex
<1>13. CASE UNCHANGED vars
  BY <1>a, <1>13 DEF vars, tree
<1> HIDE DEF Kept
<1> QED
  BY <1>1, <1>2, <1>3, <1>4, <1>5, <1>6, <1>7, <1>8, <1>9, <1>10, <1>11, <1>12,
     <1>13 DEF Next, Request

LEMMA IndexInit == Init => IndexInv
<1> SUFFICES ASSUME Init PROVE IndexInv
  OBVIOUS
<1>1. TypeOK
  BY TypeInit
<1>2. WorkerOwn
  BY DEF Init, Resting, WorkerOwn
<1>3. ASSUME NEW v \in Views PROVE IndexRight(v)
  <2>1. worker.view # v
    BY TreeAssumption DEF Init, Resting
  <2>2. Rows = {}
    BY DEF Init, Rows
  <2> QED
    BY <2>1, <2>2 DEF IndexRight, PathsRight
<1> QED
  BY <1>1, <1>2, <1>3 DEF IndexInv

\* VPathIndexService: when the worker is done with a view and no change of it
\* went unheard, virtual_node_paths is what the tree says, whatever admins,
\* uploads and crashes did in between, and however full the bus was.
THEOREM IndexCatchesUp == Spec => []QuietIndex
<1>1. IndexInv /\ [Next]_vars => IndexInv'
  BY IndexStep
<1>2. IndexInv => QuietIndex
  BY DEF IndexInv, Stale, IndexRight, QuietIndex
<1> QED
  BY IndexInit, <1>1, <1>2, PTL DEF Spec
=============================================================================
