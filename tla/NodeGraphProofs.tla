-------------------------- MODULE NodeGraphProofs ---------------------------
(***************************************************************************)
(* Proofs about NodeGraph for any nodes, branches, requests and bounds: no *)
(* edge begins in the future or ends before it begins; a node that was     *)
(* deleted on main does not come back, whatever races; main and every      *)
(* branch stay connected unless one of the named incidents happens; and    *)
(* after a merge without incident main and the branch show the same.       *)
(*                                                                         *)
(* The argument: a node is created once, on one branch.  Until that branch *)
(* is merged main has no edge of it, and the merge closes every edge that  *)
(* another merge could bring again (Unmerged); so main has at most one     *)
(* active edge of a node (OneActive), a delete finds it however old its    *)
(* reads are, and it stays closed (Buried).                                *)
(***************************************************************************)
EXTENDS NodeGraph, WellFoundedInduction, FiniteSetTheorems, TLAPS

(* A node is added to main once. *)
OneActive ==
  \A e, f \in nodes :
    e.br = Main /\ f.br = Main /\ e.status = "active" /\ f.status = "active" /\ e.node = f.node => e = f

(* Once main has an edge that says a node is gone, this edge stays open and *)
(* the active one is closed.                                                *)
Buried ==
  \A e \in nodes : e.br = Main /\ e.status = "deleted" =>
    /\ e.to = Null
    /\ \A f \in nodes : f.br = Main /\ f.status = "active" /\ f.node = e.node => f.to # Null

(* A node that a merge may still add is of one branch, and not of main. *)
Unmerged ==
  \A e, f \in nodes :
    e.br # Main /\ e.status = "active" /\ e.to = Null /\ f.node = e.node =>
      f.br # Main /\ (f.status = "active" => f.br = e.br)

(* A branch has no edges of before its creation, so that the diff of a merge *)
(* sees all of them.                                                         *)
SinceCreation ==
  /\ \A b \in Branch : branch[b].created_at <= clock
  /\ \A e \in nodes : e.br # Main => branch[e.br].open /\ branch[e.br].created_at <= e.from

(* A rebase drops the closed edges of its branch; the node has others then. *)
Kept ==
  \A e \in nodes : \E f \in nodes : f.node = e.node /\ (f.br = Main \/ f.to = Null)

(* What a request has found out stays true until it commits: the id of a new *)
(* node is not used, and the node it deletes on main was there.              *)
Fresh(m) == m.op = "create" => NeverUsed(m.node)
Alone(q) == \A o \in Request : o # q /\ request[o] # Idle /\ request[o].op = "create" => request[o].node # request[q].node
Used(n) == \E e \in nodes : e.node = n
OnMainSince(n, t) == \E e \in nodes : e.br = Main /\ e.status = "active" /\ e.node = n /\ e.from <= t
WasThere(m) ==
  m.op = "delete" => Used(m.node) /\ (m.view.name = Main => OnMainSince(m.node, m.at))
OfBranch(m) ==
  /\ m.at <= clock
  /\ m.view.name # Main => branch[m.view.name].open /\ branch[m.view.name].created_at <= m.at

Pending ==
  \A q \in Request : request[q] # Idle =>
    /\ Fresh(request[q]) /\ WasThere(request[q]) /\ OfBranch(request[q])
    /\ request[q].op = "create" => Alone(q)
    /\ request[q].op # "delete" => request[q].node \in Child

IInv == TypeOK /\ OneActive /\ Buried /\ Unmerged /\ SinceCreation /\ Kept /\ Pending

-----------------------------------------------------------------------------
(* The edges that the queries add and close. *)
LEMMA NewNodeEdge ==
  ASSUME NEW n \in Node, NEW b \in AnyBranch, NEW s \in Status, NEW at \in Time
  PROVE  LET e == node_edge(n, b, s, at) IN
         /\ e \in NodeEdge
         /\ e.node = n /\ e.br = b /\ e.status = s /\ e.from = at /\ e.to = Null
  BY DEF node_edge, NodeEdge, Null

LEMMA ClosedNodeEdge ==
  ASSUME NEW e \in NodeEdge, NEW at \in Time
  PROVE  LET f == [e EXCEPT !.to = at] IN
         /\ f \in NodeEdge
         /\ f.node = e.node /\ f.br = e.br /\ f.status = e.status /\ f.from = e.from /\ f.to = at
  BY DEF NodeEdge

LEMMA MovedNodeEdge ==
  ASSUME NEW e \in NodeEdge, NEW at \in Time
  PROVE  LET f == [e EXCEPT !.from = at] IN
         /\ f \in NodeEdge
         /\ f.node = e.node /\ f.br = e.br /\ f.status = e.status /\ f.from = at /\ f.to = e.to
  BY DEF NodeEdge

LEMMA NewRelEdges ==
  ASSUME NEW r \in Rel, NEW b \in AnyBranch, NEW s \in Status, NEW at \in Time,
         NEW e \in rel_edges(r, b, s, at)
  PROVE  e \in RelEdge /\ e.from = at /\ e.to = Null
  BY DEF rel_edges, RelEdge, Null

LEMMA ClosedRelEdge ==
  ASSUME NEW e \in RelEdge, NEW at \in Time
  PROVE  [e EXCEPT !.to = at] \in RelEdge /\ [e EXCEPT !.to = at].to = at /\ [e EXCEPT !.to = at].from = e.from
  BY DEF RelEdge

LEMMA MovedRelEdge ==
  ASSUME NEW e \in RelEdge, NEW at \in Time
  PROVE  [e EXCEPT !.from = at] \in RelEdge /\ [e EXCEPT !.from = at].from = at /\ [e EXCEPT !.from = at].to = e.to
  BY DEF RelEdge

LEMMA TimeFacts == Time \subseteq Nat /\ Null \notin Time /\ Null = 0 /\ \A t \in Time : 1 <= t /\ t <= MaxTime
  BY TimeAssumption DEF Time, Null

(* The edges keep their bounds when some are closed at a time not before    *)
(* they began, and edges that begin at a time not in the future are added.  *)
Timely(S, t) == \A e \in S : e.from <= t /\ e.to <= t /\ (e.to = Null \/ e.from <= e.to)

LEMMA NodesClosed ==
  ASSUME NEW S \in SUBSET NodeEdge, NEW part \in SUBSET S, NEW new \in SUBSET NodeEdge,
         NEW at \in Time, NEW t \in Time, NEW u \in Time, Timely(S, t), at <= u, t <= u,
         \A e \in part : e.from <= at,
         \A e \in new : e.from <= u /\ e.to = Null
  PROVE  LET T == (S \ part) \cup Close(part, at) \cup new IN
         /\ T \subseteq NodeEdge
         /\ Timely(T, u)
  <1>1. Close(part, at) \subseteq NodeEdge /\ Timely(Close(part, at), u)
    BY ClosedNodeEdge, TimeFacts DEF Close, Timely, NodeEdge
  <1>2. \A e \in NodeEdge : e.from \in Nat /\ e.to \in Nat
    BY TimeAssumption DEF NodeEdge, Time, Null
  <1>3. t \in Nat /\ u \in Nat
    BY TimeFacts
  <1>4. Timely(S, u)
    BY <1>2, <1>3 DEF Timely
  <1>5. Timely(new, u)
    BY <1>2, <1>3, TimeFacts DEF Timely
  <1>. QED BY <1>1, <1>4, <1>5 DEF Timely

LEMMA RelsClosed ==
  ASSUME NEW S \in SUBSET RelEdge, NEW mine \in SUBSET S, NEW new \in SUBSET RelEdge,
         NEW at \in Time, NEW t \in Time, NEW u \in Time, Timely(S, t), at <= u, t <= u,
         \A e \in mine : e.from <= at,
         \A e \in new : e.from <= u /\ e.to = Null
  PROVE  LET T == (S \ mine) \cup Close(mine, at) \cup new IN
         /\ T \subseteq RelEdge
         /\ Timely(T, u)
  <1>1. Close(mine, at) \subseteq RelEdge /\ Timely(Close(mine, at), u)
    BY ClosedRelEdge, TimeFacts DEF Close, Timely, RelEdge
  <1>2. \A e \in RelEdge : e.from \in Nat /\ e.to \in Nat
    BY TimeAssumption DEF RelEdge, Time, Null
  <1>3. t \in Nat /\ u \in Nat
    BY TimeFacts
  <1>4. Timely(S, u)
    BY <1>2, <1>3 DEF Timely
  <1>5. Timely(new, u)
    BY <1>2, <1>3, TimeFacts DEF Timely
  <1>. QED BY <1>1, <1>4, <1>5 DEF Timely

(* TypeOK in the form the steps use. *)
LEMMA TypeParts ==
  TypeOK <=>
    /\ nodes \subseteq NodeEdge /\ Timely(nodes, clock)
    /\ rels \subseteq RelEdge /\ Timely(rels, clock)
    /\ branch \in [Branch -> [open : BOOLEAN, created_at : 0..MaxTime, branched_from : 0..MaxTime]]
    /\ clock \in Time
    /\ request \in [Request -> Mutation \cup {Idle}]
    /\ incidents \subseteq Incident
  BY DEF TypeOK, Timely

-----------------------------------------------------------------------------
(* What the reads of a request return. *)
LEMMA VisibleSince ==
  ASSUME NEW e, NEW v, NEW at, Visible(e, v, at), e.br = v.name
  PROVE  e.from <= at
  BY DEF Visible, ValidAt

LEMMA CurrentNodes ==
  ASSUME NEW v, NEW n, NEW at, NEW e \in CurrentNodeEdges(v, n, at)
  PROVE  e \in nodes /\ e.node = n /\ Visible(e, v, at)
  BY DEF CurrentNodeEdges

LEMMA PathEdges ==
  ASSUME NEW r, NEW v, NEW at, NEW p \in Paths(r, v, at)
  PROVE  /\ p.child \in rels /\ p.parent \in rels
         /\ Visible(p.child, v, at) /\ Visible(p.parent, v, at)
  BY DEF Paths

LEMMA SeenRels ==
  ASSUME TypeOK, NEW v, NEW at, NEW seen \in Readings(v, at)
  PROVE  seen \subseteq Rel
  <1>1. Known \subseteq Rel
    BY TypeParts DEF Known, RelEdge
  <1>2. PICK S \in SUBSET MaySee(v, at) : seen \in OnePerPeer(S)
    BY DEF Readings
  <1>3. seen \subseteq S
    BY <1>2 DEF OnePerPeer
  <1>. QED BY <1>1, <1>2, <1>3 DEF MaySee

LEMMA RequestFacts ==
  ASSUME TypeOK, NEW q \in Request, request[q] # Idle
  PROVE  /\ request[q] \in Mutation
         /\ request[q].view.name \in AnyBranch /\ request[q].view \in BranchView
         /\ request[q].node \in Node /\ request[q].peer \in Parent /\ request[q].at \in Time
  BY DEF TypeOK, Mutation, BranchView

LEMMA CommitFacts ==
  ASSUME TypeOK, Pending, NEW q \in Request, NEW op, Commits(q, op)
  PROVE  /\ Now(q) \in Time /\ clock <= Now(q) /\ request[q].at <= Now(q) /\ clock' = Now(q)
         /\ request[q] # Idle /\ request[q].op = op
         /\ request' \in [Request -> Mutation \cup {Idle}]
         /\ request' = [request EXCEPT ![q] = Idle]
  <1>1. request[q] # Idle /\ request[q].op = op /\ clock' = Now(q) /\ Now(q) <= MaxTime
    BY DEF Commits
  <1>2. request[q].at \in Time /\ request[q].at <= clock /\ clock \in Time
    BY <1>1, RequestFacts DEF Pending, OfBranch, TypeOK
  <1>3. Now(q) \in Time /\ clock <= Now(q) /\ request[q].at <= Now(q)
    BY <1>1, <1>2, TimeAssumption DEF Now, Time
  <1>4. request' \in [Request -> Mutation \cup {Idle}]
    BY DEF Commits, TypeOK
  <1>. QED BY <1>1, <1>3, <1>4 DEF Commits

-----------------------------------------------------------------------------
(* Type correctness: one lemma per action that writes edges. *)
LEMMA ConnectsType ==
  ASSUME TypeOK, NEW m \in Mutation, NEW at \in Time, m.node \in Child
  PROVE  \A e \in Connects(m, at) : e \in RelEdge /\ e.from = at /\ e.to = Null
  <1>1. [child |-> m.node, parent |-> m.peer, born |-> at] \in Rel
    BY DEF Mutation, Rel
  <1>2. m.view.name \in AnyBranch /\ "active" \in Status
    BY DEF Mutation, BranchView, Status
  <1>. QED BY <1>1, <1>2, NewRelEdges DEF Connects

LEMMA StaleType == ASSUME NEW m, NEW t PROVE Stale(m, t) \subseteq Incident
  BY DEF Stale, Incident

LEMMA NodesStep ==
  ASSUME TypeOK, NEW part \in SUBSET nodes, NEW new, NEW at \in Time, NEW u \in Time, at <= u, clock <= u,
         \A e \in part : e.from <= at,
         \A e \in new : e \in NodeEdge /\ e.from <= u /\ e.to = Null,
         nodes' = (nodes \ part) \cup Close(part, at) \cup new, clock' = u
  PROVE  nodes' \subseteq NodeEdge /\ Timely(nodes, clock)'
  <1>1. clock \in Time /\ nodes \in SUBSET NodeEdge /\ Timely(nodes, clock) /\ new \in SUBSET NodeEdge
    BY TypeParts
  <1>2. ((nodes \ part) \cup Close(part, at) \cup new) \subseteq NodeEdge
        /\ Timely((nodes \ part) \cup Close(part, at) \cup new, u)
    BY <1>1, NodesClosed
  <1>. QED BY <1>2 DEF Timely

LEMMA RelsStep ==
  ASSUME TypeOK, NEW mine \in SUBSET rels, NEW new, NEW at \in Time, NEW u \in Time, at <= u, clock <= u,
         \A e \in mine : e.from <= at,
         \A e \in new : e \in RelEdge /\ e.from <= u /\ e.to = Null,
         rels' = (rels \ mine) \cup Close(mine, at) \cup new, clock' = u
  PROVE  rels' \subseteq RelEdge /\ Timely(rels, clock)'
  <1>1. clock \in Time /\ rels \in SUBSET RelEdge /\ Timely(rels, clock) /\ new \in SUBSET RelEdge
    BY TypeParts
  <1>2. ((rels \ mine) \cup Close(mine, at) \cup new) \subseteq RelEdge
        /\ Timely((rels \ mine) \cup Close(mine, at) \cup new, u)
    BY <1>1, RelsClosed
  <1>. QED BY <1>2 DEF Timely

LEMMA TypeStep ==
  ASSUME nodes' \subseteq NodeEdge, Timely(nodes, clock)', rels' \subseteq RelEdge, Timely(rels, clock)',
         branch' \in [Branch -> [open : BOOLEAN, created_at : 0..MaxTime, branched_from : 0..MaxTime]],
         clock' \in Time, request' \in [Request -> Mutation \cup {Idle}], incidents' \subseteq Incident
  PROVE  TypeOK'
  BY DEF TypeOK, Timely

LEMMA CreateType ==
  ASSUME TypeOK, Pending, NEW q \in Request, CommitCreate(q)
  PROVE  TypeOK'
  <1> DEFINE m == request[q]
             now == Now(q)
             new == {node_edge(m.node, m.view.name, "active", now)}
             con == Connects(m, now)
  <1>1. /\ Commits(q, "create") /\ nodes' = nodes \cup new /\ rels' = rels \cup con
        /\ incidents' = incidents \cup Stale(m, now) /\ branch' = branch
    BY DEF CommitCreate
  <1>2. /\ now \in Time /\ clock <= now /\ clock' = now
        /\ m # Idle /\ m.op = "create" /\ request' \in [Request -> Mutation \cup {Idle}]
    BY <1>1, CommitFacts
  <1>3. now \in Nat
    BY <1>2, TimeFacts
  <1>4. m \in Mutation /\ m.node \in Child /\ m.node \in Node /\ m.view.name \in AnyBranch
    BY <1>2, RequestFacts DEF Pending
  <1>5. \A e \in new : e \in NodeEdge /\ e.from = now /\ e.to = Null
    BY <1>2, <1>4, NewNodeEdge DEF Status
  <1>6. \A e \in con : e \in RelEdge /\ e.from = now /\ e.to = Null
    BY <1>2, <1>4, ConnectsType
  <1> HIDE DEF m, now, new, con
  <1>7. now <= now /\ (\A e \in new : e \in NodeEdge /\ e.from <= now /\ e.to = Null)
    BY <1>3, <1>5
  <1>8. \A e \in con : e \in RelEdge /\ e.from <= now /\ e.to = Null
    BY <1>3, <1>6
  <1>9. nodes' \subseteq NodeEdge /\ Timely(nodes, clock)'
    <2>1. nodes' = (nodes \ {}) \cup Close({}, now) \cup new
      BY <1>1 DEF Close
    <2>2. {} \in SUBSET nodes /\ \A e \in {} : e.from <= now
      OBVIOUS
    <2>3. now \in Time /\ clock <= now /\ clock' = now
      BY <1>2
    <2>. QED BY <2>1, <2>2, <2>3, <1>7, NodesStep, Zenon
  <1>10. rels' \subseteq RelEdge /\ Timely(rels, clock)'
    <2>1. rels' = (rels \ {}) \cup Close({}, now) \cup con
      BY <1>1 DEF Close
    <2>2. {} \in SUBSET rels /\ \A e \in {} : e.from <= now
      OBVIOUS
    <2>3. now \in Time /\ clock <= now /\ clock' = now
      BY <1>2
    <2>. QED BY <2>1, <2>2, <2>3, <1>7, <1>8, RelsStep, Zenon
  <1>11. branch' = branch /\ incidents' \subseteq Incident
    BY <1>1, StaleType, TypeParts
  <1>. QED BY <1>2, <1>9, <1>10, <1>11, TypeStep DEF TypeOK

(* Edges that a request closes began before its time. *)
LEMMA UpdateType ==
  ASSUME TypeOK, Pending, NEW q \in Request, CommitUpdate(q)
  PROVE  TypeOK'
  <1> DEFINE m == request[q]
             now == Now(q)
             b == m.view.name
             con == Connects(m, now)
  <1>1. /\ Commits(q, "update") /\ incidents' = incidents \cup Stale(m, now) /\ nodes' = nodes /\ branch' = branch
    BY DEF CommitUpdate
  <1>2. /\ now \in Time /\ clock <= now /\ clock' = now /\ m.at <= now
        /\ m # Idle /\ m.op = "update" /\ request' \in [Request -> Mutation \cup {Idle}]
    BY <1>1, CommitFacts
  <1>3. m \in Mutation /\ m.node \in Child /\ b \in AnyBranch /\ m.at \in Time
    BY <1>2, RequestFacts DEF Pending
  <1>4. now \in Nat /\ m.at \in Nat
    BY <1>2, <1>3, TimeFacts
  <1>5. \A e \in con : e \in RelEdge /\ e.from = now /\ e.to = Null
    BY <1>2, <1>3, ConnectsType
  <1>6. PICK seen \in Readings(m.view, m.at) :
          LET old == {r \in seen : r.child = m.node}
              gone == UNION {{p.child, p.parent} : p \in UNION {First(r, m.view, m.at) : r \in old}}
              mine == {e \in gone : e.br = b}
          IN rels' = (rels \ mine) \cup Close(mine, now) \cup deleted_rels_data(old, b, now) \cup con
    BY DEF CommitUpdate
  <1> DEFINE old == {r \in seen : r.child = m.node}
             gone == UNION {{p.child, p.parent} : p \in UNION {First(r, m.view, m.at) : r \in old}}
             mine == {e \in gone : e.br = b}
             new == deleted_rels_data(old, b, now) \cup con
  <1>7. rels' = (rels \ mine) \cup Close(mine, now) \cup new
    BY <1>6
  <1>8. old \subseteq Rel
    BY <1>6, SeenRels
  <1>9. \A e \in deleted_rels_data(old, b, now) : e \in RelEdge /\ e.from = now /\ e.to = Null
    BY <1>2, <1>3, <1>8, NewRelEdges DEF deleted_rels_data, Status
  <1>10. \A e \in mine : e \in rels /\ e.from <= m.at
    BY PathEdges, VisibleSince DEF First
  <1>11. \A e \in mine : e.from \in Nat
    BY <1>10, TypeParts, TimeFacts DEF RelEdge
  <1> HIDE DEF m, now, mine, new, old, con, gone, b
  <1>12. mine \in SUBSET rels /\ \A e \in mine : e.from <= now
    BY <1>2, <1>4, <1>10, <1>11
  <1>13. \A e \in new : e \in RelEdge /\ e.from <= now /\ e.to = Null
    BY <1>4, <1>5, <1>9 DEF new
  <1>14. now <= now
    BY <1>4
  <1>15. rels' \subseteq RelEdge /\ Timely(rels, clock)'
    BY <1>2, <1>7, <1>12, <1>13, <1>14, RelsStep
  <1>16. nodes' = (nodes \ {}) \cup Close({}, now) \cup {}
    BY <1>1 DEF Close
  <1>17. nodes' \subseteq NodeEdge /\ Timely(nodes, clock)'
    BY <1>2, <1>14, <1>16, NodesStep
  <1>18. branch' = branch /\ incidents' \subseteq Incident
    BY <1>1, StaleType, TypeParts
  <1>. QED BY <1>2, <1>15, <1>17, <1>18, TypeStep DEF TypeOK

(* The path that a delete closes may be another one than it saw (see        *)
(* misdirected), but it is one that is visible at the time of the request.  *)
LEMMA CloseablePaths ==
  ASSUME NEW r, NEW v, NEW at, NEW p \in PathToClose(r, v, at)
  PROVE  \E s : p \in Paths(s, v, at)
  BY DEF PathToClose

LEMMA DeleteType ==
  ASSUME TypeOK, Pending, NEW q \in Request, CommitDelete(q)
  PROVE  TypeOK'
  <1> DEFINE m == request[q]
             v == m.view
             at == m.at
             b == m.view.name
             Removed(seen) == {n \in ids_to_delete(m.node, seen) : n = m.node \/ NodeActive(v, n, at)}
             Old(seen) == {r \in seen : r.child \in Removed(seen) \/ r.parent \in Removed(seen)}
             Part(seen) == {e \in UNION {CurrentNodeEdges(v, n, at) : n \in Removed(seen)} :
                              e.status = "active" /\ e.br = b}
             Own(seen, pick) == {e \in UNION {{pick[r].child, pick[r].parent} : r \in Old(seen)} : e.br = b}
  <1>1. /\ Commits(q, "delete") /\ branch' = branch
    BY DEF CommitDelete
  <1>2. /\ Now(q) \in Time /\ clock <= Now(q) /\ clock' = Now(q) /\ at <= Now(q)
        /\ m # Idle /\ m.op = "delete" /\ request' \in [Request -> Mutation \cup {Idle}]
    BY <1>1, CommitFacts
  <1>3. m \in Mutation /\ b \in AnyBranch /\ at \in Time /\ m.node \in Node
    BY <1>2, RequestFacts
  <1>4. PICK seen \in Readings(v, at) :
          /\ \E pick \in [Old(seen) -> UNION {PathToClose(r, v, at) : r \in Old(seen)}] :
               /\ \A r \in Old(seen) : pick[r] \in PathToClose(r, v, at)
               /\ rels' = (rels \ Own(seen, pick)) \cup Close(Own(seen, pick), at)
                          \cup deleted_rels(Old(seen), b, at)
               /\ incidents' = incidents \cup Stale(m, Now(q)) \cup Backdated(m)
                    \cup {i \in {"misdirected"} : \E r \in Old(seen) : pick[r] \notin First(r, v, at)}
          /\ nodes' = (nodes \ Part(seen)) \cup Close(Part(seen), at)
                      \cup {deleted_node(n, b, at) : n \in Removed(seen)}
    BY DEF CommitDelete
  <1>5. PICK pick \in [Old(seen) -> UNION {PathToClose(r, v, at) : r \in Old(seen)}] :
               /\ \A r \in Old(seen) : pick[r] \in PathToClose(r, v, at)
               /\ rels' = (rels \ Own(seen, pick)) \cup Close(Own(seen, pick), at)
                          \cup deleted_rels(Old(seen), b, at)
               /\ incidents' = incidents \cup Stale(m, Now(q)) \cup Backdated(m)
                    \cup {i \in {"misdirected"} : \E r \in Old(seen) : pick[r] \notin First(r, v, at)}
    BY <1>4
  <1> DEFINE D == Removed(seen)
             old == Old(seen)
             part == Part(seen)
             mine == Own(seen, pick)
             newN == {deleted_node(n, b, at) : n \in D}
             newR == deleted_rels(old, b, at)
  <1>7. seen \subseteq Rel
    BY SeenRels
  <1>8. D \subseteq Node
    <2>1. \A n \in ids_to_delete(m.node, seen) : n = m.node \/ n \in {r.child : r \in seen}
      BY DEF ids_to_delete, ChildrenOf
    <2>2. \A r \in seen : r.child \in Node
      BY <1>7 DEF Rel, Node
    <2>. QED BY <1>3, <2>1, <2>2
  <1>9. part \in SUBSET nodes /\ \A e \in part : e.from <= at
    BY CurrentNodes, VisibleSince
  <1>10. \A e \in newN : e \in NodeEdge /\ e.from = at /\ e.to = Null
    <2>1. "deleted" \in Status
      BY DEF Status
    <2>. QED BY <1>3, <1>8, <2>1, NewNodeEdge DEF deleted_node
  <1>11. mine \in SUBSET rels /\ \A e \in mine : e.from <= at
    <2> SUFFICES ASSUME NEW r \in old, NEW e \in {pick[r].child, pick[r].parent}, e.br = b
                 PROVE  e \in rels /\ e.from <= at
      OBVIOUS
    <2>1. PICK s : pick[r] \in Paths(s, v, at)
      BY <1>5, CloseablePaths
    <2>. QED BY <2>1, PathEdges, VisibleSince
  <1>12. \A e \in newR : e \in RelEdge /\ e.from = at /\ e.to = Null
    BY <1>3, <1>7, NewRelEdges DEF deleted_rels, Status
  <1>13. nodes' = (nodes \ part) \cup Close(part, at) \cup newN
    BY <1>4
  <1>14. rels' = (rels \ mine) \cup Close(mine, at) \cup newR
    BY <1>5
  <1>15. incidents' \subseteq Incident
    BY <1>5, StaleType, TypeParts DEF Backdated, Incident
  <1> HIDE DEF m, v, at, b, part, mine, newN, newR, D, old, Part, Own, Removed, Old
  <1>16. \A e \in newN : e \in NodeEdge /\ e.from <= Now(q) /\ e.to = Null
    BY <1>2, <1>10
  <1>17. \A e \in newR : e \in RelEdge /\ e.from <= Now(q) /\ e.to = Null
    BY <1>2, <1>12
  <1>18. Now(q) \in Time /\ clock <= Now(q) /\ clock' = Now(q) /\ at <= Now(q) /\ at \in Time
    BY <1>2, <1>3
  <1>19. nodes' \subseteq NodeEdge /\ Timely(nodes, clock)'
    BY <1>9, <1>13, <1>16, <1>18, NodesStep, Zenon
  <1>20. rels' \subseteq RelEdge /\ Timely(rels, clock)'
    BY <1>11, <1>14, <1>17, <1>18, RelsStep, Zenon
  <1>. QED BY <1>1, <1>2, <1>15, <1>19, <1>20, TypeStep DEF TypeOK

LEMMA NextTime ==
  ASSUME TypeOK, clock < MaxTime
  PROVE  clock + 1 \in Time /\ clock \in Time /\ clock <= clock + 1 /\ clock + 1 \in 0..MaxTime
  BY TimeAssumption DEF TypeOK, Time

(* A rebase never meets an edge that ends later, so that it leaves these.   *)
KeptOrMoved(S, b, u) ==
  {e \in S : e.br # b} \cup {[e EXCEPT !.from = u] : e \in {f \in S : f.br = b /\ f.to = Null}}

LEMMA RebasedType ==
  ASSUME NEW S, S \subseteq NodeEdge \/ S \subseteq RelEdge, NEW t \in Time, NEW u \in Time, t < u, Timely(S, t), NEW b
  PROVE  /\ S \subseteq NodeEdge => Rebased(S, b, u) \subseteq NodeEdge
         /\ S \subseteq RelEdge => Rebased(S, b, u) \subseteq RelEdge
         /\ Timely(Rebased(S, b, u), u)
         /\ Rebased(S, b, u) = KeptOrMoved(S, b, u)
  <1>1. t \in Nat /\ u \in Nat
    BY TimeFacts
  <1>2. \A e \in NodeEdge \cup RelEdge : e.from \in Nat /\ e.to \in Nat
    BY TimeAssumption DEF NodeEdge, RelEdge, Time, Null
  <1>3. \A e \in S : ~ (e.to >= u)
    BY <1>1, <1>2 DEF Timely
  <1>4. Rebased(S, b, u) = {e \in S : e.br # b} \cup {[e EXCEPT !.from = u] : e \in {f \in S : f.br = b /\ f.to = Null}}
    BY <1>3 DEF Rebased
  <1>5. S \subseteq NodeEdge => Rebased(S, b, u) \subseteq NodeEdge
    BY <1>4, MovedNodeEdge
  <1>6. S \subseteq RelEdge => Rebased(S, b, u) \subseteq RelEdge
    BY <1>4, MovedRelEdge
  <1>7. \A e \in S : Timely({e}, u) /\ (e.to = Null => Timely({[e EXCEPT !.from = u]}, u))
    <2> TAKE e \in S
    <2>1. e.from <= t /\ e.to <= t /\ (e.to = Null \/ e.from <= e.to)
      BY DEF Timely
    <2>2. e.from \in Nat /\ e.to \in Nat
      BY <1>2
    <2>3. [e EXCEPT !.from = u].from = u /\ [e EXCEPT !.from = u].to = e.to
      BY MovedNodeEdge, MovedRelEdge
    <2>. QED BY <2>1, <2>2, <2>3, <1>1 DEF Timely
  <1>8. Timely(Rebased(S, b, u), u)
    BY <1>4, <1>7 DEF Timely
  <1>. QED BY <1>4, <1>5, <1>6, <1>8 DEF KeptOrMoved

LEMMA RebaseType ==
  ASSUME TypeOK, NEW b \in Branch, Rebase(b)
  PROVE  TypeOK'
  <1>1. /\ clock < MaxTime /\ clock' = clock + 1
        /\ nodes' = Rebased(nodes, b, clock + 1) /\ rels' = Rebased(rels, b, clock + 1)
        /\ branch' = [branch EXCEPT ![b].branched_from = clock + 1]
        /\ request' = request /\ incidents' \subseteq incidents \cup {"crossed"}
    BY DEF Rebase
  <1>2. clock + 1 \in Time /\ clock \in Time /\ clock < clock + 1 /\ clock + 1 \in 0..MaxTime
    BY <1>1, NextTime DEF TypeOK, Time
  <1>3. nodes' \subseteq NodeEdge /\ Timely(nodes', clock + 1)
    BY <1>1, <1>2, RebasedType, TypeParts
  <1>4. rels' \subseteq RelEdge /\ Timely(rels', clock + 1)
    BY <1>1, <1>2, RebasedType, TypeParts
  <1>5. Timely(nodes, clock)' /\ Timely(rels, clock)'
    BY <1>1, <1>3, <1>4 DEF Timely
  <1>6. branch' \in [Branch -> [open : BOOLEAN, created_at : 0..MaxTime, branched_from : 0..MaxTime]]
    BY <1>1, <1>2 DEF TypeOK
  <1>7. incidents' \subseteq Incident /\ request' \in [Request -> Mutation \cup {Idle}]
    BY <1>1 DEF TypeOK, Incident
  <1>. QED BY <1>1, <1>2, <1>3, <1>4, <1>5, <1>6, <1>7, TypeStep

(* What a merge of branch b brings to main, and what it closes. *)
Added(b) == {e \in DiffNodes(b, clock + 1) : e.status = "active"}
Removed(b) == {e \in DiffNodes(b, clock + 1) : e.status = "deleted" /\ NodeActive(View(Main), e.node, clock + 1)}
Origin(b) == {e \in UNION {CurrentNodeEdges(View(Main), d.node, clock + 1) : d \in Removed(b)} : e.status = "active"}
Closing(b) == Added(b) \cup Removed(b) \cup Origin(b)
NewOnMain(b) ==
  {node_edge(e.node, Main, "active", clock + 1) : e \in Added(b)}
  \cup {node_edge(e.node, Main, "deleted", clock + 1) : e \in Removed(b)}

LEMMA MergeFacts ==
  ASSUME TypeOK, NEW b \in Branch, NEW resolved, NEW keep, Merge(b, resolved, keep)
  PROVE  /\ clock + 1 < MaxTime /\ branch[b].open
         /\ nodes' = (nodes \ Closing(b)) \cup Close(Closing(b), clock + 1) \cup NewOnMain(b)
         /\ clock' = clock + 2 /\ branch' = [branch EXCEPT ![b].branched_from = clock + 2]
         /\ request' = request /\ incidents' \subseteq incidents \cup {"crossed"}
         /\ \E R \in SUBSET Known :
              \E pick \in [R -> UNION {DiffPaths(r, b, branch[b].created_at, clock + 1) : r \in R}] :
                 LET mine == UNION {{pick[r].child, pick[r].parent} : r \in R}
                 IN rels' = (rels \ mine) \cup Close(mine, clock + 1)
                            \cup UNION {rel_edges(r, Main, pick[r].child.status, clock + 1) : r \in R}
  <1>1. /\ clock + 1 < MaxTime /\ branch[b].open
        /\ clock' = clock + 2 /\ branch' = [branch EXCEPT ![b].branched_from = clock + 2]
        /\ request' = request /\ incidents' \subseteq incidents \cup {"crossed"}
    BY DEF Merge, MovedOn
  <1>2. nodes' = (nodes \ Closing(b)) \cup Close(Closing(b), clock + 1) \cup NewOnMain(b)
    BY DEF Merge, Closing, NewOnMain, Added, Removed, Origin
  <1> DEFINE R == {r \in DiffRels(b, branch[b].created_at, clock + 1) : r.child \notin resolved \/ r.child \in keep}
  <1>3. R \in SUBSET Known
    BY DEF DiffRels
  <1>4. \E pick \in [R -> UNION {DiffPaths(r, b, branch[b].created_at, clock + 1) : r \in R}] :
          LET mine == UNION {{pick[r].child, pick[r].parent} : r \in R}
          IN rels' = (rels \ mine) \cup Close(mine, clock + 1)
                     \cup UNION {rel_edges(r, Main, pick[r].child.status, clock + 1) : r \in R}
    BY DEF Merge
  <1>. QED BY <1>1, <1>2, <1>3, <1>4

LEMMA DiffPathEdges ==
  ASSUME TypeOK, NEW r, NEW b, NEW start, NEW t, NEW p \in DiffPaths(r, b, start, t)
  PROVE  /\ p.child \in rels /\ p.parent \in rels
         /\ p.child.from <= t /\ p.parent.from <= t /\ p.child.status \in Status
  <1>1. /\ p.child \in rels /\ p.parent \in rels /\ p.parent = [p.child EXCEPT !.end = "parent"]
        /\ p.child.from <= t
    BY DEF DiffPaths
  <1>2. p.child \in RelEdge
    BY <1>1 DEF TypeOK
  <1>. QED BY <1>1, <1>2 DEF RelEdge

LEMMA MergeTimes ==
  ASSUME TypeOK, clock + 1 < MaxTime
  PROVE  /\ clock \in Time /\ clock + 1 \in Time /\ clock + 2 \in Time
         /\ clock <= clock + 2 /\ clock + 1 <= clock + 2 /\ clock + 2 \in 0..MaxTime
  BY TimeAssumption DEF TypeOK, Time

LEMMA ViewOfMain == View(Main).name = Main
  BY DEF View

LEMMA ClosingFacts ==
  ASSUME TypeOK, NEW b \in Branch, clock + 1 < MaxTime
  PROVE  /\ Closing(b) \in SUBSET nodes /\ \A e \in Closing(b) : e.from <= clock + 1
         /\ \A e \in Added(b) \cup Removed(b) : e \in nodes /\ e.br = b /\ e \in NodeEdge
         /\ \A e \in Origin(b) : e \in nodes /\ e.br = Main /\ e.status = "active"
  <1>1. \A e \in Added(b) \cup Removed(b) : e \in nodes /\ e.br = b /\ e.from <= clock + 1
    BY DEF Added, Removed, DiffNodes
  <1>2. \A e \in Origin(b) : e \in nodes /\ e.br = Main /\ e.status = "active" /\ e.from <= clock + 1
    <2> TAKE e \in Origin(b)
    <2>1. PICK n : e \in CurrentNodeEdges(View(Main), n, clock + 1)
      BY DEF Origin
    <2>2. e \in nodes /\ Visible(e, View(Main), clock + 1)
      BY <2>1, CurrentNodes
    <2>3. e.br = View(Main).name
      BY <2>2, ViewOfMain DEF Visible
    <2>. QED BY <2>2, <2>3, VisibleSince, ViewOfMain DEF Origin
  <1>. QED BY <1>1, <1>2 DEF Closing, TypeOK

LEMMA NewOnMainFacts ==
  ASSUME TypeOK, NEW b \in Branch, clock + 1 < MaxTime, NEW e \in NewOnMain(b)
  PROVE  /\ e \in NodeEdge /\ e.br = Main /\ e.from = clock + 1 /\ e.to = Null
         /\ \/ e.status = "active" /\ \E d \in Added(b) : d.node = e.node
            \/ e.status = "deleted" /\ \E d \in Removed(b) : d.node = e.node
  <1>1. Main \in AnyBranch /\ "active" \in Status /\ "deleted" \in Status /\ clock + 1 \in Time
    BY MergeTimes DEF AnyBranch, Status
  <1>2. \A d \in Added(b) \cup Removed(b) : d.node \in Node
    BY ClosingFacts DEF NodeEdge
  <1>3. CASE \E d \in Added(b) : e = node_edge(d.node, Main, "active", clock + 1)
    BY <1>1, <1>2, <1>3, NewNodeEdge
  <1>4. CASE \E d \in Removed(b) : e = node_edge(d.node, Main, "deleted", clock + 1)
    BY <1>1, <1>2, <1>4, NewNodeEdge
  <1>. QED BY <1>3, <1>4 DEF NewOnMain

LEMMA MergeType ==
  ASSUME TypeOK, NEW b \in Branch, NEW resolved, NEW keep, Merge(b, resolved, keep)
  PROVE  TypeOK'
  <1>1. /\ clock + 1 < MaxTime /\ clock' = clock + 2 /\ branch' = [branch EXCEPT ![b].branched_from = clock + 2]
        /\ request' = request /\ incidents' \subseteq incidents \cup {"crossed"}
        /\ nodes' = (nodes \ Closing(b)) \cup Close(Closing(b), clock + 1) \cup NewOnMain(b)
    BY MergeFacts
  <1>2a. PICK R \in SUBSET Known :
          \E pick \in [R -> UNION {DiffPaths(r, b, branch[b].created_at, clock + 1) : r \in R}] :
             LET mine == UNION {{pick[r].child, pick[r].parent} : r \in R}
             IN rels' = (rels \ mine) \cup Close(mine, clock + 1)
                        \cup UNION {rel_edges(r, Main, pick[r].child.status, clock + 1) : r \in R}
    BY MergeFacts
  <1>2. PICK pick \in [R -> UNION {DiffPaths(r, b, branch[b].created_at, clock + 1) : r \in R}] :
          LET mine == UNION {{pick[r].child, pick[r].parent} : r \in R}
          IN rels' = (rels \ mine) \cup Close(mine, clock + 1)
                     \cup UNION {rel_edges(r, Main, pick[r].child.status, clock + 1) : r \in R}
    BY <1>2a
  <1> DEFINE mine == UNION {{pick[r].child, pick[r].parent} : r \in R}
             new == UNION {rel_edges(r, Main, pick[r].child.status, clock + 1) : r \in R}
             at == clock + 1
             u == clock + 2
  <1>3. at \in Time /\ u \in Time /\ clock <= u /\ at <= u /\ u \in 0..MaxTime
    BY <1>1, MergeTimes
  <1>4. \A r \in R : /\ pick[r].child \in rels /\ pick[r].parent \in rels
                     /\ pick[r].child.from <= at /\ pick[r].parent.from <= at /\ pick[r].child.status \in Status
    BY DiffPathEdges
  <1>5. mine \in SUBSET rels /\ \A e \in mine : e.from <= at
    BY <1>4
  <1>6. \A e \in new : e \in RelEdge /\ e.from <= u /\ e.to = Null
    <2> SUFFICES ASSUME NEW r \in R, NEW e \in rel_edges(r, Main, pick[r].child.status, at)
                 PROVE  e \in RelEdge /\ e.from <= u /\ e.to = Null
      OBVIOUS
    <2>1. r \in Rel /\ Main \in AnyBranch
      BY TypeParts DEF Known, RelEdge, AnyBranch
    <2>2. e \in RelEdge /\ e.from = at /\ e.to = Null
      BY <2>1, <1>3, <1>4, NewRelEdges
    <2>. QED BY <2>2, <1>3
  <1>7. rels' = (rels \ mine) \cup Close(mine, at) \cup new /\ clock' = u
    BY <1>1, <1>2
  <1>8. \A e \in NewOnMain(b) : e \in NodeEdge /\ e.from <= u /\ e.to = Null
    BY <1>1, <1>3, NewOnMainFacts
  <1>9. nodes' = (nodes \ Closing(b)) \cup Close(Closing(b), at) \cup NewOnMain(b)
    BY <1>1
  <1>10. Closing(b) \in SUBSET nodes /\ \A e \in Closing(b) : e.from <= at
    BY <1>1, ClosingFacts
  <1> HIDE DEF mine, new, at, u
  <1>11. rels' \subseteq RelEdge /\ Timely(rels, clock)'
    BY <1>3, <1>5, <1>6, <1>7, RelsStep, Zenon
  <1>12. nodes' \subseteq NodeEdge /\ Timely(nodes, clock)'
    BY <1>3, <1>7, <1>8, <1>9, <1>10, NodesStep, Zenon
  <1>13. branch' \in [Branch -> [open : BOOLEAN, created_at : 0..MaxTime, branched_from : 0..MaxTime]]
    BY <1>1, <1>3 DEF TypeOK, u
  <1>14. incidents' \subseteq Incident /\ request' \in [Request -> Mutation \cup {Idle}]
    BY <1>1 DEF TypeOK, Incident
  <1>. QED BY <1>3, <1>7, <1>11, <1>12, <1>13, <1>14, TypeStep

LEMMA BeginType ==
  ASSUME TypeOK, NEW q \in Request, NEW op \in {"create", "update", "delete"},
         NEW b \in AnyBranch, NEW n \in Node, NEW p \in Parent, Begin(q, op, b, n, p)
  PROVE  TypeOK'
  <1>1. clock < MaxTime /\ clock' = clock + 1 /\ UNCHANGED <<nodes, rels, branch, incidents>>
    BY DEF Begin
  <1>2. clock + 1 \in Time /\ clock \in Nat
    BY <1>1, NextTime, TimeFacts
  <1>3. View(b) \in BranchView
    <2>1. 0 \in 0..MaxTime
      BY TimeAssumption
    <2>2. b # Main => branch[b].branched_from \in 0..MaxTime
      BY DEF TypeOK, AnyBranch
    <2>. QED BY <2>1, <2>2 DEF View, BranchView
  <1>4. request' \in [Request -> Mutation \cup {Idle}]
    BY <1>2, <1>3 DEF Begin, Mutation, TypeOK
  <1>5. \A e \in nodes \cup rels : e.from \in Nat /\ e.to \in Nat
    BY TimeAssumption DEF TypeOK, NodeEdge, RelEdge, Time, Null
  <1>6. Timely(nodes, clock)' /\ Timely(rels, clock)'
    BY <1>1, <1>2, <1>5, TypeParts DEF Timely
  <1>. QED BY <1>1, <1>2, <1>4, <1>6, TypeStep DEF TypeOK

LEMMA CreateBranchType ==
  ASSUME TypeOK, NEW b \in Branch, CreateBranch(b)
  PROVE  TypeOK'
  <1>1. clock < MaxTime /\ clock' = clock + 1 /\ UNCHANGED <<nodes, rels, request, incidents>>
    BY DEF CreateBranch
  <1>2. clock + 1 \in Time /\ clock \in Nat /\ clock + 1 \in 0..MaxTime
    BY <1>1, NextTime, TimeFacts
  <1>3. branch' \in [Branch -> [open : BOOLEAN, created_at : 0..MaxTime, branched_from : 0..MaxTime]]
    BY <1>2 DEF CreateBranch, TypeOK
  <1>5. \A e \in nodes \cup rels : e.from \in Nat /\ e.to \in Nat
    BY TimeAssumption DEF TypeOK, NodeEdge, RelEdge, Time, Null
  <1>6. Timely(nodes, clock)' /\ Timely(rels, clock)'
    BY <1>1, <1>2, <1>5, TypeParts DEF Timely
  <1>. QED BY <1>1, <1>2, <1>3, <1>6, TypeStep DEF TypeOK

LEMMA AbortType ==
  ASSUME TypeOK, NEW q \in Request, Abort(q)
  PROVE  TypeOK'
  BY DEF Abort, TypeOK

-----------------------------------------------------------------------------
(* Every edge of after a step that closes part of the edges is a new one or *)
(* what became of one of before.                                            *)
Succ(d, part, at) == IF d \in part THEN [d EXCEPT !.to = at] ELSE d

LEMMA SuccFacts ==
  ASSUME NEW d \in NodeEdge, NEW part, NEW at \in Time
  PROVE  LET e == Succ(d, part, at) IN
         /\ e.node = d.node /\ e.br = d.br /\ e.status = d.status /\ e.from = d.from
         /\ d \in part => e.to = at
         /\ d \notin part => e = d
         /\ e.to = Null => e = d /\ d \notin part
         /\ d.to # Null => e.to # Null
  <1>1. at # Null
    BY TimeFacts
  <1>2. CASE d \in part
    BY <1>1, <1>2, ClosedNodeEdge DEF Succ
  <1>3. CASE d \notin part
    BY <1>1, <1>3 DEF Succ
  <1>. QED BY <1>2, <1>3

LEMMA Bases ==
  ASSUME TypeOK, NEW part \in SUBSET nodes, NEW new, NEW at,
         nodes' = (nodes \ part) \cup Close(part, at) \cup new
  PROVE  /\ \A d \in nodes : Succ(d, part, at) \in nodes'
         /\ \A e \in nodes' : e \in new \/ \E d \in nodes : e = Succ(d, part, at)
  BY DEF Succ, Close

(* What a step may not take away: nodes and the history of main, branches,  *)
(* and the time that has passed.                                            *)
Progress ==
  /\ \A n \in Node : Used(n) => Used(n)'
  /\ \A n \in Node, t \in Time : OnMainSince(n, t) => OnMainSince(n, t)'
  /\ \A b \in Branch : branch[b].open => branch[b].open' /\ branch[b].created_at' = branch[b].created_at
  /\ clock \in Nat /\ clock' \in Nat /\ clock <= clock'

LEMMA PendingStep ==
  ASSUME TypeOK, Pending, Progress,
         \A q \in Request : request'[q] # Idle => request'[q] = request[q],
         \A q \in Request : request'[q] # Idle /\ request[q].op = "create" => NeverUsed(request[q].node)'
  PROVE  Pending'
  <1> SUFFICES ASSUME NEW q \in Request, request'[q] # Idle
               PROVE  /\ Fresh(request[q])' /\ WasThere(request[q])' /\ OfBranch(request[q])'
                      /\ request'[q].op = "create" => Alone(q)'
                      /\ request'[q].op # "delete" => request'[q].node \in Child
    BY DEF Pending
  <1>1. request'[q] = request[q] /\ request[q] # Idle
    OBVIOUS
  <1> DEFINE m == request[q]
  <1>2. m.node \in Node /\ m.at \in Time /\ m.view.name \in AnyBranch /\ m.at \in Nat
    BY <1>1, RequestFacts, TimeFacts
  <1>3. Fresh(m) /\ WasThere(m) /\ OfBranch(m) /\ (m.op = "create" => Alone(q)) /\ (m.op # "delete" => m.node \in Child)
    BY <1>1 DEF Pending
  <1>4. Fresh(request[q])'
    BY <1>1 DEF Fresh
  <1>5. WasThere(request[q])'
    BY <1>1, <1>2, <1>3 DEF WasThere, Progress
  <1>6. OfBranch(request[q])'
    <2>1. m.at <= clock'
      BY <1>2, <1>3 DEF OfBranch, Progress
    <2>2. m.view.name # Main => branch'[m.view.name].open /\ branch'[m.view.name].created_at <= m.at
      BY <1>2, <1>3 DEF OfBranch, Progress, AnyBranch
    <2>. QED BY <1>1, <2>1, <2>2 DEF OfBranch
  <1>7. request'[q].op = "create" => Alone(q)'
    BY <1>1, <1>3 DEF Alone
  <1>. QED BY <1>1, <1>3, <1>4, <1>5, <1>6, <1>7

(* The parts of the invariant about the nodes. *)
GInv == OneActive /\ Buried /\ Unmerged /\ SinceCreation /\ Kept

(* Steps that leave the nodes and the branches alone. *)
LEMMA SameNodes ==
  ASSUME TypeOK, TypeOK', GInv, nodes' = nodes, branch' = branch, clock <= clock'
  PROVE  GInv' /\ Progress /\ \A n : NeverUsed(n) => NeverUsed(n)'
  <1>1. OneActive' /\ Buried' /\ Unmerged' /\ Kept'
    BY DEF GInv, OneActive, Buried, Unmerged, Kept
  <1>2. clock \in Nat /\ clock' \in Nat
    BY TimeFacts DEF TypeOK
  <1>3. \A b \in Branch : branch[b].created_at \in Nat
    BY DEF TypeOK
  <1>4. SinceCreation'
    BY <1>2, <1>3 DEF GInv, SinceCreation
  <1>5. Progress
    BY <1>2 DEF Progress, Used, OnMainSince
  <1>. QED BY <1>1, <1>4, <1>5 DEF GInv, NeverUsed

(* A created node is new to every branch. *)
LEMMA CreateStep ==
  ASSUME TypeOK, TypeOK', GInv, Pending, NEW q \in Request, CommitCreate(q)
  PROVE  GInv' /\ Pending'
  <1> DEFINE m == request[q]
             b == m.view.name
             x == node_edge(m.node, b, "active", Now(q))
  <1>1. Commits(q, "create") /\ nodes' = nodes \cup {x} /\ branch' = branch
    BY DEF CommitCreate
  <1>2. /\ Now(q) \in Time /\ clock <= Now(q) /\ clock' = Now(q) /\ m.at <= Now(q)
        /\ m # Idle /\ m.op = "create" /\ request' = [request EXCEPT ![q] = Idle]
    BY <1>1, CommitFacts
  <1>3. m.node \in Node /\ b \in AnyBranch /\ m.at \in Time
    BY <1>2, RequestFacts
  <1>4. clock \in Nat /\ Now(q) \in Nat /\ m.at \in Nat
    BY <1>2, <1>3, TimeFacts DEF TypeOK
  <1>5. x.node = m.node /\ x.br = b /\ x.status = "active" /\ x.from = Now(q) /\ x.to = Null
    BY <1>2, <1>3, NewNodeEdge DEF Status
  <1>6. (\A e \in nodes : e.node # m.node) /\ Alone(q)
    BY <1>2 DEF Pending, Fresh, NeverUsed
  <1>7. b # Main => branch[b].open /\ branch[b].created_at <= m.at
    BY <1>2 DEF Pending, OfBranch
  <1>8. \A c \in Branch : branch[c].created_at \in Nat
    BY DEF TypeOK
  <1> HIDE DEF x
  <1>9. OneActive'
    BY <1>1, <1>5, <1>6 DEF GInv, OneActive
  <1>10. Buried'
    BY <1>1, <1>5, <1>6 DEF GInv, Buried
  <1>11. Unmerged'
    BY <1>1, <1>5, <1>6 DEF GInv, Unmerged
  <1>12. SinceCreation'
    <2>1. \A c \in Branch : branch'[c].created_at <= clock'
      BY <1>1, <1>2, <1>4, <1>8 DEF GInv, SinceCreation
    <2>2. \A e \in nodes : e.br # Main => branch'[e.br].open /\ branch'[e.br].created_at <= e.from
      BY <1>1 DEF GInv, SinceCreation
    <2>3. b # Main => branch'[b].open /\ branch'[b].created_at <= Now(q)
      BY <1>1, <1>2, <1>3, <1>4, <1>7, <1>8 DEF AnyBranch
    <2>. QED BY <1>1, <1>5, <2>1, <2>2, <2>3 DEF SinceCreation
  <1>13. Kept'
    BY <1>1, <1>5 DEF GInv, Kept
  <1>14. Progress
    BY <1>1, <1>2, <1>4 DEF Progress, Used, OnMainSince
  <1>15. \A o \in Request : request'[o] # Idle => o # q /\ request'[o] = request[o]
    BY <1>2 DEF TypeOK
  <1>16. \A o \in Request : request'[o] # Idle /\ request[o].op = "create" => NeverUsed(request[o].node)'
    <2> SUFFICES ASSUME NEW o \in Request, request'[o] # Idle, request[o].op = "create"
                 PROVE  NeverUsed(request[o].node)'
      OBVIOUS
    <2>1. o # q /\ request[o] # Idle /\ request'[o] = request[o]
      BY <1>15
    <2>2. NeverUsed(request[o].node) /\ request[o].node # m.node
      BY <2>1, <1>6 DEF Pending, Fresh, Alone
    <2>. QED BY <2>1, <2>2, <1>1, <1>5 DEF NeverUsed
  <1>17. Pending'
    BY <1>14, <1>15, <1>16, PendingStep
  <1>. QED BY <1>9, <1>10, <1>11, <1>12, <1>13, <1>17 DEF GInv

(* The active edge of main is found by every read of a time after it began. *)
LEMMA FindsOpen ==
  ASSUME TypeOK, OneActive, Buried, NEW v, v.name = Main, NEW at \in Time, NEW g \in nodes,
         g.br = Main, g.status = "active", g.to = Null, OnMainSince(g.node, at)
  PROVE  g \in CurrentNodeEdges(v, g.node, at)
  <1>1. g.from <= at
    BY DEF OnMainSince, OneActive
  <1>2. Visible(g, v, at)
    BY <1>1 DEF Visible, ValidAt
  <1>3. \A s \in nodes : s.node = g.node /\ Visible(s, v, at) => s = g
    <2> SUFFICES ASSUME NEW s \in nodes, s.node = g.node, Visible(s, v, at)
                 PROVE  s = g
      OBVIOUS
    <2>1. s.br = Main
      BY DEF Visible
    <2>2. s.status \in {"active", "deleted"}
      BY DEF TypeOK, NodeEdge, Status
    <2>3. CASE s.status = "active"
      BY <2>1, <2>3 DEF OneActive
    <2>4. CASE s.status = "deleted"
      BY <2>1, <2>4 DEF Buried
    <2>. QED BY <2>2, <2>3, <2>4
  <1>4. g.from \in Nat
    BY TimeAssumption DEF TypeOK, NodeEdge, Time
  <1>. QED BY <1>2, <1>3, <1>4 DEF CurrentNodeEdges

(* A step that closes part of the nodes and adds others. *)
LEMMA ClosedProgress ==
  ASSUME TypeOK, NEW part \in SUBSET nodes, NEW new, NEW at \in Time,
         nodes' = (nodes \ part) \cup Close(part, at) \cup new,
         NEW N, \A e \in new : e.node \in N
  PROVE  /\ \A n : Used(n) => Used(n)'
         /\ \A n, t : OnMainSince(n, t) => OnMainSince(n, t)'
         /\ \A n : NeverUsed(n) /\ n \notin N => NeverUsed(n)'
  <1>1. /\ \A d \in nodes : Succ(d, part, at) \in nodes'
        /\ \A e \in nodes' : e \in new \/ \E d \in nodes : e = Succ(d, part, at)
    BY Bases
  <1>2. \A d \in nodes : LET e == Succ(d, part, at) IN
          e.node = d.node /\ e.br = d.br /\ e.status = d.status /\ e.from = d.from
    BY SuccFacts DEF TypeOK
  <1>3. \A n : Used(n) => Used(n)'
    BY <1>1, <1>2 DEF Used
  <1>4. \A n, t : OnMainSince(n, t) => OnMainSince(n, t)'
    <2> SUFFICES ASSUME NEW n, NEW t, OnMainSince(n, t) PROVE OnMainSince(n, t)'
      OBVIOUS
    <2>1. PICK d \in nodes : d.br = Main /\ d.status = "active" /\ d.node = n /\ d.from <= t
      BY DEF OnMainSince
    <2>. QED BY <2>1, <1>1, <1>2 DEF OnMainSince
  <1>5. \A n : NeverUsed(n) /\ n \notin N => NeverUsed(n)'
    BY <1>1, <1>2 DEF NeverUsed
  <1>. QED BY <1>3, <1>4, <1>5

(* What a delete closes and adds. *)
DeletedPart(m, D) ==
  {e \in UNION {CurrentNodeEdges(m.view, n, m.at) : n \in D} : e.status = "active" /\ e.br = m.view.name}
DeletedEdges(m, D) == {deleted_node(n, m.view.name, m.at) : n \in D}

LEMMA DeleteFacts ==
  ASSUME TypeOK, Pending, NEW q \in Request, CommitDelete(q)
  PROVE  LET m == request[q] IN
         \E D \in SUBSET Node :
           /\ \A n \in D : n = m.node \/ NodeActive(m.view, n, m.at)
           /\ nodes' = (nodes \ DeletedPart(m, D)) \cup Close(DeletedPart(m, D), m.at) \cup DeletedEdges(m, D)
  <1> DEFINE m == request[q]
             R(seen) == {n \in ids_to_delete(m.node, seen) : n = m.node \/ NodeActive(m.view, n, m.at)}
  <1>1. m.node \in Node
    BY RequestFacts DEF CommitDelete, Commits
  <1>2. PICK seen \in Readings(m.view, m.at) :
          nodes' = (nodes \ DeletedPart(m, R(seen))) \cup Close(DeletedPart(m, R(seen)), m.at)
                   \cup DeletedEdges(m, R(seen))
    BY DEF CommitDelete, DeletedPart, DeletedEdges
  <1>3. seen \subseteq Rel
    BY SeenRels
  <1>4. R(seen) \in SUBSET Node
    <2>1. \A n \in ids_to_delete(m.node, seen) : n = m.node \/ n \in {r.child : r \in seen}
      BY DEF ids_to_delete, ChildrenOf
    <2>2. \A r \in seen : r.child \in Node
      BY <1>3 DEF Rel, Node
    <2>. QED BY <1>1, <2>1, <2>2
  <1>. QED BY <1>2, <1>4

LEMMA WasOnMain ==
  ASSUME TypeOK, NEW v, NEW n, NEW at, NodeActive(v, n, at)
  PROVE  Used(n) /\ (v.name = Main => OnMainSince(n, at))
  <1>1. PICK e \in CurrentNodeEdges(v, n, at) : e.status = "active"
    BY DEF NodeActive
  <1>2. e \in nodes /\ e.node = n /\ Visible(e, v, at)
    BY CurrentNodes
  <1>3. v.name = Main => e.br = Main /\ e.from <= at
    BY <1>2, VisibleSince DEF Visible
  <1>. QED BY <1>1, <1>2, <1>3 DEF Used, OnMainSince

(* A delete on main closes the active edge, however late it commits. *)
LEMMA DeleteStep ==
  ASSUME TypeOK, TypeOK', GInv, Pending, NEW q \in Request, CommitDelete(q)
  PROVE  GInv' /\ Pending'
  <1> DEFINE m == request[q]
             b == m.view.name
             at == m.at
  <1>1. Commits(q, "delete") /\ branch' = branch
    BY DEF CommitDelete
  <1>2. /\ Now(q) \in Time /\ clock <= Now(q) /\ clock' = Now(q)
        /\ m # Idle /\ m.op = "delete" /\ request' = [request EXCEPT ![q] = Idle]
    BY <1>1, CommitFacts
  <1>3. b \in AnyBranch /\ at \in Time /\ at # Null
    BY <1>2, RequestFacts, TimeFacts
  <1>4. PICK D \in SUBSET Node :
           /\ \A n \in D : n = m.node \/ NodeActive(m.view, n, at)
           /\ nodes' = (nodes \ DeletedPart(m, D)) \cup Close(DeletedPart(m, D), at) \cup DeletedEdges(m, D)
    BY DeleteFacts
  <1> DEFINE part == DeletedPart(m, D)
             new == DeletedEdges(m, D)
  <1>5. \A n \in D : Used(n) /\ (b = Main => OnMainSince(n, at))
    BY <1>2, <1>4, WasOnMain DEF Pending, WasThere
  <1>6. part \in SUBSET nodes /\ \A e \in part : e.status = "active" /\ e.br = b /\ e.node \in D
    BY CurrentNodes DEF DeletedPart
  <1>7. \A e \in new : e.node \in D /\ e.br = b /\ e.status = "deleted" /\ e.from = at /\ e.to = Null
    BY <1>3, NewNodeEdge DEF DeletedEdges, deleted_node, Status
  <1>8. \A n \in D : \E e \in new : e.node = n /\ e.to = Null
    BY <1>3, NewNodeEdge DEF DeletedEdges, deleted_node, Status
  <1>9. \A g \in nodes : b = Main /\ g.node \in D /\ g.br = Main /\ g.status = "active" /\ g.to = Null => g \in part
    BY <1>3, <1>5, FindsOpen DEF DeletedPart, GInv
  <1>10. b # Main => branch[b].open /\ branch[b].created_at <= at
    BY <1>2 DEF Pending, OfBranch
  <1>11. nodes' = (nodes \ part) \cup Close(part, at) \cup new
    BY <1>4
  <1> HIDE DEF m, b, at, part, new
  <1>12. /\ \A d \in nodes : Succ(d, part, at) \in nodes'
         /\ \A e \in nodes' : e \in new \/ \E d \in nodes : e = Succ(d, part, at)
    BY <1>6, <1>11, Bases
  <1>13. \A d \in nodes : LET e == Succ(d, part, at) IN
           /\ e.node = d.node /\ e.br = d.br /\ e.status = d.status /\ e.from = d.from
           /\ d \in part => e.to = at
           /\ d \notin part => e = d
           /\ e.to = Null => e = d /\ d \notin part
           /\ d.to # Null => e.to # Null
    BY <1>3, SuccFacts DEF TypeOK
  <1>14. OneActive'
    <2> SUFFICES ASSUME NEW e \in nodes', NEW f \in nodes', e.br = Main, f.br = Main,
                        e.status = "active", f.status = "active", e.node = f.node
                 PROVE  e = f
      BY DEF OneActive
    <2>1. PICK d \in nodes : e = Succ(d, part, at)
      BY <1>7, <1>12
    <2>2. PICK g \in nodes : f = Succ(g, part, at)
      BY <1>7, <1>12
    <2>3. d = g
      BY <2>1, <2>2, <1>13 DEF GInv, OneActive
    <2>. QED BY <2>1, <2>2, <2>3
  <1>15. Buried'
    <2> SUFFICES ASSUME NEW e \in nodes', e.br = Main, e.status = "deleted"
                 PROVE  e.to = Null /\ \A f \in nodes' : f.br = Main /\ f.status = "active" /\ f.node = e.node => f.to # Null
      BY DEF Buried
    <2>1. CASE e \in new
      <3> SUFFICES ASSUME NEW f \in nodes', f.br = Main, f.status = "active", f.node = e.node
                   PROVE  f.to # Null
        BY <2>1, <1>7
      <3>1. PICK g \in nodes : f = Succ(g, part, at)
        BY <1>7, <1>12
      <3>2. g.br = Main /\ g.status = "active" /\ g.node \in D /\ b = Main
        BY <2>1, <3>1, <1>7, <1>13
      <3>. QED BY <3>1, <3>2, <1>3, <1>9, <1>13
    <2>2. CASE e \notin new
      <3>1. PICK d \in nodes : e = Succ(d, part, at)
        BY <2>2, <1>12
      <3>2. d \notin part /\ e = d /\ d.to = Null
        BY <3>1, <1>6, <1>13 DEF GInv, Buried
      <3> SUFFICES ASSUME NEW f \in nodes', f.br = Main, f.status = "active", f.node = e.node
                   PROVE  f.to # Null
        BY <3>2
      <3>3. PICK g \in nodes : f = Succ(g, part, at)
        BY <1>7, <1>12
      <3>4. g.to # Null
        BY <3>2, <3>3, <1>13 DEF GInv, Buried
      <3>. QED BY <3>3, <3>4, <1>13
    <2>. QED BY <2>1, <2>2
  <1>16. Unmerged'
    <2> SUFFICES ASSUME NEW e \in nodes', NEW f \in nodes',
                        e.br # Main, e.status = "active", e.to = Null, f.node = e.node
                 PROVE  f.br # Main /\ (f.status = "active" => f.br = e.br)
      BY DEF Unmerged
    <2>1. PICK d \in nodes : e = Succ(d, part, at)
      BY <1>7, <1>12
    <2>2. e = d
      BY <2>1, <1>13
    <2>3. CASE f \in new
      <3>1. f.node \in D /\ f.br = b /\ f.status = "deleted"
        BY <2>3, <1>7
      <3>2. b = Main => FALSE
        BY <2>2, <3>1, <1>5 DEF GInv, Unmerged, OnMainSince
      <3>. QED BY <3>1, <3>2
    <2>4. CASE f \notin new
      <3>1. PICK g \in nodes : f = Succ(g, part, at)
        BY <2>4, <1>12
      <3>2. g.node = e.node /\ g.br = f.br /\ g.status = f.status
        BY <3>1, <1>13
      <3>. QED BY <2>2, <3>2 DEF GInv, Unmerged
    <2>. QED BY <2>3, <2>4
  <1>17. clock \in Nat /\ clock' \in Nat /\ \A c \in Branch : branch[c].created_at \in Nat
    BY TimeFacts DEF TypeOK
  <1>18. SinceCreation'
    <2>1. \A c \in Branch : branch'[c].created_at <= clock'
      BY <1>1, <1>2, <1>17 DEF GInv, SinceCreation
    <2>2. \A e \in nodes' : e.br # Main => branch'[e.br].open /\ branch'[e.br].created_at <= e.from
      BY <1>1, <1>7, <1>10, <1>12, <1>13 DEF GInv, SinceCreation
    <2>. QED BY <2>1, <2>2 DEF SinceCreation
  <1>19. Kept'
    <2> SUFFICES ASSUME NEW e \in nodes'
                 PROVE  \E f \in nodes' : f.node = e.node /\ (f.br = Main \/ f.to = Null)
      BY DEF Kept
    <2>1. CASE e \in new
      BY <2>1, <1>7
    <2>2. CASE e \notin new
      <3>1. PICK d \in nodes : e = Succ(d, part, at)
        BY <2>2, <1>12
      <3>2. PICK f \in nodes : f.node = d.node /\ (f.br = Main \/ f.to = Null)
        BY DEF GInv, Kept
      <3>3. d.node = e.node
        BY <3>1, <1>13
      <3>4. CASE f.br = Main \/ f \notin part
        BY <3>2, <3>3, <3>4, <1>12, <1>13
      <3>5. CASE f \in part
        <4>1. PICK g \in new : g.node = f.node /\ g.to = Null
          BY <3>5, <1>6, <1>8
        <4>2. g \in nodes'
          BY <1>11
        <4>. QED BY <3>2, <3>3, <4>1, <4>2
      <3>. QED BY <3>4, <3>5
    <2>. QED BY <2>1, <2>2
  <1>20. /\ \A n : Used(n) => Used(n)'
         /\ \A n, t : OnMainSince(n, t) => OnMainSince(n, t)'
         /\ \A n : NeverUsed(n) /\ n \notin D => NeverUsed(n)'
    BY <1>3, <1>6, <1>7, <1>11, ClosedProgress
  <1>21. Progress
    BY <1>1, <1>2, <1>17, <1>20 DEF Progress
  <1>22. \A o \in Request : request'[o] # Idle => request'[o] = request[o] /\ o # q
    BY <1>2 DEF TypeOK
  <1>23. \A o \in Request : request'[o] # Idle /\ request[o].op = "create" => NeverUsed(request[o].node)'
    <2> SUFFICES ASSUME NEW o \in Request, request'[o] # Idle, request[o].op = "create"
                 PROVE  NeverUsed(request[o].node)'
      OBVIOUS
    <2>1. request[o] # Idle
      BY <1>22
    <2>2. NeverUsed(request[o].node)
      BY <2>1 DEF Pending, Fresh
    <2>3. request[o].node \notin D
      BY <2>2, <1>5 DEF NeverUsed, Used
    <2>. QED BY <2>2, <2>3, <1>20, <1>22
  <1>24. Pending'
    BY <1>21, <1>22, <1>23, PendingStep
  <1>. QED BY <1>14, <1>15, <1>16, <1>18, <1>19, <1>24 DEF GInv

(* The node edges a rebase leaves are those of the other branches and those *)
(* of the branch that are open, moved up.                                    *)
LEMMA RebasedNodes ==
  ASSUME TypeOK, NEW b \in Branch, Rebase(b)
  PROVE  /\ \A d \in nodes : d.br # b => d \in nodes'
         /\ \A d \in nodes : d.br = b /\ d.to = Null => [d EXCEPT !.from = clock + 1] \in nodes'
         /\ \A e \in nodes' : \E d \in nodes :
              \/ d.br # b /\ e = d
              \/ d.br = b /\ d.to = Null /\ e = [d EXCEPT !.from = clock + 1]
  <1>1. clock < MaxTime /\ nodes' = Rebased(nodes, b, clock + 1)
    BY DEF Rebase
  <1>2. clock + 1 \in Time /\ clock \in Time /\ clock < clock + 1
    BY <1>1, NextTime DEF TypeOK, Time
  <1>3. nodes' = {e \in nodes : e.br # b}
                 \cup {[e EXCEPT !.from = clock + 1] : e \in {f \in nodes : f.br = b /\ f.to = Null}}
    <2>1. nodes \subseteq NodeEdge /\ Timely(nodes, clock)
      BY TypeParts
    <2>2. Rebased(nodes, b, clock + 1) = KeptOrMoved(nodes, b, clock + 1)
      BY <1>2, <2>1, RebasedType
    <2>. QED BY <1>1, <2>2 DEF KeptOrMoved
  <1>. QED BY <1>3

LEMMA RebaseStep ==
  ASSUME TypeOK, TypeOK', GInv, Pending, NEW b \in Branch, Rebase(b)
  PROVE  GInv' /\ Pending'
  <1> DEFINE at == clock + 1
             Moved(d) == [d EXCEPT !.from = at]
  <1>1. /\ clock < MaxTime /\ clock' = at /\ request' = request
        /\ branch' = [branch EXCEPT ![b].branched_from = at]
    BY DEF Rebase
  <1>2. at \in Time /\ at \in Nat /\ clock \in Nat /\ clock <= at
    BY <1>1, NextTime, TimeFacts
  <1>3. b # Main
    BY BranchAssumption
  <1>4. /\ \A d \in nodes : d.br # b => d \in nodes'
        /\ \A d \in nodes : d.br = b /\ d.to = Null => Moved(d) \in nodes'
        /\ \A e \in nodes' : \E d \in nodes : \/ d.br # b /\ e = d
                                              \/ d.br = b /\ d.to = Null /\ e = Moved(d)
    BY RebasedNodes
  <1>5. \A d \in nodes : LET f == Moved(d) IN
          f.node = d.node /\ f.br = d.br /\ f.status = d.status /\ f.from = at /\ f.to = d.to
    BY <1>2, MovedNodeEdge DEF TypeOK
  <1> HIDE DEF Moved, at
  <1>6. \A e \in nodes' : e.br = Main => e \in nodes
    BY <1>3, <1>4, <1>5
  <1>7. \A e \in nodes' : \E d \in nodes : d.node = e.node /\ d.br = e.br /\ d.status = e.status /\ d.to = e.to
    BY <1>4, <1>5
  <1>8. OneActive'
    BY <1>6 DEF GInv, OneActive
  <1>9. Buried'
    BY <1>6 DEF GInv, Buried
  <1>10. Unmerged'
    <2> SUFFICES ASSUME NEW e \in nodes', NEW f \in nodes',
                        e.br # Main, e.status = "active", e.to = Null, f.node = e.node
                 PROVE  f.br # Main /\ (f.status = "active" => f.br = e.br)
      BY DEF Unmerged
    <2>1. PICK d \in nodes : d.node = e.node /\ d.br = e.br /\ d.status = e.status /\ d.to = e.to
      BY <1>7
    <2>2. PICK g \in nodes : g.node = f.node /\ g.br = f.br /\ g.status = f.status /\ g.to = f.to
      BY <1>7
    <2>. QED BY <2>1, <2>2 DEF GInv, Unmerged
  <1>11. \A c \in Branch : branch'[c].open = branch[c].open /\ branch'[c].created_at = branch[c].created_at
    BY <1>1 DEF TypeOK
  <1>12. \A c \in Branch : branch[c].created_at \in Nat
    BY DEF TypeOK
  <1>13. \A e \in nodes' : e.br \in AnyBranch
    BY DEF TypeOK, NodeEdge
  <1>14. SinceCreation'
    <2>1. \A c \in Branch : branch'[c].created_at <= clock'
      BY <1>1, <1>2, <1>11, <1>12 DEF GInv, SinceCreation
    <2>2. \A e \in nodes' : e.br # Main => branch'[e.br].open /\ branch'[e.br].created_at <= e.from
      <3> SUFFICES ASSUME NEW e \in nodes', e.br # Main
                   PROVE  branch'[e.br].open /\ branch'[e.br].created_at <= e.from
        OBVIOUS
      <3>1. e.br \in Branch
        BY <1>13 DEF AnyBranch
      <3>2. CASE e \in nodes
        BY <3>1, <3>2, <1>11 DEF GInv, SinceCreation
      <3>3. CASE e \notin nodes
        <4>1. PICK d \in nodes : d.br = b /\ e = Moved(d)
          BY <3>3, <1>4
        <4>2. e.br = b /\ e.from = at /\ branch[b].open
          BY <4>1, <1>3, <1>5 DEF GInv, SinceCreation
        <4>. QED BY <4>2, <2>1, <1>1, <1>11
      <3>. QED BY <3>2, <3>3
    <2>. QED BY <2>1, <2>2 DEF SinceCreation
  <1>15. \A d \in nodes : \E f \in nodes' : f.node = d.node /\ (f.br = Main \/ f.to = Null)
    <2> TAKE d \in nodes
    <2>1. PICK f \in nodes : f.node = d.node /\ (f.br = Main \/ f.to = Null)
      BY DEF GInv, Kept
    <2>2. CASE f.br # b
      BY <2>1, <2>2, <1>4
    <2>3. CASE f.br = b
      <3>1. f.to = Null /\ Moved(f) \in nodes'
        BY <2>1, <2>3, <1>3, <1>4
      <3>. QED BY <2>1, <3>1, <1>5
    <2>. QED BY <2>2, <2>3
  <1>16. Kept'
    <2> SUFFICES ASSUME NEW e \in nodes'
                 PROVE  \E f \in nodes' : f.node = e.node /\ (f.br = Main \/ f.to = Null)
      BY DEF Kept
    <2>1. PICK d \in nodes : d.node = e.node
      BY <1>7
    <2>. QED BY <2>1, <1>15
  <1>17. Progress
    <2>1. \A n \in Node : Used(n) => Used(n)'
      BY <1>15 DEF Used
    <2>2. \A n \in Node, t \in Time : OnMainSince(n, t) => OnMainSince(n, t)'
      BY <1>3, <1>4 DEF OnMainSince
    <2>. QED BY <2>1, <2>2, <1>1, <1>2, <1>11 DEF Progress
  <1>18. \A n : NeverUsed(n) => NeverUsed(n)'
    BY <1>7 DEF NeverUsed
  <1>19. \A q \in Request : request'[q] # Idle /\ request[q].op = "create" => NeverUsed(request[q].node)'
    BY <1>1, <1>18 DEF Pending, Fresh
  <1>20. Pending'
    BY <1>1, <1>17, <1>19, PendingStep
  <1>. QED BY <1>8, <1>9, <1>10, <1>14, <1>16, <1>20 DEF GInv

LEMMA CreateBranchStep ==
  ASSUME TypeOK, TypeOK', GInv, Pending, NEW b \in Branch, CreateBranch(b)
  PROVE  GInv' /\ Pending'
  <1>1. /\ clock < MaxTime /\ clock' = clock + 1 /\ request' = request /\ nodes' = nodes /\ ~ branch[b].open
        /\ branch' = [branch EXCEPT ![b] = [open |-> TRUE, created_at |-> clock + 1, branched_from |-> clock + 1]]
    BY DEF CreateBranch
  <1>2. clock \in Nat /\ clock + 1 \in Nat /\ clock <= clock + 1
    BY <1>1, NextTime, TimeFacts
  <1>3. OneActive' /\ Buried' /\ Unmerged' /\ Kept'
    BY <1>1 DEF GInv, OneActive, Buried, Unmerged, Kept
  <1>4. \A c \in Branch : c # b => branch'[c] = branch[c]
    BY <1>1 DEF TypeOK
  <1>5. branch'[b].created_at = clock + 1
    BY <1>1 DEF TypeOK
  <1>6. \A c \in Branch : branch[c].created_at \in Nat
    BY DEF TypeOK
  <1>7. SinceCreation'
    <2>1. \A c \in Branch : branch'[c].created_at <= clock'
      BY <1>1, <1>2, <1>4, <1>5, <1>6 DEF GInv, SinceCreation
    <2>2. \A e \in nodes' : e.br # Main => branch'[e.br].open /\ branch'[e.br].created_at <= e.from
      BY <1>1, <1>4 DEF GInv, SinceCreation, TypeOK, NodeEdge, AnyBranch
    <2>. QED BY <2>1, <2>2 DEF SinceCreation
  <1>8. Progress
    BY <1>1, <1>2, <1>4 DEF Progress, Used, OnMainSince
  <1>9. \A q \in Request : request'[q] # Idle /\ request[q].op = "create" => NeverUsed(request[q].node)'
    BY <1>1 DEF Pending, Fresh, NeverUsed
  <1>10. Pending'
    BY <1>1, <1>8, <1>9, PendingStep
  <1>. QED BY <1>3, <1>7, <1>10 DEF GInv

(* A merge adds the nodes of the branch to main once: it closes every edge  *)
(* of theirs that another merge could bring, and the one of main that a     *)
(* deleted node still has.                                                   *)
LEMMA MergeStepInv ==
  ASSUME TypeOK, TypeOK', GInv, Pending, NEW b \in Branch, NEW resolved, NEW keep, Merge(b, resolved, keep)
  PROVE  GInv' /\ Pending'
  <1> DEFINE at == clock + 1
             part == Closing(b)
             new == NewOnMain(b)
  <1>1. /\ clock + 1 < MaxTime /\ clock' = clock + 2 /\ branch' = [branch EXCEPT ![b].branched_from = clock + 2]
        /\ request' = request /\ nodes' = (nodes \ part) \cup Close(part, at) \cup new
    BY MergeFacts
  <1>2. at \in Time /\ at \in Nat /\ clock \in Nat /\ clock + 2 \in Nat /\ clock <= clock + 2 /\ at # Null /\ b # Main
    BY <1>1, MergeTimes, TimeFacts, BranchAssumption
  <1>3. \A e \in nodes : e.from \in Nat /\ e.to \in Nat /\ e.from <= clock /\ e.to <= clock
    BY TimeAssumption DEF TypeOK, NodeEdge, Time, Null
  <1>4. /\ part \in SUBSET nodes
        /\ \A e \in Added(b) \cup Removed(b) : e \in nodes /\ e.br = b
        /\ \A e \in Origin(b) : e \in nodes /\ e.br = Main /\ e.status = "active"
    BY <1>1, ClosingFacts
  <1>5. \A e \in Added(b) : e.status = "active" /\ e.to = Null
    BY <1>2, <1>3, <1>4 DEF Added, DiffNodes
  <1>6. \A e \in nodes : e.br = b /\ e.status = "active" /\ e.to = Null => e \in Added(b)
    <2> SUFFICES ASSUME NEW e \in nodes, e.br = b, e.status = "active", e.to = Null
                 PROVE  e \in Added(b)
      OBVIOUS
    <2>1. branch[b].created_at <= e.from /\ branch[b].created_at \in Nat
      BY <1>2 DEF GInv, SinceCreation, TypeOK
    <2>2. e.from >= branch[b].created_at /\ e.from <= clock + 1
      BY <2>1, <1>2, <1>3
    <2>. QED BY <2>2 DEF Added, DiffNodes
  <1>7. \A d \in Added(b), g \in nodes : g.node = d.node => g.br # Main
    BY <1>2, <1>4, <1>5 DEF GInv, Unmerged
  <1>8. \A d \in Removed(b) : \E g \in Origin(b) : g.node = d.node
    <2> TAKE d \in Removed(b)
    <2>1. PICK g \in CurrentNodeEdges(View(Main), d.node, clock + 1) : g.status = "active"
      BY DEF Removed, NodeActive
    <2>2. g \in Origin(b)
      BY <2>1 DEF Origin
    <2>. QED BY <2>1, <2>2, CurrentNodes
  <1>9. \A e \in new : /\ e \in NodeEdge /\ e.br = Main /\ e.from = at /\ e.to = Null
                       /\ \/ e.status = "active" /\ \E d \in Added(b) : d.node = e.node
                          \/ e.status = "deleted" /\ \E d \in Removed(b) : d.node = e.node
    BY <1>1, NewOnMainFacts
  <1>10. \A d \in Added(b) \cup Removed(b) : \E e \in new : e.node = d.node /\ e.br = Main
    <2>1. \A d \in Added(b) \cup Removed(b) : d.node \in Node
      BY <1>4 DEF TypeOK, NodeEdge
    <2>2. Main \in AnyBranch /\ "active" \in Status /\ "deleted" \in Status
      BY DEF AnyBranch, Status
    <2>. QED BY <1>2, <2>1, <2>2, NewNodeEdge DEF NewOnMain
  <1>11. \A e, f \in NodeEdge : e.node = f.node /\ e.br = f.br /\ e.status = f.status /\ e.from = f.from /\ e.to = f.to => e = f
    BY DEF NodeEdge
  <1>12. part = Added(b) \cup Removed(b) \cup Origin(b)
    BY DEF Closing
  <1> HIDE DEF at, part, new
  <1>13. /\ \A d \in nodes : Succ(d, part, at) \in nodes'
         /\ \A e \in nodes' : e \in new \/ \E d \in nodes : e = Succ(d, part, at)
    BY <1>1, <1>4, Bases
  <1>14. \A d \in nodes : LET e == Succ(d, part, at) IN
           /\ e.node = d.node /\ e.br = d.br /\ e.status = d.status /\ e.from = d.from
           /\ d \in part => e.to = at
           /\ d \notin part => e = d
           /\ e.to = Null => e = d /\ d \notin part
           /\ d.to # Null => e.to # Null
    BY <1>2, SuccFacts DEF TypeOK
  <1>15. OneActive'
    <2> SUFFICES ASSUME NEW e \in nodes', NEW f \in nodes', e.br = Main, f.br = Main,
                        e.status = "active", f.status = "active", e.node = f.node
                 PROVE  e = f
      BY DEF OneActive
    <2>1. CASE e \in new /\ f \in new
      BY <2>1, <1>9, <1>11
    <2>2. CASE e \in new /\ f \notin new
      <3>1. PICK g \in nodes : f = Succ(g, part, at)
        BY <2>2, <1>13
      <3>. QED BY <2>2, <3>1, <1>7, <1>9, <1>14
    <2>3. CASE e \notin new /\ f \in new
      <3>1. PICK g \in nodes : e = Succ(g, part, at)
        BY <2>3, <1>13
      <3>. QED BY <2>3, <3>1, <1>7, <1>9, <1>14
    <2>4. CASE e \notin new /\ f \notin new
      <3>1. PICK d \in nodes : e = Succ(d, part, at)
        BY <2>4, <1>13
      <3>2. PICK g \in nodes : f = Succ(g, part, at)
        BY <2>4, <1>13
      <3>3. d = g
        BY <3>1, <3>2, <1>14 DEF GInv, OneActive
      <3>. QED BY <3>1, <3>2, <3>3
    <2>. QED BY <2>1, <2>2, <2>3, <2>4
  <1>16. Buried'
    <2> SUFFICES ASSUME NEW e \in nodes', e.br = Main, e.status = "deleted"
                 PROVE  e.to = Null /\ \A f \in nodes' : f.br = Main /\ f.status = "active" /\ f.node = e.node => f.to # Null
      BY DEF Buried
    <2>1. CASE e \in new
      <3>1. PICK d \in Removed(b) : d.node = e.node
        BY <2>1, <1>9
      <3>2. PICK h \in Origin(b) : h.node = e.node
        BY <3>1, <1>8
      <3> SUFFICES ASSUME NEW f \in nodes', f.br = Main, f.status = "active", f.node = e.node
                   PROVE  f.to # Null
        BY <2>1, <1>9
      <3>3. f \notin new
        BY <3>2, <1>4, <1>7, <1>9
      <3>4. PICK g \in nodes : f = Succ(g, part, at)
        BY <3>3, <1>13
      <3>5. g = h
        BY <3>2, <3>4, <1>4, <1>14 DEF GInv, OneActive
      <3>. QED BY <3>4, <3>5, <1>2, <1>12, <1>14
    <2>2. CASE e \notin new
      <3>1. PICK d \in nodes : e = Succ(d, part, at)
        BY <2>2, <1>13
      <3>2. d.br = Main /\ d.status = "deleted" /\ d.node = e.node
        BY <3>1, <1>14
      <3>3. d \notin part /\ e = d /\ d.to = Null
        BY <3>1, <3>2, <1>2, <1>4, <1>12, <1>14 DEF GInv, Buried
      <3> SUFFICES ASSUME NEW f \in nodes', f.br = Main, f.status = "active", f.node = e.node
                   PROVE  f.to # Null
        BY <3>3
      <3>4. f \notin new
        BY <3>2, <1>7, <1>9
      <3>5. PICK g \in nodes : f = Succ(g, part, at)
        BY <3>4, <1>13
      <3>6. g.to # Null
        BY <3>2, <3>5, <1>14 DEF GInv, Buried
      <3>. QED BY <3>5, <3>6, <1>14
    <2>. QED BY <2>1, <2>2
  <1>17. Unmerged'
    <2> SUFFICES ASSUME NEW e \in nodes', NEW f \in nodes',
                        e.br # Main, e.status = "active", e.to = Null, f.node = e.node
                 PROVE  f.br # Main /\ (f.status = "active" => f.br = e.br)
      BY DEF Unmerged
    <2>1. PICK d \in nodes : e = Succ(d, part, at)
      BY <1>9, <1>13
    <2>2. e = d /\ d \notin part
      BY <2>1, <1>14
    <2>3. f \notin new
      <3>1. \A g \in nodes : g.node = e.node => g.br # Main /\ (g.status = "active" => g.br = e.br)
        BY <2>2 DEF GInv, Unmerged
      <3>2. \A g \in Removed(b) : g.node # e.node
        BY <3>1, <1>4, <1>8
      <3>3. \A g \in Added(b) : g.node # e.node
        BY <2>2, <3>1, <1>4, <1>5, <1>6, <1>12
      <3>. QED BY <3>2, <3>3, <1>9
    <2>4. PICK g \in nodes : f = Succ(g, part, at)
      BY <2>3, <1>13
    <2>5. g.node = e.node /\ g.br = f.br /\ g.status = f.status
      BY <2>4, <1>14
    <2>. QED BY <2>2, <2>5 DEF GInv, Unmerged
  <1>18. \A c \in Branch : branch'[c].open = branch[c].open /\ branch'[c].created_at = branch[c].created_at
    BY <1>1 DEF TypeOK
  <1>19. \A c \in Branch : branch[c].created_at \in Nat
    BY DEF TypeOK
  <1>20. SinceCreation'
    <2>1. \A c \in Branch : branch'[c].created_at <= clock'
      BY <1>1, <1>2, <1>18, <1>19 DEF GInv, SinceCreation
    <2>2. \A e \in nodes' : e.br # Main => branch'[e.br].open /\ branch'[e.br].created_at <= e.from
      <3> SUFFICES ASSUME NEW e \in nodes', e.br # Main
                   PROVE  branch'[e.br].open /\ branch'[e.br].created_at <= e.from
        OBVIOUS
      <3>1. PICK d \in nodes : e = Succ(d, part, at)
        BY <1>9, <1>13
      <3>2. d.br \in Branch /\ d.br = e.br /\ d.from = e.from
        BY <3>1, <1>14 DEF TypeOK, NodeEdge, AnyBranch
      <3>. QED BY <3>2, <1>18 DEF GInv, SinceCreation
    <2>. QED BY <2>1, <2>2 DEF SinceCreation
  <1>21. new \subseteq nodes'
    BY <1>1
  <1>22. Kept'
    <2> SUFFICES ASSUME NEW e \in nodes'
                 PROVE  \E f \in nodes' : f.node = e.node /\ (f.br = Main \/ f.to = Null)
      BY DEF Kept
    <2>1. CASE e \in new
      BY <2>1, <1>9
    <2>2. CASE e \notin new
      <3>1. PICK d \in nodes : e = Succ(d, part, at)
        BY <2>2, <1>13
      <3>2. PICK f \in nodes : f.node = d.node /\ (f.br = Main \/ f.to = Null)
        BY DEF GInv, Kept
      <3>3. d.node = e.node
        BY <3>1, <1>14
      <3>4. CASE f.br = Main \/ f \notin part
        BY <3>2, <3>3, <3>4, <1>13, <1>14
      <3>5. CASE f.br # Main /\ f \in part
        <4>1. f \in Added(b) \cup Removed(b)
          BY <3>5, <1>4, <1>12
        <4>. QED BY <3>2, <3>3, <4>1, <1>10, <1>21
      <3>. QED BY <3>4, <3>5
    <2>. QED BY <2>1, <2>2
  <1> DEFINE N == {d.node : d \in Added(b) \cup Removed(b)}
  <1>23. \A e \in new : e.node \in N
    BY <1>9
  <1> HIDE DEF N
  <1>24. /\ \A n : Used(n) => Used(n)'
         /\ \A n, t : OnMainSince(n, t) => OnMainSince(n, t)'
         /\ \A n : NeverUsed(n) /\ n \notin N => NeverUsed(n)'
    BY <1>1, <1>2, <1>4, <1>23, ClosedProgress
  <1>25. Progress
    BY <1>1, <1>2, <1>18, <1>24 DEF Progress
  <1>26. \A q \in Request : request'[q] # Idle /\ request[q].op = "create" => NeverUsed(request[q].node)'
    <2> SUFFICES ASSUME NEW q \in Request, request[q] # Idle, request[q].op = "create"
                 PROVE  NeverUsed(request[q].node)'
      BY <1>1
    <2>1. NeverUsed(request[q].node)
      BY DEF Pending, Fresh
    <2>2. request[q].node \notin N
      BY <2>1, <1>4 DEF NeverUsed, N
    <2>. QED BY <2>1, <2>2, <1>1, <1>24
  <1>27. Pending'
    BY <1>1, <1>25, <1>26, PendingStep
  <1>. QED BY <1>15, <1>16, <1>17, <1>20, <1>22, <1>27 DEF GInv

LEMMA BeginStep ==
  ASSUME TypeOK, TypeOK', GInv, Pending, NEW q \in Request, NEW op \in {"create", "update", "delete"},
         NEW b \in AnyBranch, NEW n \in Node, NEW p \in Parent, Begin(q, op, b, n, p)
  PROVE  GInv' /\ Pending'
  <1>0. PICK m : m = [op |-> op, view |-> View(b), node |-> n, peer |-> p, at |-> clock + 1]
    OBVIOUS
  <1>1. /\ clock < MaxTime /\ clock' = clock + 1 /\ nodes' = nodes /\ branch' = branch /\ Exists(b)
        /\ request' = [request EXCEPT ![q] = m] /\ request[q] = Idle
        /\ op = "update" => n \in Child
    BY <1>0 DEF Begin
  <1>2. /\ op = "create" => n \in Child /\ NeverUsed(n)
        /\ op = "create" => \A o \in Request : request[o] # Idle => request[o].op # "create" \/ request[o].node # n
        /\ op # "create" => NodeActive(View(b), n, clock + 1)
    BY DEF Begin
  <1>3. clock \in Nat /\ clock + 1 \in Nat /\ clock <= clock + 1
    BY <1>1, NextTime, TimeFacts
  <1>4. GInv' /\ Progress /\ \A x : NeverUsed(x) => NeverUsed(x)'
    BY <1>1, <1>3, SameNodes
  <1>5. m.op = op /\ m.view = View(b) /\ m.node = n /\ m.peer = p /\ m.at = clock + 1 /\ m.view.name = b
    BY <1>0 DEF View
  <1>6. m # Idle
    BY <1>0 DEF Idle
  <1>7. request'[q] = m /\ \A o \in Request : o # q => request'[o] = request[o]
    BY <1>1 DEF TypeOK
  <1>8. Fresh(m)' /\ WasThere(m)' /\ OfBranch(m)'
    <2>1. op = "create" => NeverUsed(n)'
      BY <1>2, <1>4
    <2>2. op = "delete" => Used(n) /\ (b = Main => OnMainSince(n, clock + 1))
      BY <1>2, WasOnMain, <1>5
    <2>3. op = "delete" => Used(n)' /\ (b = Main => \E e \in nodes' : e.br = Main /\ e.status = "active" /\ e.node = n /\ e.from <= clock + 1)
      BY <2>2, <1>1 DEF Used, OnMainSince
    <2>4. b # Main => branch'[b].open /\ branch'[b].created_at <= clock + 1
      <3> SUFFICES ASSUME b # Main PROVE branch'[b].open /\ branch'[b].created_at <= clock + 1
        OBVIOUS
      <3>1. b \in Branch /\ branch[b].open
        BY <1>1 DEF Exists, AnyBranch
      <3>2. branch[b].created_at <= clock /\ branch[b].created_at \in Nat
        BY <3>1 DEF GInv, SinceCreation, TypeOK
      <3>. QED BY <3>1, <3>2, <1>1, <1>3
    <2>5. clock + 1 <= clock'
      BY <1>1, <1>3
    <2>6. Fresh(m)'
      BY <2>1, <1>5 DEF Fresh
    <2>7. WasThere(m)'
      BY <2>3, <1>5 DEF WasThere, OnMainSince
    <2>8. OfBranch(m)'
      BY <2>4, <2>5, <1>5 DEF OfBranch
    <2>. QED BY <2>6, <2>7, <2>8
  <1>9. m.op # "delete" => m.node \in Child
    BY <1>1, <1>2, <1>5
  <1>10. m.op = "create" => Alone(q)'
    BY <1>2, <1>5, <1>7 DEF Alone
  <1>11. ASSUME NEW o \in Request, o # q, request'[o] # Idle
         PROVE  /\ Fresh(request[o])' /\ WasThere(request[o])' /\ OfBranch(request[o])'
                /\ request'[o].op = "create" => Alone(o)'
                /\ request'[o].op # "delete" => request'[o].node \in Child
    <2>1. PICK r : r = request[o]
      OBVIOUS
    <2>2. request'[o] = r /\ r # Idle
      BY <2>1, <1>7, <1>11
    <2>3. /\ Fresh(r) /\ WasThere(r) /\ OfBranch(r) /\ (r.op = "create" => Alone(o))
          /\ r.op # "delete" => r.node \in Child
      BY <2>1, <2>2 DEF Pending
    <2>4. r.node \in Node /\ r.at \in Time /\ r.at \in Nat
      BY <2>1, <2>2, RequestFacts, TimeFacts
    <2>5. Fresh(r)' /\ WasThere(r)'
      BY <2>3, <2>4, <1>4 DEF Fresh, WasThere, Progress
    <2>6. OfBranch(r)'
      BY <2>3, <2>4, <1>1, <1>3 DEF OfBranch
    <2>7. r.op = "create" => Alone(o)'
      <3> SUFFICES ASSUME r.op = "create", NEW u \in Request, u # o, request'[u] # Idle, request'[u].op = "create"
                   PROVE  request'[u].node # request'[o].node
        BY DEF Alone
      <3>1. CASE u = q
        BY <3>1, <2>1, <2>2, <1>2, <1>5, <1>7
      <3>2. CASE u # q
        BY <3>2, <2>1, <2>2, <2>3, <1>7 DEF Alone
      <3>. QED BY <3>1, <3>2
    <2>. QED BY <2>2, <2>3, <2>5, <2>6, <2>7
  <1>12. Pending'
    BY <1>7, <1>8, <1>9, <1>10, <1>11 DEF Pending
  <1>. QED BY <1>4, <1>12

LEMMA AbortStep ==
  ASSUME TypeOK, TypeOK', GInv, Pending, NEW q \in Request, Abort(q)
  PROVE  GInv' /\ Pending'
  <1>1. request' = [request EXCEPT ![q] = Idle] /\ nodes' = nodes /\ branch' = branch /\ clock' = clock
    BY DEF Abort
  <1>2. clock <= clock'
    BY <1>1, TimeFacts DEF TypeOK
  <1>3. GInv' /\ Progress /\ \A x : NeverUsed(x) => NeverUsed(x)'
    BY <1>1, <1>2, SameNodes
  <1>4. \A o \in Request : request'[o] # Idle => request'[o] = request[o]
    BY <1>1 DEF TypeOK
  <1>5. \A o \in Request : request'[o] # Idle /\ request[o].op = "create" => NeverUsed(request[o].node)'
    BY <1>3, <1>4 DEF Pending, Fresh
  <1>. QED BY <1>3, <1>4, <1>5, PendingStep

LEMMA UpdateStep ==
  ASSUME TypeOK, TypeOK', GInv, Pending, NEW q \in Request, CommitUpdate(q)
  PROVE  GInv' /\ Pending'
  <1>1. Commits(q, "update") /\ nodes' = nodes /\ branch' = branch
    BY DEF CommitUpdate
  <1>2. request' = [request EXCEPT ![q] = Idle] /\ clock <= clock'
    BY <1>1, CommitFacts
  <1>3. GInv' /\ Progress /\ \A x : NeverUsed(x) => NeverUsed(x)'
    BY <1>1, <1>2, SameNodes
  <1>4. \A o \in Request : request'[o] # Idle => request'[o] = request[o]
    BY <1>2 DEF TypeOK
  <1>5. \A o \in Request : request'[o] # Idle /\ request[o].op = "create" => NeverUsed(request[o].node)'
    BY <1>3, <1>4 DEF Pending, Fresh
  <1>. QED BY <1>3, <1>4, <1>5, PendingStep

-----------------------------------------------------------------------------
LEMMA InitInv == Init => IInv
  <1> SUFFICES ASSUME Init PROVE IInv
    OBVIOUS
  <1>1. 1 \in Time /\ Main \in AnyBranch /\ "active" \in Status /\ Parent \subseteq Node
    BY TimeAssumption DEF Time, AnyBranch, Status, Node
  <1>2. \A e \in nodes : e \in NodeEdge /\ e.br = Main /\ e.status = "active" /\ e.from = 1 /\ e.to = Null
    BY <1>1, NewNodeEdge DEF Init
  <1>3. \A e, f \in nodes : e.node = f.node => e = f
    BY <1>1, NewNodeEdge DEF Init
  <1>4. TypeOK
    <2>1. branch \in [Branch -> [open : BOOLEAN, created_at : 0..MaxTime, branched_from : 0..MaxTime]]
      BY TimeAssumption DEF Init, NoBranch
    <2>2. Timely(nodes, clock) /\ Timely(rels, clock)
      BY <1>2 DEF Timely, Init, Null
    <2>3. nodes \subseteq NodeEdge /\ rels \subseteq RelEdge /\ incidents \subseteq Incident /\ clock \in Time
      BY <1>1, <1>2 DEF Init
    <2>4. request \in [Request -> Mutation \cup {Idle}]
      BY DEF Init
    <2>. QED BY <2>1, <2>2, <2>3, <2>4, TypeParts
  <1>5. OneActive /\ Buried /\ Unmerged /\ Kept
    BY <1>2, <1>3 DEF OneActive, Buried, Unmerged, Kept
  <1>6. SinceCreation
    BY <1>2 DEF SinceCreation, Init, NoBranch
  <1>7. Pending
    BY DEF Pending, Init
  <1>. QED BY <1>4, <1>5, <1>6, <1>7 DEF IInv

LEMMA NextInv == IInv /\ [Next]_vars => IInv'
  <1> SUFFICES ASSUME IInv, [Next]_vars PROVE IInv'
    OBVIOUS
  <1>1. TypeOK /\ GInv /\ Pending
    BY DEF IInv, GInv
  <1> SUFFICES TypeOK' /\ GInv' /\ Pending'
    BY DEF IInv, GInv
  <1>2. ASSUME NEW q \in Request, NEW b \in AnyBranch, NEW n \in Node, NEW p \in Parent,
               NEW op \in {"create", "update", "delete"}, Begin(q, op, b, n, p)
        PROVE  TypeOK' /\ GInv' /\ Pending'
    BY <1>1, <1>2, BeginType, BeginStep
  <1>3. ASSUME NEW q \in Request, CommitCreate(q) PROVE TypeOK' /\ GInv' /\ Pending'
    BY <1>1, <1>3, CreateType, CreateStep
  <1>4. ASSUME NEW q \in Request, CommitUpdate(q) PROVE TypeOK' /\ GInv' /\ Pending'
    BY <1>1, <1>4, UpdateType, UpdateStep
  <1>5. ASSUME NEW q \in Request, CommitDelete(q) PROVE TypeOK' /\ GInv' /\ Pending'
    BY <1>1, <1>5, DeleteType, DeleteStep
  <1>6. ASSUME NEW q \in Request, Abort(q) PROVE TypeOK' /\ GInv' /\ Pending'
    BY <1>1, <1>6, AbortType, AbortStep
  <1>7. ASSUME NEW b \in Branch, CreateBranch(b) PROVE TypeOK' /\ GInv' /\ Pending'
    BY <1>1, <1>7, CreateBranchType, CreateBranchStep
  <1>8. ASSUME NEW b \in Branch, Rebase(b) PROVE TypeOK' /\ GInv' /\ Pending'
    BY <1>1, <1>8, RebaseType, RebaseStep
  <1>9. ASSUME NEW b \in Branch, NEW resolved, NEW keep, Merge(b, resolved, keep) PROVE TypeOK' /\ GInv' /\ Pending'
    BY <1>1, <1>9, MergeType, MergeStepInv
  <1>10. CASE UNCHANGED vars
    BY <1>1, <1>10 DEF vars, TypeOK, GInv, OneActive, Buried, Unmerged, SinceCreation, Kept, Pending, Fresh, Alone,
       WasThere, OfBranch, NeverUsed, Used, OnMainSince
  <1>. QED BY <1>2, <1>3, <1>4, <1>5, <1>6, <1>7, <1>8, <1>9, <1>10 DEF Next

(* The inductive invariant holds in every state. *)
LEMMA Inductive == Spec => []IInv
  BY InitInv, NextInv, PTL DEF Spec

(* Edges keep their types and no edge begins in the future or ends before it *)
(* begins, whatever the order in which requests, rebases and merges stamp    *)
(* and close edges.                                                          *)
THEOREM TypeCorrect == Spec => []TypeOK
  <1>1. IInv => TypeOK
    BY DEF IInv
  <1>. QED BY <1>1, Inductive, PTL

(* A node deleted on main does not come back: NodeDeleteQuery and the merge  *)
(* close the only edge of main that shows it, and no merge adds another.     *)
THEOREM NoResurrectionAlways == Spec => []NoResurrection
  <1>1. IInv => NoResurrection
    <2> SUFFICES ASSUME IInv, NEW e \in nodes, e.br = Main, e.status = "deleted",
                        NEW f \in CurrentNodeEdges(View(Main), e.node, clock + 1), f.status = "active"
                 PROVE  FALSE
      BY DEF NoResurrection, NodeActive
    <2>1. f \in nodes /\ f.node = e.node /\ Visible(f, View(Main), clock + 1)
      BY CurrentNodes
    <2>2. f.br = Main /\ ValidAt(f, clock + 1)
      BY <2>1, ViewOfMain DEF Visible
    <2>3. f.to # Null
      BY <2>1, <2>2 DEF IInv, Buried
    <2>4. f.to <= clock /\ f.to \in Nat /\ clock \in Nat
      BY <2>1, TimeAssumption DEF IInv, TypeOK, NodeEdge, Time, Null
    <2>. QED BY <2>2, <2>3, <2>4 DEF ValidAt
  <1>. QED BY <1>1, Inductive, PTL

-----------------------------------------------------------------------------
(* Nothing dangles.  The argument reads the graph item by item: the marks of *)
(* a node, or of a relationship, are what its edges say of it apart from the *)
(* ends they lead to.  Both IS_RELATED edges of a relationship carry the same *)
(* marks (Twin), so that a path that mixes two of them never comes first and *)
(* no read depends on ties.                                                  *)
MarkSet == [br : AnyBranch, status : Status, from : Time, to : {Null} \cup Time]
mark(b, s, at) == [br |-> b, status |-> s, from |-> at, to |-> Null]
MarkOf(e) == [br |-> e.br, status |-> e.status, from |-> e.from, to |-> e.to]

NodeMarks(N, n) == {MarkOf(e) : e \in {f \in N : f.node = n}}
RelMarks(R, r, x) == {MarkOf(e) : e \in {f \in R : f.rel = r /\ f.end = x}}
Twin(R) == \A r \in Rel : RelMarks(R, r, "child") = RelMarks(R, r, "parent")

(* What a read of a view finds first among the marks of an item. *)
Best(S, v, t) ==
  {k \in S : /\ Visible(k, v, t)
             /\ \A l \in S : Visible(l, v, t) => level(l) < level(k) \/ (level(l) = level(k) /\ l.from <= k.from)}

(* Main shows an item from its first active mark to its first deleted one,  *)
(* and a branch shows what its open mark says, or else what main showed when *)
(* it was branched.                                                         *)
MainOn(S, t) ==
  /\ \E k \in S : k.br = Main /\ k.status = "active" /\ k.from <= t
  /\ ~ \E k \in S : k.br = Main /\ k.status = "deleted" /\ k.from <= t
Opened(S, b) == {k \in S : k.br = b /\ k.to = Null}
Shown(S, b, f, t) ==
  IF b = Main THEN MainOn(S, t)
  ELSE (\E k \in Opened(S, b) : k.status = "active") \/ (Opened(S, b) = {} /\ MainOn(S, f))

(* The marks of an item: a branch has one open mark of it; an item that a   *)
(* branch added has no other mark until it is merged or deleted there; main *)
(* closes an active mark when it is deleted; nothing becomes active again;  *)
(* and main has an item after the branch that added it.                     *)
OneOpened(S) == \A k, l \in S : k.br = l.br /\ k.br # Main /\ k.to = Null /\ l.to = Null => k = l
Sole(S) == \A k, l \in S : k.br # Main /\ k.status = "active" /\ k.to = Null => l = k
MainClosed(S) ==
  \A k \in S : k.br = Main =>
    /\ k.status = "deleted" => k.to = Null
    /\ k.status = "active" /\ k.to # Null => \E d \in S : d.br = Main /\ d.status = "deleted" /\ d.from = k.to
Order(S) == \A k, d \in S : k.br = d.br /\ k.status = "active" /\ d.status = "deleted" => k.from < d.from
MainFollows(S) == \A k, g \in S : k.br # Main /\ k.status = "active" /\ g.br = Main => k.from < g.from
InOrder(S) == OneOpened(S) /\ Sole(S) /\ MainClosed(S) /\ Order(S) /\ MainFollows(S)

(* The marks of a relationship, of which a merge takes the latest: no two of *)
(* a branch began together, the open one is the latest, and it was created  *)
(* once.                                                                    *)
OneFrom(S) == \A k, l \in S : k.br = l.br /\ k.from = l.from => k = l
LastOpen(S) == \A k, l \in S : k.br # Main /\ k.br = l.br /\ k.to = Null => l.from <= k.from
OneBirth(S) == \A k, l \in S : k.br # Main /\ l.br # Main /\ k.status = "active" /\ l.status = "active" => k = l
Tracked(S) == OneFrom(S) /\ LastOpen(S) /\ OneBirth(S)

(* A closed mark that is the latest of its branch was merged, and the branch *)
(* reads on main what it said.                                               *)
LatestOf(S, k) == \A l \in S : l.br = k.br => l.from <= k.from
Agreed(S, b, f) ==
  \A k \in S : k.br = b /\ k.to # Null /\ LatestOf(S, k) => (k.status = "active" <=> MainOn(S, f))

From(b) == branch[b].branched_from
OfRel(r) == RelMarks(rels, r, "child")
OfNode(n) == NodeMarks(nodes, n)
ShowsRel(b, r) == Shown(OfRel(r), b, From(b), clock)
ShowsNode(b, n) == Shown(OfNode(n), b, From(b), clock)

(* What a branch shows: every relationship joins two nodes that are there,   *)
(* and every child has one parent.                                           *)
JoinedOn(b) ==
  /\ \A r \in Rel : ShowsRel(b, r) => ShowsNode(b, r.child) /\ ShowsNode(b, r.parent)
  /\ \A c \in Child : ShowsNode(b, c) => \E r \in Rel : r.child = c /\ ShowsRel(b, r)
  /\ \A r, s \in Rel : ShowsRel(b, r) /\ ShowsRel(b, s) /\ r.child = s.child => r = s

(* Main has a relationship since it was created, or since a merge moved some *)
(* branch past it.                                                           *)
MainBirths(S, t) ==
  \A k \in S : k.br = Main /\ k.status = "active" => k.from = t \/ \E b \in Branch : From(b) > k.from
BranchMarks(S) == \A k \in S : k.br # Main => branch[k.br].open /\ branch[k.br].created_at <= k.from

RelSound(r) ==
  LET S == OfRel(r) IN
  /\ InOrder(S) /\ Tracked(S)
  /\ \A k \in S : r.born <= k.from
  /\ BranchMarks(S) /\ MainBirths(S, r.born)
  /\ \A b \in Branch : Agreed(S, b, From(b))

(* Only children are created, and a child before its relationships, which   *)
(* no other child takes over.                                               *)
NodeSound(n) ==
  LET S == OfNode(n) IN
  /\ InOrder(S)
  /\ \A k \in S : k.br # Main /\ k.status = "active" => n \in Child
ChildFirst(r) ==
  /\ OfRel(r) # {} => OfNode(r.child) # {}
  /\ \A k \in OfRel(r) : k.status = "active" =>
       IF k.br = Main THEN \E g \in OfNode(r.child) : g.br = Main /\ g.status = "active" /\ g.from <= k.from
       ELSE \A g \in OfNode(r.child) : g.br = k.br /\ g.status = "active" => g.from <= k.from

Quiet ==
  /\ Twin(rels)
  /\ \A r \in Rel : RelSound(r) /\ ChildFirst(r)
  /\ \A n \in Node : NodeSound(n)
  /\ \A b \in AnyBranch : Exists(b) => JoinedOn(b)

(* A time that a request has drawn is on no edge and on no branch. *)
NotYet(t) ==
  /\ \A e \in nodes \cup rels : e.from # t /\ e.to # t
  /\ \A b \in Branch : From(b) # t
Waits ==
  \A q \in Request : request[q] # Idle =>
    /\ NotYet(request[q].at)
    /\ \A o \in Request : o # q /\ request[o] # Idle => request[o].at # request[q].at
    /\ request[q].view.branched_from < request[q].at
Times == \A b \in Branch : From(b) <= clock /\ (branch[b].open => branch[b].created_at <= From(b))

QInv == (incidents = {} => Quiet) /\ Times /\ Waits

(* A set of numbers has a least one. *)
LEMMA LeastNumber ==
  ASSUME NEW S, S \subseteq Nat, S # {}
  PROVE  \E x \in S : \A y \in S : x <= y
  <1>1. PICK x \in S : \A y \in S : ~ (<<y, x>> \in OpToRel(<, Nat))
    BY WFMin, NatLessThanWellFounded
  <1>2. \A y \in S : ~ (y < x)
    BY <1>1 DEF OpToRel
  <1>. QED BY <1>2

(* What the parts of a mark are.                                             *)
LEMMA MarkFacts ==
  ASSUME NEW k \in MarkSet
  PROVE  /\ k.br \in AnyBranch /\ k.from \in Nat /\ k.to \in Nat /\ k.from \in Time
         /\ (k.to = Null \/ k.to \in Time)
         /\ k.status = "active" \/ k.status = "deleted"
  <1>1. k.br \in AnyBranch /\ k.status \in Status /\ k.from \in Time /\ k.to \in {Null} \cup Time
    BY DEF MarkSet, Null
  <1>2. k.from \in Nat /\ k.to \in Nat
    BY <1>1, TimeAssumption DEF Time, Null
  <1>. QED BY <1>1, <1>2 DEF Status

LEMMA NewMark ==
  ASSUME NEW b \in AnyBranch, NEW s \in Status, NEW at \in Time
  PROVE  LET k == mark(b, s, at) IN
         k \in MarkSet /\ k.br = b /\ k.status = s /\ k.from = at /\ k.to = Null
  BY DEF mark, MarkSet, Null

(* Marks that are closed keep what they say. *)
Shut(S, X, at) == (S \ X) \cup {[k EXCEPT !.to = at] : k \in X}

LEMMA ShutMark ==
  ASSUME NEW k \in MarkSet, NEW at \in Time
  PROVE  LET l == [k EXCEPT !.to = at] IN
         /\ l \in MarkSet /\ l.br = k.br /\ l.status = k.status /\ l.from = k.from /\ l.to = at
         /\ at # Null
  BY TimeFacts DEF MarkSet

LEMMA MovedMark ==
  ASSUME NEW k \in MarkSet, NEW at \in Time
  PROVE  LET l == [k EXCEPT !.from = at] IN
         l \in MarkSet /\ l.br = k.br /\ l.status = k.status /\ l.from = at /\ l.to = k.to
  BY DEF MarkSet

(* The marks that a step which closes X and adds N leaves. *)
Closes(k, at, l) == l = [k EXCEPT !.to = at] /\ l.br = k.br /\ l.status = k.status /\ l.from = k.from /\ l.to = at
Closed(S, X, at, N, T) ==
  /\ T \in SUBSET MarkSet /\ N \subseteq T /\ at # Null
  /\ \A l \in T : l \in N \/ (l \in S /\ l \notin X) \/ \E k \in X : Closes(k, at, l)
  /\ \A k \in X : \E l \in T : Closes(k, at, l)
  /\ \A k \in S \ X : k \in T

LEMMA ShutFacts ==
  ASSUME NEW S \in SUBSET MarkSet, NEW X \in SUBSET S, NEW at \in Time, NEW N \in SUBSET MarkSet
  PROVE  Closed(S, X, at, N, Shut(S, X, at) \cup N)
  <1>1. \A k \in X : [k EXCEPT !.to = at] \in MarkSet /\ Closes(k, at, [k EXCEPT !.to = at])
    BY ShutMark DEF Closes
  <1>2. at # Null
    BY TimeFacts
  <1>. QED BY <1>1, <1>2 DEF Shut, Closed

(* Closing marks changes nothing for main, and new marks of main change what *)
(* it shows from then on.                                                    *)
LEMMA MainOnShut ==
  ASSUME NEW S \in SUBSET MarkSet, NEW X \in SUBSET S, NEW at \in Time, NEW N \in SUBSET MarkSet,
         NEW T, Closed(S, X, at, N, T),
         NEW t \in Nat, \A k \in N : k.br = Main => k.from > t
  PROVE  MainOn(T, t) <=> MainOn(S, t)
  <1>1. \A k \in N : k.from \in Nat
    BY MarkFacts
  <1>2. \A l \in T : l.br = Main /\ l.from <= t => \E k \in S : l.br = k.br /\ l.status = k.status /\ l.from = k.from
    BY <1>1 DEF Closed, Closes
  <1>3. \A k \in S : \E l \in T : l.br = k.br /\ l.status = k.status /\ l.from = k.from
    BY DEF Closed, Closes
  <1>. QED BY <1>2, <1>3 DEF MainOn

(* Some visible mark of main is the latest. *)
LEMMA BestOfMain ==
  ASSUME NEW S \in SUBSET MarkSet, NEW v, v.name = Main, NEW t \in Nat, NEW k \in S, Visible(k, v, t)
  PROVE  Best(S, v, t) # {}
  <1> DEFINE V == {l \in S : Visible(l, v, t)}
             P == {t - l.from : l \in V}
  <1>1. \A l \in V : l.br = Main /\ l.from \in Nat /\ l.from <= t /\ level(l) = 1
    BY MarkFacts DEF Visible, ValidAt, level
  <1>2. P \subseteq Nat /\ P # {}
    BY <1>1
  <1>3. PICK x \in P : \A y \in P : x <= y
    BY <1>2, LeastNumber
  <1>4. PICK m \in V : x = t - m.from
    BY <1>3
  <1>5. \A l \in V : l.from <= m.from
    BY <1>1, <1>3, <1>4
  <1>6. m \in Best(S, v, t)
    BY <1>1, <1>5 DEF Best
  <1>. QED BY <1>6

(* A read of main finds an item exactly when main shows it then.             *)
LEMMA ReadMain ==
  ASSUME NEW S \in SUBSET MarkSet, InOrder(S), NEW v, v.name = Main, NEW t \in Nat
  PROVE  (\E k \in Best(S, v, t) : k.status = "active") <=> MainOn(S, t)
  <1>1. \A k \in S : /\ k.from \in Nat /\ k.to \in Nat /\ (k.status = "active" \/ k.status = "deleted")
                     /\ Visible(k, v, t) <=> k.br = Main /\ k.from <= t /\ (k.to = Null \/ k.to >= t)
                     /\ k.br = Main => level(k) = 1
    BY MarkFacts DEF Visible, ValidAt, level
  <1>2. \A d \in S : d.br = Main /\ d.status = "deleted" => d.to = Null
    BY DEF InOrder, MainClosed
  <1>3. ASSUME NEW k \in Best(S, v, t), k.status = "active" PROVE MainOn(S, t)
    <2>1. k \in S /\ Visible(k, v, t)
      BY DEF Best
    <2>2. ASSUME NEW d \in S, d.br = Main, d.status = "deleted", d.from <= t PROVE FALSE
      <3>1. Visible(d, v, t) /\ k.from < d.from
        BY <1>1, <1>2, <2>1, <2>2, <1>3 DEF InOrder, Order
      <3>2. d.from <= k.from
        BY <3>1, <1>1, <2>1, <2>2 DEF Best
      <3>. QED BY <3>1, <3>2, <1>1, <2>1, <2>2
    <2>. QED BY <2>1, <2>2, <1>1, <1>3 DEF MainOn
  <1>4. ASSUME MainOn(S, t) PROVE \E k \in Best(S, v, t) : k.status = "active"
    <2>1. PICK k \in S : k.br = Main /\ k.status = "active" /\ k.from <= t
      BY <1>4 DEF MainOn
    <2>2. \A d \in S : d.br = Main /\ d.status = "deleted" => d.from > t
      BY <1>1, <1>4 DEF MainOn
    <2>3. k.to = Null \/ k.to > t
      BY <2>1, <2>2 DEF InOrder, MainClosed
    <2>4. Visible(k, v, t)
      BY <2>1, <2>3, <1>1
    <2>5. PICK m \in Best(S, v, t) : TRUE
      BY <2>4, BestOfMain
    <2>6. m \in S /\ m.br = Main /\ m.from <= t
      BY <1>1 DEF Best
    <2>7. m.status = "active"
      BY <2>6, <2>2, <1>1
    <2>. QED BY <2>5, <2>7
  <1>. QED BY <1>3, <1>4

(* A branch is read at a time t after its marks were made and closed. *)
LEMMA ReadBranch ==
  ASSUME NEW S \in SUBSET MarkSet, InOrder(S), NEW b \in Branch, NEW f \in Nat, NEW t \in Nat, f <= t,
         NEW v, v.name = b, v.branched_from = f,
         \A k \in S : k.br = b => k.from <= t,
         Opened(S, b) = {} => \A k \in S : k.br = b => k.to < t
  PROVE  (\E k \in Best(S, v, t) : k.status = "active") <=> Shown(S, b, f, t)
  <1>0. b # Main
    BY BranchAssumption
  <1>1. \A k \in S : /\ k.from \in Nat /\ k.to \in Nat /\ (k.status = "active" \/ k.status = "deleted")
                     /\ k.br = b => level(k) = 2
                     /\ k.br = Main => level(k) = 1
    BY MarkFacts, <1>0 DEF level
  <1>2. (IF t > f THEN f ELSE t) = f
    OBVIOUS
  <1>3. \A k \in S : Visible(k, v, t) <=> \/ k.br = b /\ k.from <= t /\ (k.to = Null \/ k.to >= t)
                                          \/ k.br = Main /\ k.from <= f /\ (k.to = Null \/ k.to >= f)
    BY <1>0, <1>2 DEF Visible, ValidAt
  <1>4. CASE Opened(S, b) # {}
    <2>1. PICK o \in S : o.br = b /\ o.to = Null
      BY <1>4 DEF Opened
    <2>2. Visible(o, v, t) /\ level(o) = 2
      BY <2>1, <1>1, <1>3
    <2>3. \A k \in Opened(S, b) : k = o
      BY <2>1, <1>0 DEF Opened, InOrder, OneOpened
    <2>4. Shown(S, b, f, t) <=> o.status = "active"
      BY <2>1, <2>3, <1>0 DEF Shown, Opened
    <2>5. CASE o.status = "active"
      <3>1. \A l \in S : l = o
        BY <2>1, <2>5, <1>0 DEF InOrder, Sole
      <3>2. o \in Best(S, v, t)
        BY <3>1, <2>1, <2>2, <1>1 DEF Best
      <3>. QED BY <3>2, <2>4, <2>5
    <2>6. CASE o.status = "deleted"
      <3>1. ASSUME NEW k \in Best(S, v, t), k.status = "active" PROVE FALSE
        <4>1. k \in S /\ Visible(k, v, t) /\ (level(o) < level(k) \/ (level(o) = level(k) /\ o.from <= k.from))
          BY <2>1, <2>2 DEF Best
        <4>2. k.br = b
          BY <4>1, <2>2, <1>1, <1>3
        <4>3. k.from < o.from
          BY <4>1, <4>2, <3>1, <2>1, <2>6 DEF InOrder, Order
        <4>. QED BY <4>1, <4>2, <4>3, <2>1, <2>2, <1>1
      <3>. QED BY <3>1, <2>4, <2>6
    <2>. QED BY <2>1, <2>5, <2>6, <1>1
  <1>5. CASE Opened(S, b) = {}
    <2> DEFINE w == [name |-> Main]
    <2>1. \A k \in S : Visible(k, v, t) <=> Visible(k, w, f)
      <3> TAKE k \in S
      <3>1. ~ (k.br = b /\ (k.to = Null \/ k.to >= t))
        BY <1>1, <1>5 DEF Opened
      <3>2. Visible(k, w, f) <=> k.br = Main /\ k.from <= f /\ (k.to = Null \/ k.to >= f)
        BY DEF Visible, ValidAt
      <3>. QED BY <3>1, <3>2, <1>3
    <2>2. Best(S, v, t) = Best(S, w, f)
      BY <2>1 DEF Best
    <2>3. (\E k \in Best(S, w, f) : k.status = "active") <=> MainOn(S, f)
      <3>1. w.name = Main
        OBVIOUS
      <3> HIDE DEF w
      <3>. QED BY <3>1, ReadMain
    <2>. QED BY <2>2, <2>3, <1>0, <1>5 DEF Shown
  <1>. QED BY <1>4, <1>5

(* What a step that deletes an item on branch b leaves of its marks. *)
LEMMA DropOnBranch ==
  ASSUME NEW S \in SUBSET MarkSet, NEW b \in Branch, NEW f, NEW t, NEW s \in Time, NEW X \in SUBSET S,
         InOrder(S), Shown(S, b, f, t), \A k \in S : k.br = b /\ k.status = "active" => k.from < s,
         \A k \in X : k.br = b /\ k.status = "active", Opened(S, b) \subseteq X,
         NEW T, Closed(S, X, s, {mark(b, "deleted", s)}, T)
  PROVE  /\ InOrder(T)
         /\ Tracked(S) /\ (\A k \in S : k.br = b => k.from < s) => Tracked(T) /\ \A g : Agreed(T, b, g)
         /\ Opened(T, b) = {mark(b, "deleted", s)}
         /\ \A c \in Branch : c # b => Opened(T, c) = Opened(S, c)
         /\ \A c \in Branch : \A g : c # b /\ Agreed(S, c, g) /\ (MainOn(T, g) <=> MainOn(S, g)) => Agreed(T, c, g)
  <1> DEFINE d == mark(b, "deleted", s)
  <1>0. b # Main /\ b \in AnyBranch /\ s \in Nat /\ s # Null
    BY BranchAssumption, TimeFacts DEF AnyBranch
  <1>1. d \in MarkSet /\ d.br = b /\ d.status = "deleted" /\ d.from = s /\ d.to = Null
    BY <1>0, NewMark DEF Status
  <1>2. /\ T \in SUBSET MarkSet /\ d \in T
        /\ \A l \in T : l = d \/ (l \in S /\ l \notin X) \/ \E k \in X : Closes(k, s, l)
        /\ \A k \in X : \E l \in T : Closes(k, s, l)
        /\ \A k \in S \ X : k \in T
    BY DEF Closed
  <1>3. \A k \in S \cup T : k.from \in Nat /\ k.to \in Nat
    BY <1>2, MarkFacts
  <1>4. \A l \in T : \/ l = d
                     \/ l \in S /\ l \notin X
                     \/ l.br = b /\ l.to = s /\ \E k \in X : Closes(k, s, l)
    BY <1>2 DEF Closes
  <1>5. \A l \in T : l # d => \E j \in S : /\ l.br = j.br /\ l.from = j.from /\ l.status = j.status
                                           /\ (j \in X => l = [j EXCEPT !.to = s] /\ l.to = s)
                                           /\ (j \notin X => l = j)
    BY <1>4 DEF Closes
  <1>6. \A j \in S : \E l \in T : l.br = j.br /\ l.from = j.from /\ l.status = j.status
    BY <1>2 DEF Closes
  <1>7. \A k \in S : k.br # b => k \in T /\ k \notin X
    BY <1>2
  <1>8. \A k \in T : k.br # Main /\ k.to = Null => k = d \/ (k \in S /\ k.br # b /\ ~ (k.status = "active"))
    <2> SUFFICES ASSUME NEW k \in T, k.br # Main, k.to = Null, k # d
                 PROVE  k \in S /\ k.br # b /\ ~ (k.status = "active")
      OBVIOUS
    <2>1. k \in S /\ k \notin X
      BY <1>4, <1>0
    <2>2. k.br # b
      BY <2>1 DEF Opened
    <2>3. ASSUME k.status = "active" PROVE FALSE
      <3>1. S = {k}
        BY <2>1, <2>3 DEF InOrder, Sole
      <3>2. Opened(S, b) = {} /\ ~ MainOn(S, f)
        BY <3>1, <2>2 DEF Opened, MainOn
      <3>. QED BY <3>2, <1>0 DEF Shown
    <2>. QED BY <2>1, <2>2, <2>3
  <1> HIDE DEF d
  <1>10. OneOpened(T)
    BY <1>8, <1>1 DEF InOrder, OneOpened
  <1>11. Sole(T)
    BY <1>8, <1>1 DEF Sole
  <1>12. MainClosed(T)
    <2> SUFFICES ASSUME NEW k \in T, k.br = Main
                 PROVE /\ k.status = "deleted" => k.to = Null
                       /\ k.status = "active" /\ k.to # Null =>
                            \E e \in T : e.br = Main /\ e.status = "deleted" /\ e.from = k.to
      BY DEF MainClosed
    <2>1. k \in S
      BY <1>4, <1>1, <1>0
    <2>. QED BY <2>1, <1>7, <1>0 DEF InOrder, MainClosed
  <1>13. Order(T)
    <2> SUFFICES ASSUME NEW k \in T, NEW e \in T, k.br = e.br, k.status = "active", e.status = "deleted"
                 PROVE  k.from < e.from
      BY DEF Order
    <2>0. k # d
      BY <1>1
    <2>1. CASE e = d
      BY <2>0, <2>1, <1>1, <1>5
    <2>2. CASE e # d
      BY <2>0, <2>2, <1>5 DEF InOrder, Order
    <2>. QED BY <2>1, <2>2
  <1>14. MainFollows(T)
    <2> SUFFICES ASSUME NEW k \in T, NEW g \in T, k.br # Main, k.status = "active", g.br = Main
                 PROVE  k.from < g.from
      BY DEF MainFollows
    <2>1. k # d /\ g # d
      BY <1>1, <1>0
    <2>. QED BY <2>1, <1>5 DEF InOrder, MainFollows
  <1>15. InOrder(T)
    BY <1>10, <1>11, <1>12, <1>13, <1>14 DEF InOrder
  <1>16. Tracked(S) /\ (\A k \in S : k.br = b => k.from < s) => Tracked(T) /\ \A g : Agreed(T, b, g)
    <2> SUFFICES ASSUME Tracked(S), \A k \in S : k.br = b => k.from < s PROVE Tracked(T) /\ \A g : Agreed(T, b, g)
      OBVIOUS
    <2>2. OneFrom(T)
      <3> SUFFICES ASSUME NEW k \in T, NEW l \in T, k.br = l.br, k.from = l.from PROVE k = l
        BY DEF OneFrom
      <3>1. CASE k = d
        BY <3>1, <1>1, <1>5, <1>3
      <3>2. CASE l = d
        BY <3>2, <1>1, <1>5, <1>3
      <3>3. CASE k # d /\ l # d
        BY <3>3, <1>5 DEF Tracked, OneFrom
      <3>. QED BY <3>1, <3>2, <3>3
    <2>3. LastOpen(T)
      <3> SUFFICES ASSUME NEW k \in T, NEW l \in T, k.br # Main, k.br = l.br, k.to = Null PROVE l.from <= k.from
        BY DEF LastOpen
      <3>1. CASE k = d
        <4>1. CASE l = d
          BY <3>1, <4>1, <1>3
        <4>2. CASE l # d
          BY <3>1, <4>2, <1>5, <1>1, <1>3, <1>0
        <4>. QED BY <4>1, <4>2
      <3>2. CASE k # d
        <4>1. k \in S /\ l # d
          BY <3>2, <1>8, <1>1
        <4>. QED BY <4>1, <1>5 DEF Tracked, LastOpen
      <3>. QED BY <3>1, <3>2
    <2>4. OneBirth(T)
      <3> SUFFICES ASSUME NEW k \in T, NEW l \in T, k.br # Main, l.br # Main, k.status = "active", l.status = "active" PROVE k = l
        BY DEF OneBirth
      <3>1. k # d /\ l # d
        BY <1>1
      <3>. QED BY <3>1, <1>5 DEF Tracked, OneBirth
    <2>5. \A g : Agreed(T, b, g)
      <3> SUFFICES ASSUME NEW g, NEW k \in T, k.br = b, k.to # Null, LatestOf(T, k)
                   PROVE  FALSE
        BY DEF Agreed
      <3>1. k # d /\ s <= k.from
        BY <1>1, <1>2 DEF LatestOf
      <3>. QED BY <3>1, <1>5, <1>3, <1>0
    <2>. QED BY <2>2, <2>3, <2>4, <2>5 DEF Tracked
  <1>17. Opened(T, b) = {d}
    BY <1>8, <1>1, <1>2, <1>0 DEF Opened
  <1>18. \A c \in Branch : c # b => Opened(T, c) = Opened(S, c)
    BY <1>4, <1>7, <1>1 DEF Opened
  <1>19. \A c \in Branch : \A g : c # b /\ Agreed(S, c, g) /\ (MainOn(T, g) <=> MainOn(S, g)) => Agreed(T, c, g)
    <2> SUFFICES ASSUME NEW c \in Branch, NEW g, c # b, Agreed(S, c, g), MainOn(T, g) <=> MainOn(S, g),
                        NEW k \in T, k.br = c, k.to # Null, LatestOf(T, k)
                 PROVE  k.status = "active" <=> MainOn(T, g)
      BY DEF Agreed
    <2>1. k \in S
      BY <1>4, <1>1
    <2>2. LatestOf(S, k)
      BY <1>7 DEF LatestOf
    <2>. QED BY <2>1, <2>2 DEF Agreed
  <1>. QED BY <1>15, <1>16, <1>17, <1>18, <1>19 DEF d

(* What a step that deletes an item on main leaves of its marks. *)
LEMMA DropOnMain ==
  ASSUME NEW S \in SUBSET MarkSet, NEW t \in Nat, NEW s \in Time, NEW X \in SUBSET S,
         InOrder(S), MainOn(S, t), \A k \in S : k.from <= t,
         \A k \in S : k.br = Main /\ k.status = "active" => k.from < s,
         \A k \in S : k.from # s,
         \A k \in X : k.br = Main /\ k.status = "active",
         NEW T, Closed(S, X, s, {mark(Main, "deleted", s)}, T)
  PROVE  /\ InOrder(T)
         /\ Tracked(S) => Tracked(T)
         /\ \A c \in Branch : Opened(T, c) = Opened(S, c)
         /\ \A c \in Branch : \A g : Agreed(S, c, g) /\ (MainOn(T, g) <=> MainOn(S, g)) => Agreed(T, c, g)
         /\ \A g \in Nat : s <= g => ~ MainOn(T, g)
  <1> DEFINE d == mark(Main, "deleted", s)
  <1>0. Main \in AnyBranch /\ s \in Nat /\ s # Null /\ Main \notin Branch
    BY BranchAssumption, TimeFacts DEF AnyBranch
  <1>1. d \in MarkSet /\ d.br = Main /\ d.status = "deleted" /\ d.from = s /\ d.to = Null
    BY <1>0, NewMark DEF Status
  <1>2. /\ T \in SUBSET MarkSet /\ d \in T
        /\ \A l \in T : l = d \/ (l \in S /\ l \notin X) \/ \E k \in X : Closes(k, s, l)
        /\ \A k \in X : \E l \in T : Closes(k, s, l)
        /\ \A k \in S \ X : k \in T
    BY DEF Closed
  <1>3. \A k \in S \cup T : k.from \in Nat /\ k.to \in Nat /\ (k.status = "active" \/ k.status = "deleted")
    BY <1>2, MarkFacts
  <1>4. \A k \in S : k.br = Main => k.status = "active"
    BY <1>3 DEF MainOn
  <1>5. PICK g \in S : g.br = Main /\ g.status = "active"
    BY DEF MainOn
  <1>6. \A l \in T : \/ l = d
                     \/ l \in S /\ l \notin X
                     \/ l.br = Main /\ l.status = "active" /\ l.from < s /\ l.to = s /\ \E k \in X : Closes(k, s, l)
    BY <1>2 DEF Closes
  <1>7. \A k \in S : k.br # Main => k \in T /\ k \notin X
    BY <1>2
  <1>8. \A k \in S : k.br # Main => ~ (k.status = "active" /\ k.to = Null)
    BY <1>5 DEF InOrder, Sole
  <1> HIDE DEF d
  <1>10. OneOpened(T)
    BY <1>6, <1>1 DEF InOrder, OneOpened
  <1>11. Sole(T)
    BY <1>6, <1>8, <1>1 DEF Sole
  <1>12. MainClosed(T)
    <2> SUFFICES ASSUME NEW k \in T, k.br = Main
                 PROVE /\ k.status = "deleted" => k.to = Null
                       /\ k.status = "active" /\ k.to # Null =>
                            \E e \in T : e.br = Main /\ e.status = "deleted" /\ e.from = k.to
      BY DEF MainClosed
    <2>1. CASE k = d
      BY <2>1, <1>1
    <2>2. CASE k.to = s /\ k.status = "active"
      BY <2>2, <1>1, <1>2
    <2>3. CASE k \in S /\ k \notin X
      <3>1. k.status = "active" /\ (k.to # Null => FALSE)
        BY <2>3, <1>4 DEF InOrder, MainClosed
      <3>. QED BY <3>1
    <2>. QED BY <2>1, <2>2, <2>3, <1>6
  <1>13. Order(T)
    <2> SUFFICES ASSUME NEW k \in T, NEW e \in T, k.br = e.br, k.status = "active", e.status = "deleted"
                 PROVE  k.from < e.from
      BY DEF Order
    <2>1. CASE k \in S /\ e \in S
      BY <2>1 DEF InOrder, Order
    <2>2. CASE e = d
      BY <2>2, <1>1, <1>6
    <2>3. CASE e \in S /\ k \notin S
      BY <2>3, <1>1, <1>4, <1>6
    <2>. QED BY <2>1, <2>2, <2>3, <1>6, <1>1
  <1>14. MainFollows(T)
    <2> SUFFICES ASSUME NEW k \in T, NEW e \in T, k.br # Main, k.status = "active", e.br = Main
                 PROVE  k.from < e.from
      BY DEF MainFollows
    <2>1. k \in S /\ k.from < g.from /\ g.from < s
      BY <1>5, <1>6, <1>1 DEF InOrder, MainFollows
    <2>2. CASE e = d
      BY <2>1, <2>2, <1>1, <1>3, <1>0, <1>5
    <2>3. CASE e # d
      BY <2>1, <2>3, <1>6 DEF InOrder, MainFollows, Closes
    <2>. QED BY <2>2, <2>3
  <1>15. InOrder(T)
    BY <1>10, <1>11, <1>12, <1>13, <1>14 DEF InOrder
  <1>16. Tracked(S) => Tracked(T)
    <2> SUFFICES ASSUME Tracked(S) PROVE Tracked(T)
      OBVIOUS
    <2>2. OneFrom(T)
      <3>1. \A k \in T : k # d => \E j \in S : /\ k.br = j.br /\ k.from = j.from
                                               /\ (j \in X => k = [j EXCEPT !.to = s])
                                               /\ (j \notin X => k = j)
        BY <1>6 DEF Closes
      <3>. QED BY <3>1, <1>1 DEF Tracked, OneFrom
    <2>3. LastOpen(T)
      BY <1>6, <1>1 DEF Tracked, LastOpen
    <2>4. OneBirth(T)
      BY <1>6, <1>1 DEF Tracked, OneBirth
    <2>. QED BY <2>2, <2>3, <2>4 DEF Tracked
  <1>18. \A c \in Branch : Opened(T, c) = Opened(S, c)
    BY <1>6, <1>7, <1>1, <1>0 DEF Opened
  <1>19. \A c \in Branch : \A h : Agreed(S, c, h) /\ (MainOn(T, h) <=> MainOn(S, h)) => Agreed(T, c, h)
    <2> SUFFICES ASSUME NEW c \in Branch, NEW h, Agreed(S, c, h), MainOn(T, h) <=> MainOn(S, h),
                        NEW k \in T, k.br = c, k.to # Null, LatestOf(T, k)
                 PROVE  k.status = "active" <=> MainOn(T, h)
      BY DEF Agreed
    <2>1. k \in S
      BY <1>6, <1>1, <1>0
    <2>2. LatestOf(S, k)
      BY <1>7, <1>0 DEF LatestOf
    <2>. QED BY <2>1, <2>2 DEF Agreed
  <1>20. \A h \in Nat : s <= h => ~ MainOn(T, h)
    BY <1>1, <1>2 DEF MainOn
  <1>. QED BY <1>15, <1>16, <1>18, <1>19, <1>20

(* What a merge of branch b, at time s, leaves of the marks of an item: the *)
(* mark p of the branch is closed and main gets a mark that says the same.  *)
MayMerge(S, b, s, p, Y) ==
  /\ InOrder(S) /\ p.br = b /\ \A k \in Opened(S, b) : k = p
  /\ \A k \in S : k.from < s
  /\ p.status = "active" => ~ \E k \in S : k.br = Main /\ k.status = "deleted"
  /\ \A k \in Y : k.br = Main /\ k.status = "active" /\ p.status = "deleted"
  /\ p.status = "deleted" => \A k \in Y : \A e \in S : ~ (e.br = Main /\ e.status = "deleted")

LEMMA MergeOnMain ==
  ASSUME NEW S \in SUBSET MarkSet, NEW b \in Branch, NEW s \in Time, NEW p \in S, NEW Y \in SUBSET S,
         MayMerge(S, b, s, p, Y),
         NEW T, Closed(S, {p} \cup Y, s, {mark(Main, p.status, s)}, T)
  PROVE  /\ InOrder(T)
         /\ Tracked(S) => Tracked(T)
         /\ Opened(T, b) = {}
         /\ \A c \in Branch : c # b => Opened(T, c) = Opened(S, c)
         /\ \A c \in Branch : \A g : c # b /\ Agreed(S, c, g) /\ (MainOn(T, g) <=> MainOn(S, g)) => Agreed(T, c, g)
         /\ \A g \in Nat : s <= g => (MainOn(T, g) <=> p.status = "active")
         /\ \A g \in Nat : s <= g /\ Tracked(S) /\ LatestOf(S, p) => Agreed(T, b, g)
  <1>a. /\ InOrder(S) /\ p.br = b /\ \A k \in Opened(S, b) : k = p
        /\ \A k \in S : k.from < s
        /\ p.status = "active" => ~ \E k \in S : k.br = Main /\ k.status = "deleted"
        /\ \A k \in Y : k.br = Main /\ k.status = "active" /\ p.status = "deleted"
        /\ p.status = "deleted" => \A k \in Y : \A e \in S : ~ (e.br = Main /\ e.status = "deleted")
    BY DEF MayMerge
  <1> USE <1>a
  <1> DEFINE d == mark(Main, p.status, s)
             X == {p} \cup Y
  <1>0. Main \in AnyBranch /\ s \in Nat /\ s # Null /\ Main \notin Branch /\ b # Main
    BY BranchAssumption, TimeFacts DEF AnyBranch
  <1>1. d \in MarkSet /\ d.br = Main /\ d.status = p.status /\ d.from = s /\ d.to = Null
    <2>1. p.status \in Status
      BY MarkFacts DEF Status
    <2>. QED BY <2>1, <1>0, NewMark
  <1>2. /\ T \in SUBSET MarkSet /\ d \in T
        /\ \A l \in T : l = d \/ (l \in S /\ l \notin X) \/ \E k \in X : Closes(k, s, l)
        /\ \A k \in X : \E l \in T : Closes(k, s, l)
        /\ \A k \in S \ X : k \in T
    BY DEF Closed
  <1>3. \A k \in S \cup T : k.from \in Nat /\ k.to \in Nat /\ (k.status = "active" \/ k.status = "deleted")
    BY <1>2, MarkFacts
  <1>4. \A l \in T : \/ l = d
                     \/ l \in S /\ l \notin X
                     \/ l.to = s /\ \E k \in X : Closes(k, s, l)
    BY <1>2 DEF Closes
  <1>5. \A l \in T : l # d => \E j \in S : /\ l.br = j.br /\ l.from = j.from /\ l.status = j.status
                                           /\ (j \in X => l = [j EXCEPT !.to = s] /\ l.to = s)
                                           /\ (j \notin X => l = j)
    BY <1>4 DEF Closes
  <1>6. \A j \in S : \E l \in T : l.br = j.br /\ l.from = j.from /\ l.status = j.status
    BY <1>2 DEF Closes
  <1>7. \A k \in S : k.br # Main /\ k # p => k \in T /\ k \notin X
    BY <1>2
  <1>8. \A k \in T : k.br # Main /\ k.to = Null => k \in S /\ k # p /\ ~ (k.status = "active")
    <2> SUFFICES ASSUME NEW k \in T, k.br # Main, k.to = Null PROVE k \in S /\ k # p /\ ~ (k.status = "active")
      OBVIOUS
    <2>1. k \in S /\ k \notin X
      BY <1>4, <1>1, <1>0
    <2>2. k.status = "active" => p = k
      BY <2>1 DEF InOrder, Sole
    <2>. QED BY <2>1, <2>2
  <1>8a. \A k \in S : k.from < s
    OBVIOUS
  <1> HIDE DEF d, X
  <1>10. OneOpened(T)
    BY <1>8 DEF InOrder, OneOpened
  <1>11. Sole(T)
    BY <1>8 DEF Sole
  <1>12. MainClosed(T)
    <2> SUFFICES ASSUME NEW k \in T, k.br = Main
                 PROVE /\ k.status = "deleted" => k.to = Null
                       /\ k.status = "active" /\ k.to # Null =>
                            \E e \in T : e.br = Main /\ e.status = "deleted" /\ e.from = k.to
      BY DEF MainClosed
    <2>1. CASE k = d
      BY <2>1, <1>1
    <2>2. CASE \E j \in X : Closes(j, s, k)
      <3>1. PICK j \in Y : Closes(j, s, k)
        BY <2>2, <1>0 DEF Closes, X
      <3>2. k.status = "active" /\ k.to = s /\ p.status = "deleted"
        BY <3>1 DEF Closes
      <3>. QED BY <3>2, <1>1, <1>2
    <2>3. CASE k \in S /\ k \notin X
      <3>1. ASSUME k.status = "active", k.to # Null
            PROVE  \E e \in T : e.br = Main /\ e.status = "deleted" /\ e.from = k.to
        <4>1. PICK e \in S : e.br = Main /\ e.status = "deleted" /\ e.from = k.to
          BY <2>3, <3>1 DEF InOrder, MainClosed
        <4>. QED BY <4>1, <1>6
      <3>2. k.status = "deleted" => k.to = Null
        BY <2>3 DEF InOrder, MainClosed
      <3>. QED BY <3>1, <3>2
    <2>. QED BY <2>1, <2>2, <2>3, <1>4
  <1>13. Order(T)
    <2> SUFFICES ASSUME NEW k \in T, NEW e \in T, k.br = e.br, k.status = "active", e.status = "deleted"
                 PROVE  k.from < e.from
      BY DEF Order
    <2>1. CASE e = d
      <3>1. k # d
        BY <2>1
      <3>. QED BY <2>1, <3>1, <1>1, <1>5, <1>8a
    <2>2. CASE e # d /\ k = d
      BY <2>2, <1>1, <1>5
    <2>3. CASE e # d /\ k # d
      BY <2>3, <1>5 DEF InOrder, Order
    <2>. QED BY <2>1, <2>2, <2>3
  <1>14. MainFollows(T)
    <2> SUFFICES ASSUME NEW k \in T, NEW e \in T, k.br # Main, k.status = "active", e.br = Main
                 PROVE  k.from < e.from
      BY DEF MainFollows
    <2>1. PICK j \in S : k.br = j.br /\ k.from = j.from /\ k.status = j.status
      BY <1>5, <1>1
    <2>2. CASE e = d
      BY <2>1, <2>2, <1>1, <1>8a
    <2>3. CASE e # d
      BY <2>1, <2>3, <1>5 DEF InOrder, MainFollows
    <2>. QED BY <2>2, <2>3
  <1>15. InOrder(T)
    BY <1>10, <1>11, <1>12, <1>13, <1>14 DEF InOrder
  <1>16. Tracked(S) => Tracked(T)
    <2> SUFFICES ASSUME Tracked(S) PROVE Tracked(T)
      OBVIOUS
    <2>2. OneFrom(T)
      <3> SUFFICES ASSUME NEW k \in T, NEW l \in T, k.br = l.br, k.from = l.from PROVE k = l
        BY DEF OneFrom
      <3>1. CASE k = d
        BY <3>1, <1>1, <1>5, <1>8a, <1>3
      <3>2. CASE l = d
        BY <3>2, <1>1, <1>5, <1>8a, <1>3
      <3>3. CASE k # d /\ l # d
        BY <3>3, <1>5 DEF Tracked, OneFrom
      <3>. QED BY <3>1, <3>2, <3>3
    <2>3. LastOpen(T)
      <3> SUFFICES ASSUME NEW k \in T, NEW l \in T, k.br # Main, k.br = l.br, k.to = Null PROVE l.from <= k.from
        BY DEF LastOpen
      <3>1. k \in S
        BY <1>8
      <3>2. PICK j \in S : l.br = j.br /\ l.from = j.from
        BY <1>5, <1>1
      <3>. QED BY <3>1, <3>2 DEF Tracked, LastOpen
    <2>4. OneBirth(T)
      <3> SUFFICES ASSUME NEW k \in T, NEW l \in T, k.br # Main, l.br # Main, k.status = "active", l.status = "active" PROVE k = l
        BY DEF OneBirth
      <3>1. k # d /\ l # d
        BY <1>1
      <3>. QED BY <3>1, <1>5 DEF Tracked, OneBirth
    <2>. QED BY <2>2, <2>3, <2>4 DEF Tracked
  <1>17. Opened(T, b) = {}
    <2> SUFFICES ASSUME NEW k \in T, k.br = b, k.to = Null PROVE FALSE
      BY DEF Opened
    <2>1. k \in S /\ k # p
      BY <1>8, <1>0
    <2>. QED BY <2>1 DEF Opened
  <1>18. \A c \in Branch : c # b => Opened(T, c) = Opened(S, c)
    <2> SUFFICES ASSUME NEW c \in Branch, c # b PROVE Opened(T, c) = Opened(S, c)
      OBVIOUS
    <2>1. c # Main
      BY <1>0
    <2>2. \A k \in T : k.br = c /\ k.to = Null => k \in S
      BY <1>8, <2>1
    <2>3. \A k \in S : k.br = c => k \in T
      BY <1>7, <2>1
    <2>. QED BY <2>2, <2>3 DEF Opened
  <1>19. \A c \in Branch : \A g : c # b /\ Agreed(S, c, g) /\ (MainOn(T, g) <=> MainOn(S, g)) => Agreed(T, c, g)
    <2> SUFFICES ASSUME NEW c \in Branch, NEW h, c # b, Agreed(S, c, h), MainOn(T, h) <=> MainOn(S, h),
                        NEW k \in T, k.br = c, k.to # Null, LatestOf(T, k)
                 PROVE  k.status = "active" <=> MainOn(T, h)
      BY DEF Agreed
    <2>0. c # Main
      BY <1>0
    <2>1. k \in S
      BY <1>4, <1>1, <2>0 DEF Closes, X
    <2>2. LatestOf(S, k)
      BY <1>7, <2>0 DEF LatestOf
    <2>. QED BY <2>1, <2>2 DEF Agreed
  <1>20. \A g \in Nat : s <= g => (MainOn(T, g) <=> p.status = "active")
    <2> SUFFICES ASSUME NEW g \in Nat, s <= g PROVE MainOn(T, g) <=> p.status = "active"
      OBVIOUS
    <2>1. CASE p.status = "active"
      <3>1. \A k \in T : ~ (k.br = Main /\ k.status = "deleted")
        BY <2>1, <1>5, <1>1
      <3>. QED BY <2>1, <3>1, <1>1, <1>2 DEF MainOn
    <2>2. CASE p.status = "deleted"
      BY <2>2, <1>1, <1>2 DEF MainOn
    <2>. QED BY <2>1, <2>2, <1>3
  <1>21. \A g \in Nat : s <= g /\ Tracked(S) /\ LatestOf(S, p) => Agreed(T, b, g)
    <2> SUFFICES ASSUME NEW g \in Nat, s <= g, Tracked(S), LatestOf(S, p),
                        NEW k \in T, k.br = b, k.to # Null, LatestOf(T, k)
                 PROVE  k.status = "active" <=> MainOn(T, g)
      BY DEF Agreed
    <2>1. PICK j \in S : k.br = j.br /\ k.from = j.from /\ k.status = j.status
      BY <1>5, <1>1, <1>0
    <2>2. p.from <= k.from
      BY <1>6 DEF LatestOf
    <2>3. j = p
      BY <2>1, <2>2, <1>3 DEF LatestOf, Tracked, OneFrom
    <2>. QED BY <2>1, <2>3, <1>20
  <1>. QED BY <1>15, <1>16, <1>17, <1>18, <1>19, <1>20, <1>21

(* What a rebase of branch b leaves of the marks of an item. *)
Raised(S, b, u) == {k \in S : k.br # b} \cup {[k EXCEPT !.from = u] : k \in Opened(S, b)}

LEMMA RebaseMarks ==
  ASSUME NEW S \in SUBSET MarkSet, NEW b \in Branch, NEW u \in Time, InOrder(S)
  PROVE  /\ Raised(S, b, u) \in SUBSET MarkSet
         /\ InOrder(Raised(S, b, u))
         /\ Tracked(S) => Tracked(Raised(S, b, u))
         /\ Opened(Raised(S, b, u), b) = {[k EXCEPT !.from = u] : k \in Opened(S, b)}
         /\ \A k \in Raised(S, b, u) : k.br = b => k.to = Null /\ k.from = u /\ \E j \in S : j.br = b /\ j.status = k.status
         /\ \A c \in Branch : c # b => Opened(Raised(S, b, u), c) = Opened(S, c)
         /\ \A g : MainOn(Raised(S, b, u), g) <=> MainOn(S, g)
         /\ \A c \in Branch : \A g : c # b /\ Agreed(S, c, g) => Agreed(Raised(S, b, u), c, g)
         /\ \A g : Agreed(Raised(S, b, u), b, g)
         /\ (\E k \in Opened(Raised(S, b, u), b) : k.status = "active") <=> (\E k \in Opened(S, b) : k.status = "active")
         /\ Opened(Raised(S, b, u), b) = {} <=> Opened(S, b) = {}
  <1> DEFINE T == Raised(S, b, u)
  <1>0. Main \notin Branch /\ b # Main /\ u \in Nat
    BY BranchAssumption, TimeFacts
  <1>1. \A k \in Opened(S, b) : LET l == [k EXCEPT !.from = u] IN
          l \in MarkSet /\ l.br = k.br /\ l.status = k.status /\ l.from = u /\ l.to = k.to /\ k \in S /\ k.br = b /\ k.to = Null
    BY MovedMark DEF Opened
  <1>2. T \in SUBSET MarkSet
    BY <1>1 DEF Raised
  <1>3. \A l \in T : \/ l \in S /\ l.br # b
                     \/ l.br = b /\ l.to = Null /\ l.from = u /\ \E k \in S : k.br = b /\ k.to = Null /\ k.status = l.status /\ l = [k EXCEPT !.from = u]
    BY <1>1 DEF Raised
  <1>4. \A k \in S : k.br # b => k \in T
    BY DEF Raised
  <1>5. \A k \in S : k.br = b /\ k.to = Null => \E l \in T : l.br = b /\ l.to = Null /\ l.status = k.status
    BY <1>1 DEF Raised, Opened
  <1>6. \A k \in S \cup T : k.from \in Nat
    BY <1>2, MarkFacts
  <1>7. Opened(T, b) = {[k EXCEPT !.from = u] : k \in Opened(S, b)}
    BY <1>1 DEF Raised, Opened
  <1> HIDE DEF T
  <1>8. \A k, l \in T : k.br = b /\ l.br = b => k = l
    BY <1>3, <1>0 DEF InOrder, OneOpened
  <1>9. \A k \in T : k.br = b /\ k.status = "active" => \A l \in T : l = k
    <2> SUFFICES ASSUME NEW k \in T, k.br = b, k.status = "active", NEW l \in T PROVE l = k
      OBVIOUS
    <2>1. PICK j \in S : j.br = b /\ j.to = Null /\ j.status = "active"
      BY <1>3
    <2>2. \A i \in S : i = j
      BY <2>1, <1>0 DEF InOrder, Sole
    <2>3. l.br = b
      BY <2>1, <2>2, <1>3
    <2>. QED BY <2>3, <1>8
  <1>10. OneOpened(T)
    BY <1>3, <1>8 DEF InOrder, OneOpened
  <1>11. Sole(T)
    <2> SUFFICES ASSUME NEW k \in T, NEW l \in T, k.br # Main, k.status = "active", k.to = Null PROVE l = k
      BY DEF Sole
    <2>1. CASE k.br = b
      BY <2>1, <1>9
    <2>2. CASE k.br # b
      <3>1. k \in S /\ \A i \in S : i = k
        BY <2>2, <1>3 DEF InOrder, Sole
      <3>. QED BY <3>1, <2>2, <1>3
    <2>. QED BY <2>1, <2>2
  <1>12. MainClosed(T)
    BY <1>3, <1>4, <1>0 DEF InOrder, MainClosed
  <1>13. Order(T)
    <2> SUFFICES ASSUME NEW k \in T, NEW e \in T, k.br = e.br, k.status = "active", e.status = "deleted"
                 PROVE  k.from < e.from
      BY DEF Order
    <2>1. k.br # b
      BY <1>8
    <2>. QED BY <2>1, <1>3 DEF InOrder, Order
  <1>14. MainFollows(T)
    <2> SUFFICES ASSUME NEW k \in T, NEW e \in T, k.br # Main, k.status = "active", e.br = Main
                 PROVE  k.from < e.from
      BY DEF MainFollows
    <2>1. k.br # b
      BY <1>9, <1>0
    <2>. QED BY <2>1, <1>3, <1>0 DEF InOrder, MainFollows
  <1>15. InOrder(T)
    BY <1>10, <1>11, <1>12, <1>13, <1>14 DEF InOrder
  <1>16. Tracked(S) => Tracked(T)
    <2> SUFFICES ASSUME Tracked(S) PROVE Tracked(T)
      OBVIOUS
    <2>1. OneFrom(T)
      BY <1>3, <1>8 DEF Tracked, OneFrom
    <2>2. LastOpen(T)
      <3> SUFFICES ASSUME NEW k \in T, NEW l \in T, k.br # Main, k.br = l.br, k.to = Null PROVE l.from <= k.from
        BY DEF LastOpen
      <3>1. CASE k.br = b
        <4>1. l = k
          BY <3>1, <1>8
        <4>2. k.from \in Nat
          BY <1>6
        <4>. QED BY <4>1, <4>2
      <3>2. CASE k.br # b
        BY <3>2, <1>3 DEF Tracked, LastOpen
      <3>. QED BY <3>1, <3>2
    <2>3. OneBirth(T)
      <3> SUFFICES ASSUME NEW k \in T, NEW l \in T, k.br # Main, l.br # Main, k.status = "active", l.status = "active" PROVE k = l
        BY DEF OneBirth
      <3>1. CASE k.br = b \/ l.br = b
        BY <3>1, <1>9
      <3>2. CASE k.br # b /\ l.br # b
        <4>1. k \in S /\ l \in S
          BY <3>2, <1>3
        <4>. QED BY <4>1 DEF Tracked, OneBirth
      <3>. QED BY <3>1, <3>2
    <2>. QED BY <2>1, <2>2, <2>3 DEF Tracked
  <1>17. \A c \in Branch : c # b => Opened(T, c) = Opened(S, c)
    BY <1>3, <1>4 DEF Opened
  <1>18. \A g : MainOn(T, g) <=> MainOn(S, g)
    BY <1>3, <1>4, <1>0 DEF MainOn
  <1>19. \A c \in Branch : \A g : c # b /\ Agreed(S, c, g) => Agreed(T, c, g)
    <2> SUFFICES ASSUME NEW c \in Branch, NEW h, c # b, Agreed(S, c, h), NEW k \in T, k.br = c, k.to # Null, LatestOf(T, k)
                 PROVE  k.status = "active" <=> MainOn(T, h)
      BY DEF Agreed
    <2>1. k \in S
      BY <1>3
    <2>2. LatestOf(S, k)
      BY <1>4 DEF LatestOf
    <2>. QED BY <2>1, <2>2, <1>18 DEF Agreed
  <1>20. \A g : Agreed(T, b, g)
    BY <1>3 DEF Agreed
  <1>21. (\E k \in Opened(T, b) : k.status = "active") <=> (\E k \in Opened(S, b) : k.status = "active")
    BY <1>3, <1>5 DEF Opened
  <1>22. Opened(T, b) = {} <=> Opened(S, b) = {}
    BY <1>7
  <1>23. \A k \in T : k.br = b => k.to = Null /\ k.from = u /\ \E j \in S : j.br = b /\ j.status = k.status
    BY <1>3
  <1>. QED BY <1>2, <1>15, <1>16, <1>7, <1>23, <1>17, <1>18, <1>19, <1>20, <1>21, <1>22 DEF T

(* An edge is the item it leads to and its mark. *)
LEMMA MarkOfFacts ==
  ASSUME NEW e, e \in NodeEdge \/ e \in RelEdge
  PROVE  /\ MarkOf(e) \in MarkSet
         /\ MarkOf(e).br = e.br /\ MarkOf(e).status = e.status /\ MarkOf(e).from = e.from /\ MarkOf(e).to = e.to
         /\ level(MarkOf(e)) = level(e)
         /\ \A v, t : Visible(MarkOf(e), v, t) <=> Visible(e, v, t)
  <1>1. /\ MarkOf(e).br = e.br /\ MarkOf(e).status = e.status /\ MarkOf(e).from = e.from /\ MarkOf(e).to = e.to
    BY DEF MarkOf
  <1>2. MarkOf(e) \in MarkSet
    BY DEF MarkOf, MarkSet, NodeEdge, RelEdge
  <1>3. \A v, t : Visible(MarkOf(e), v, t) <=> Visible(e, v, t)
    BY <1>1 DEF Visible, ValidAt
  <1>. QED BY <1>1, <1>2, <1>3 DEF level

(* An edge is its item, its end and its mark.                                *)
LEMMA SameRelEdge ==
  ASSUME NEW e \in RelEdge, NEW f \in RelEdge, e.rel = f.rel, e.end = f.end, MarkOf(e) = MarkOf(f)
  PROVE  e = f
  <1>1. e.br = f.br /\ e.status = f.status /\ e.from = f.from /\ e.to = f.to
    BY MarkOfFacts
  <1>. QED BY <1>1 DEF RelEdge

LEMMA SameNodeEdge ==
  ASSUME NEW e \in NodeEdge, NEW f \in NodeEdge, e.node = f.node, MarkOf(e) = MarkOf(f)
  PROVE  e = f
  <1>1. e.br = f.br /\ e.status = f.status /\ e.from = f.from /\ e.to = f.to
    BY MarkOfFacts
  <1>. QED BY <1>1 DEF NodeEdge

LEMMA ClosedMark ==
  ASSUME NEW e, NEW at \in Time
  PROVE  /\ e \in NodeEdge => /\ MarkOf([e EXCEPT !.to = at]) = [MarkOf(e) EXCEPT !.to = at]
                              /\ [e EXCEPT !.to = at].node = e.node /\ [e EXCEPT !.to = at] \in NodeEdge
         /\ e \in RelEdge => /\ MarkOf([e EXCEPT !.to = at]) = [MarkOf(e) EXCEPT !.to = at]
                             /\ [e EXCEPT !.to = at].rel = e.rel /\ [e EXCEPT !.to = at].end = e.end
                             /\ [e EXCEPT !.to = at] \in RelEdge
  BY DEF MarkOf, NodeEdge, RelEdge

LEMMA RaisedMark ==
  ASSUME NEW e, NEW at \in Time
  PROVE  /\ e \in NodeEdge => /\ MarkOf([e EXCEPT !.from = at]) = [MarkOf(e) EXCEPT !.from = at]
                              /\ [e EXCEPT !.from = at].node = e.node /\ [e EXCEPT !.from = at] \in NodeEdge
         /\ e \in RelEdge => /\ MarkOf([e EXCEPT !.from = at]) = [MarkOf(e) EXCEPT !.from = at]
                             /\ [e EXCEPT !.from = at].rel = e.rel /\ [e EXCEPT !.from = at].end = e.end
                             /\ [e EXCEPT !.from = at] \in RelEdge
  BY DEF MarkOf, NodeEdge, RelEdge

(* The marks of an item are those of its edges, and follow a step that       *)
(* closes and adds edges, or a rebase.                                       *)
LEMMA RelMarksIn ==
  ASSUME NEW E \in SUBSET RelEdge, NEW r, NEW x
  PROVE  /\ RelMarks(E, r, x) \in SUBSET MarkSet
         /\ \A e \in E : e.rel = r /\ e.end = x => MarkOf(e) \in RelMarks(E, r, x)
         /\ \A k \in RelMarks(E, r, x) : \E e \in E : e.rel = r /\ e.end = x /\ k = MarkOf(e)
         /\ \A F \in SUBSET E : RelMarks(F, r, x) \subseteq RelMarks(E, r, x)
  <1>1. \A e \in E : MarkOf(e) \in MarkSet
    BY MarkOfFacts
  <1>. QED BY <1>1 DEF RelMarks

LEMMA NodeMarksIn ==
  ASSUME NEW E \in SUBSET NodeEdge, NEW n
  PROVE  /\ NodeMarks(E, n) \in SUBSET MarkSet
         /\ \A e \in E : e.node = n => MarkOf(e) \in NodeMarks(E, n)
         /\ \A k \in NodeMarks(E, n) : \E e \in E : e.node = n /\ k = MarkOf(e)
         /\ \A F \in SUBSET E : NodeMarks(F, n) \subseteq NodeMarks(E, n)
  <1>1. \A e \in E : MarkOf(e) \in MarkSet
    BY MarkOfFacts
  <1>. QED BY <1>1 DEF NodeMarks

LEMMA RelMarksShut ==
  ASSUME NEW E \in SUBSET RelEdge, NEW Z \in SUBSET E, NEW N \in SUBSET RelEdge, NEW at \in Time, NEW r, NEW x
  PROVE  RelMarks((E \ Z) \cup Close(Z, at) \cup N, r, x)
           = Shut(RelMarks(E, r, x), RelMarks(Z, r, x), at) \cup RelMarks(N, r, x)
  <1> DEFINE F == (E \ Z) \cup Close(Z, at) \cup N
             T == Shut(RelMarks(E, r, x), RelMarks(Z, r, x), at) \cup RelMarks(N, r, x)
  <1>1. ASSUME NEW k \in RelMarks(F, r, x) PROVE k \in T
    <2>1. PICK e \in F : e.rel = r /\ e.end = x /\ k = MarkOf(e)
      BY DEF RelMarks
    <2>2. CASE e \in E \ Z
      <3>1. k \in RelMarks(E, r, x)
        BY <2>1, <2>2 DEF RelMarks
      <3>2. ASSUME k \in RelMarks(Z, r, x) PROVE FALSE
        <4>1. PICK f \in Z : f.rel = r /\ f.end = x /\ k = MarkOf(f)
          BY <3>2 DEF RelMarks
        <4>2. e = f
          BY <2>1, <2>2, <4>1, SameRelEdge
        <4>. QED BY <4>2, <2>2
      <3>. QED BY <3>1, <3>2 DEF Shut
    <2>3. CASE e \in Close(Z, at)
      <3>1. PICK f \in Z : e = [f EXCEPT !.to = at]
        BY <2>3 DEF Close
      <3>2. k = [MarkOf(f) EXCEPT !.to = at] /\ f.rel = r /\ f.end = x
        BY <2>1, <3>1, ClosedMark
      <3>3. MarkOf(f) \in RelMarks(Z, r, x)
        BY <3>2 DEF RelMarks
      <3>. QED BY <3>2, <3>3 DEF Shut
    <2>4. CASE e \in N
      BY <2>1, <2>4 DEF RelMarks
    <2>. QED BY <2>2, <2>3, <2>4
  <1>2. ASSUME NEW k \in T PROVE k \in RelMarks(F, r, x)
    <2>1. CASE k \in RelMarks(E, r, x) /\ k \notin RelMarks(Z, r, x)
      <3>1. PICK e \in E : e.rel = r /\ e.end = x /\ k = MarkOf(e)
        BY <2>1 DEF RelMarks
      <3>2. e \notin Z
        BY <2>1, <3>1 DEF RelMarks
      <3>. QED BY <3>1, <3>2 DEF RelMarks
    <2>2. CASE \E l \in RelMarks(Z, r, x) : k = [l EXCEPT !.to = at]
      <3>1. PICK e \in Z : e.rel = r /\ e.end = x /\ k = [MarkOf(e) EXCEPT !.to = at]
        BY <2>2 DEF RelMarks
      <3>2. k = MarkOf([e EXCEPT !.to = at]) /\ [e EXCEPT !.to = at].rel = r /\ [e EXCEPT !.to = at].end = x
        BY <3>1, ClosedMark
      <3>3. [e EXCEPT !.to = at] \in F
        BY DEF Close
      <3>. QED BY <3>2, <3>3 DEF RelMarks
    <2>3. CASE k \in RelMarks(N, r, x)
      BY <2>3 DEF RelMarks
    <2>. QED BY <2>1, <2>2, <2>3 DEF Shut
  <1>. QED BY <1>1, <1>2

LEMMA NodeMarksShut ==
  ASSUME NEW E \in SUBSET NodeEdge, NEW Z \in SUBSET E, NEW N \in SUBSET NodeEdge, NEW at \in Time, NEW n
  PROVE  NodeMarks((E \ Z) \cup Close(Z, at) \cup N, n)
           = Shut(NodeMarks(E, n), NodeMarks(Z, n), at) \cup NodeMarks(N, n)
  <1> DEFINE F == (E \ Z) \cup Close(Z, at) \cup N
             T == Shut(NodeMarks(E, n), NodeMarks(Z, n), at) \cup NodeMarks(N, n)
  <1>1. ASSUME NEW k \in NodeMarks(F, n) PROVE k \in T
    <2>1. PICK e \in F : e.node = n /\ k = MarkOf(e)
      BY DEF NodeMarks
    <2>2. CASE e \in E \ Z
      <3>1. k \in NodeMarks(E, n)
        BY <2>1, <2>2 DEF NodeMarks
      <3>2. ASSUME k \in NodeMarks(Z, n) PROVE FALSE
        <4>1. PICK f \in Z : f.node = n /\ k = MarkOf(f)
          BY <3>2 DEF NodeMarks
        <4>2. e = f
          BY <2>1, <2>2, <4>1, SameNodeEdge
        <4>. QED BY <4>2, <2>2
      <3>. QED BY <3>1, <3>2 DEF Shut
    <2>3. CASE e \in Close(Z, at)
      <3>1. PICK f \in Z : e = [f EXCEPT !.to = at]
        BY <2>3 DEF Close
      <3>2. k = [MarkOf(f) EXCEPT !.to = at] /\ f.node = n
        BY <2>1, <3>1, ClosedMark
      <3>3. MarkOf(f) \in NodeMarks(Z, n)
        BY <3>2 DEF NodeMarks
      <3>. QED BY <3>2, <3>3 DEF Shut
    <2>4. CASE e \in N
      BY <2>1, <2>4 DEF NodeMarks
    <2>. QED BY <2>2, <2>3, <2>4
  <1>2. ASSUME NEW k \in T PROVE k \in NodeMarks(F, n)
    <2>1. CASE k \in NodeMarks(E, n) /\ k \notin NodeMarks(Z, n)
      <3>1. PICK e \in E : e.node = n /\ k = MarkOf(e)
        BY <2>1 DEF NodeMarks
      <3>2. e \notin Z
        BY <2>1, <3>1 DEF NodeMarks
      <3>. QED BY <3>1, <3>2 DEF NodeMarks
    <2>2. CASE \E l \in NodeMarks(Z, n) : k = [l EXCEPT !.to = at]
      <3>1. PICK e \in Z : e.node = n /\ k = [MarkOf(e) EXCEPT !.to = at]
        BY <2>2 DEF NodeMarks
      <3>2. k = MarkOf([e EXCEPT !.to = at]) /\ [e EXCEPT !.to = at].node = n
        BY <3>1, ClosedMark
      <3>3. [e EXCEPT !.to = at] \in F
        BY DEF Close
      <3>. QED BY <3>2, <3>3 DEF NodeMarks
    <2>3. CASE k \in NodeMarks(N, n)
      BY <2>3 DEF NodeMarks
    <2>. QED BY <2>1, <2>2, <2>3 DEF Shut
  <1>. QED BY <1>1, <1>2

(* New edges, and the edges a rebase leaves. *)
LEMMA NewRelMarks ==
  ASSUME NEW r \in Rel, NEW b \in AnyBranch, NEW s \in Status, NEW at \in Time, NEW o \in Rel, NEW x \in End
  PROVE  RelMarks(rel_edges(r, b, s, at), o, x) = IF o = r THEN {mark(b, s, at)} ELSE {}
  <1>1. \A e \in rel_edges(r, b, s, at) : e.rel = r /\ MarkOf(e) = mark(b, s, at)
    BY DEF rel_edges, MarkOf, mark
  <1>2. \E e \in rel_edges(r, b, s, at) : e.rel = r /\ e.end = x
    <2> DEFINE e == [rel |-> r, end |-> x, br |-> b, status |-> s, from |-> at, to |-> Null]
    <2>1. e \in rel_edges(r, b, s, at)
      BY DEF rel_edges
    <2>2. e.rel = r /\ e.end = x
      OBVIOUS
    <2>. QED BY <2>1, <2>2
  <1>. QED BY <1>1, <1>2 DEF RelMarks

LEMMA NewNodeMark ==
  ASSUME NEW n, NEW b, NEW s, NEW at
  PROVE  node_edge(n, b, s, at).node = n /\ MarkOf(node_edge(n, b, s, at)) = mark(b, s, at)
  BY DEF node_edge, MarkOf, mark

LEMMA RebasedRelMarks ==
  ASSUME NEW E \in SUBSET RelEdge, NEW b, NEW u \in Time, NEW r, NEW x
  PROVE  RelMarks(KeptOrMoved(E, b, u), r, x) = Raised(RelMarks(E, r, x), b, u)
  <1> DEFINE F == KeptOrMoved(E, b, u)
             S == RelMarks(E, r, x)
             T == Raised(S, b, u)
  <1>0. \A e \in E : MarkOf(e).br = e.br /\ MarkOf(e).to = e.to
    BY MarkOfFacts
  <1>1. ASSUME NEW k \in RelMarks(F, r, x) PROVE k \in T
    <2>1. PICK e \in F : e.rel = r /\ e.end = x /\ k = MarkOf(e)
      BY DEF RelMarks
    <2>2. CASE e \in E /\ e.br # b
      BY <2>1, <2>2, <1>0 DEF RelMarks, Raised
    <2>3. CASE ~ (e \in E /\ e.br # b)
      <3>1. PICK f \in E : f.br = b /\ f.to = Null /\ e = [f EXCEPT !.from = u]
        BY <2>3 DEF KeptOrMoved
      <3>2. k = [MarkOf(f) EXCEPT !.from = u] /\ f.rel = r /\ f.end = x
        BY <2>1, <3>1, RaisedMark
      <3>3. MarkOf(f) \in Opened(S, b)
        BY <3>1, <3>2, <1>0 DEF RelMarks, Opened
      <3>. QED BY <3>2, <3>3 DEF Raised
    <2>. QED BY <2>2, <2>3
  <1>2. ASSUME NEW k \in T PROVE k \in RelMarks(F, r, x)
    <2>1. CASE k \in S /\ k.br # b
      <3>1. PICK e \in E : e.rel = r /\ e.end = x /\ k = MarkOf(e)
        BY <2>1 DEF RelMarks
      <3>2. e \in F
        BY <2>1, <3>1, <1>0 DEF KeptOrMoved
      <3>. QED BY <3>1, <3>2 DEF RelMarks
    <2>2. CASE ~ (k \in S /\ k.br # b)
      <3>1. PICK l \in Opened(S, b) : k = [l EXCEPT !.from = u]
        BY <2>2 DEF Raised
      <3>2. PICK e \in E : e.rel = r /\ e.end = x /\ l = MarkOf(e)
        BY <3>1 DEF RelMarks, Opened
      <3>3. e.br = b /\ e.to = Null
        BY <3>1, <3>2, <1>0 DEF Opened
      <3>4. k = MarkOf([e EXCEPT !.from = u]) /\ [e EXCEPT !.from = u].rel = r /\ [e EXCEPT !.from = u].end = x
        BY <3>1, <3>2, RaisedMark
      <3>5. [e EXCEPT !.from = u] \in F
        BY <3>3 DEF KeptOrMoved
      <3>. QED BY <3>4, <3>5 DEF RelMarks
    <2>. QED BY <2>1, <2>2
  <1>. QED BY <1>1, <1>2

LEMMA RebasedNodeMarks ==
  ASSUME NEW E \in SUBSET NodeEdge, NEW b, NEW u \in Time, NEW n
  PROVE  NodeMarks(KeptOrMoved(E, b, u), n) = Raised(NodeMarks(E, n), b, u)
  <1> DEFINE F == KeptOrMoved(E, b, u)
             S == NodeMarks(E, n)
             T == Raised(S, b, u)
  <1>0. \A e \in E : MarkOf(e).br = e.br /\ MarkOf(e).to = e.to
    BY MarkOfFacts
  <1>1. ASSUME NEW k \in NodeMarks(F, n) PROVE k \in T
    <2>1. PICK e \in F : e.node = n /\ k = MarkOf(e)
      BY DEF NodeMarks
    <2>2. CASE e \in E /\ e.br # b
      BY <2>1, <2>2, <1>0 DEF NodeMarks, Raised
    <2>3. CASE ~ (e \in E /\ e.br # b)
      <3>1. PICK f \in E : f.br = b /\ f.to = Null /\ e = [f EXCEPT !.from = u]
        BY <2>3 DEF KeptOrMoved
      <3>2. k = [MarkOf(f) EXCEPT !.from = u] /\ f.node = n
        BY <2>1, <3>1, RaisedMark
      <3>3. MarkOf(f) \in Opened(S, b)
        BY <3>1, <3>2, <1>0 DEF NodeMarks, Opened
      <3>. QED BY <3>2, <3>3 DEF Raised
    <2>. QED BY <2>2, <2>3
  <1>2. ASSUME NEW k \in T PROVE k \in NodeMarks(F, n)
    <2>1. CASE k \in S /\ k.br # b
      <3>1. PICK e \in E : e.node = n /\ k = MarkOf(e)
        BY <2>1 DEF NodeMarks
      <3>2. e \in F
        BY <2>1, <3>1, <1>0 DEF KeptOrMoved
      <3>. QED BY <3>1, <3>2 DEF NodeMarks
    <2>2. CASE ~ (k \in S /\ k.br # b)
      <3>1. PICK l \in Opened(S, b) : k = [l EXCEPT !.from = u]
        BY <2>2 DEF Raised
      <3>2. PICK e \in E : e.node = n /\ l = MarkOf(e)
        BY <3>1 DEF NodeMarks, Opened
      <3>3. e.br = b /\ e.to = Null
        BY <3>1, <3>2, <1>0 DEF Opened
      <3>4. k = MarkOf([e EXCEPT !.from = u]) /\ [e EXCEPT !.from = u].node = n
        BY <3>1, <3>2, RaisedMark
      <3>5. [e EXCEPT !.from = u] \in F
        BY <3>3 DEF KeptOrMoved
      <3>. QED BY <3>4, <3>5 DEF NodeMarks
    <2>. QED BY <2>1, <2>2
  <1>. QED BY <1>1, <1>2

(* The marks of an item in the state. *)
LEMMA OfRelFacts ==
  ASSUME TypeOK, Twin(rels), NEW r \in Rel
  PROVE  /\ OfRel(r) \in SUBSET MarkSet
         /\ \A e \in rels : e.rel = r => MarkOf(e) \in OfRel(r)
         /\ \A k \in OfRel(r), x \in End : \E e \in rels : e.rel = r /\ e.end = x /\ k = MarkOf(e)
  <1>1. rels \in SUBSET RelEdge
    BY TypeParts
  <1>2. \A e \in rels : e.end \in End
    BY <1>1 DEF RelEdge
  <1>3. RelMarks(rels, r, "child") = RelMarks(rels, r, "parent")
    BY DEF Twin
  <1>4. OfRel(r) \in SUBSET MarkSet
    BY <1>1, RelMarksIn DEF OfRel
  <1>5. \A e \in rels : e.rel = r => MarkOf(e) \in OfRel(r)
    BY <1>2, <1>3 DEF OfRel, RelMarks, End
  <1>6. \A k \in OfRel(r), x \in End : \E e \in rels : e.rel = r /\ e.end = x /\ k = MarkOf(e)
    BY <1>3 DEF OfRel, RelMarks, End
  <1>. QED BY <1>4, <1>5, <1>6

LEMMA OfNodeFacts ==
  ASSUME TypeOK, NEW n
  PROVE  /\ OfNode(n) \in SUBSET MarkSet
         /\ \A e \in nodes : e.node = n => MarkOf(e) \in OfNode(n)
         /\ \A k \in OfNode(n) : \E e \in nodes : e.node = n /\ k = MarkOf(e)
  <1>1. nodes \in SUBSET NodeEdge
    BY TypeParts
  <1>. QED BY <1>1, NodeMarksIn DEF OfNode

(* Every visible mark gives a path. *)
PairOf(p, k, r) ==
  /\ p.child \in rels /\ p.child.rel = r /\ p.child.end = "child" /\ MarkOf(p.child) = k
  /\ p.parent \in rels /\ p.parent.rel = r /\ p.parent.end = "parent" /\ MarkOf(p.parent) = k

LEMMA PathOfMark ==
  ASSUME TypeOK, Twin(rels), NEW r \in Rel, NEW v, NEW t, NEW k \in OfRel(r), Visible(k, v, t)
  PROVE  \E p \in Paths(r, v, t) : PairOf(p, k, r)
  <1>1. PICK e \in rels : e.rel = r /\ e.end = "child" /\ k = MarkOf(e)
    BY OfRelFacts DEF End
  <1>2. PICK f \in rels : f.rel = r /\ f.end = "parent" /\ k = MarkOf(f)
    BY OfRelFacts DEF End
  <1>3. Visible(e, v, t) /\ Visible(f, v, t)
    BY <1>1, <1>2, MarkOfFacts, TypeParts
  <1> DEFINE p == [child |-> e, parent |-> f]
  <1>4. p \in Paths(r, v, t)
    BY <1>1, <1>2, <1>3 DEF Paths
  <1>5. PairOf(p, k, r)
    BY <1>1, <1>2 DEF PairOf
  <1>. QED BY <1>4, <1>5

LEMMA PathMarks ==
  ASSUME TypeOK, Twin(rels), NEW r \in Rel, NEW v, v.name \in AnyBranch, NEW t, NEW p \in Paths(r, v, t)
  PROVE  /\ p.child \in rels /\ p.child.rel = r /\ p.child.end = "child"
         /\ p.parent \in rels /\ p.parent.rel = r /\ p.parent.end = "parent"
         /\ MarkOf(p.child) \in OfRel(r) /\ MarkOf(p.parent) \in OfRel(r)
         /\ Visible(MarkOf(p.child), v, t) /\ Visible(MarkOf(p.parent), v, t)
         /\ level(p.child) = level(MarkOf(p.child)) /\ level(p.parent) = level(MarkOf(p.parent))
         /\ p.child.from = MarkOf(p.child).from /\ p.parent.from = MarkOf(p.parent).from
         /\ p.child.from \in Nat /\ p.parent.from \in Nat
         /\ level(p.child) \in {1, 2} /\ level(p.parent) \in {1, 2}
  <1>1. /\ p.child \in rels /\ p.child.rel = r /\ p.child.end = "child"
        /\ p.parent \in rels /\ p.parent.rel = r /\ p.parent.end = "parent"
        /\ Visible(p.child, v, t) /\ Visible(p.parent, v, t)
    BY DEF Paths
  <1>2. p.child \in RelEdge /\ p.parent \in RelEdge
    BY <1>1, TypeParts
  <1>3. p.child.from \in Nat /\ p.parent.from \in Nat
    BY <1>2, TimeFacts DEF RelEdge
  <1>4. level(p.child) \in {1, 2} /\ level(p.parent) \in {1, 2}
    BY DEF level
  <1>. QED BY <1>1, <1>2, <1>3, <1>4, MarkOfFacts, OfRelFacts

LEMMA SameLevel ==
  ASSUME NEW S \in SUBSET MarkSet, OneFrom(S), NEW v, NEW t, NEW k \in S, NEW l \in S,
         Visible(k, v, t), Visible(l, v, t), level(k) = level(l), k.from = l.from
  PROVE  k = l
  <1>1. (k.br = Main <=> l.br = Main) /\ (k.br # Main => k.br = l.br)
    BY DEF level, Visible
  <1>. QED BY <1>1 DEF OneFrom

(* The path listed first goes through the two edges of one mark. *)
LEMMA FirstIsPair ==
  ASSUME TypeOK, Twin(rels), NEW r \in Rel, OneFrom(OfRel(r)), NEW v, v.name \in AnyBranch, NEW t,
         NEW p \in First(r, v, t)
  PROVE  \E k \in Best(OfRel(r), v, t) : PairOf(p, k, r)
  <1> DEFINE S == OfRel(r)
             k == MarkOf(p.child)
             l == MarkOf(p.parent)
  <1>1. p \in Paths(r, v, t) /\ \A o \in Paths(r, v, t) : ~ Ahead(o, p)
    BY DEF First
  <1>2. /\ p.child \in rels /\ p.child.rel = r /\ p.child.end = "child"
        /\ p.parent \in rels /\ p.parent.rel = r /\ p.parent.end = "parent"
        /\ k \in S /\ l \in S
        /\ Visible(k, v, t) /\ Visible(l, v, t)
        /\ level(p.child) = level(k) /\ level(p.parent) = level(l)
        /\ p.child.from = k.from /\ p.parent.from = l.from
        /\ p.child.from \in Nat /\ p.parent.from \in Nat
        /\ level(p.child) \in {1, 2} /\ level(p.parent) \in {1, 2}
    BY <1>1, PathMarks
  <1>3. S \in SUBSET MarkSet
    BY OfRelFacts
  <1> HIDE DEF S, k, l
  <1>4. ASSUME NEW j \in S, Visible(j, v, t)
        PROVE  /\ level(j) \in {1, 2} /\ j.from \in Nat
               /\ ~ (level(j) + level(j) > level(k) + level(l))
               /\ ~ (level(j) + level(j) = level(k) + level(l) /\ j.from > l.from)
               /\ ~ (level(j) + level(j) = level(k) + level(l) /\ j.from = l.from /\ j.from > k.from)
    <2>1. PICK o \in Paths(r, v, t) : PairOf(o, j, r)
      BY <1>4, PathOfMark DEF S
    <2>2. /\ level(o.child) = level(MarkOf(o.child)) /\ level(o.parent) = level(MarkOf(o.parent))
          /\ o.child.from = MarkOf(o.child).from /\ o.parent.from = MarkOf(o.parent).from
          /\ o.child.from \in Nat /\ o.parent.from \in Nat
          /\ level(o.child) \in {1, 2} /\ level(o.parent) \in {1, 2}
      BY <2>1, PathMarks
    <2>3. MarkOf(o.child) = j /\ MarkOf(o.parent) = j
      BY <2>1 DEF PairOf
    <2>4. ~ Ahead(o, p)
      BY <1>1
    <2>. QED BY <2>2, <2>3, <2>4, <1>2 DEF Ahead, score
  <1>5. level(k) = level(l)
    BY <1>2, <1>4
  <1>6. k.from = l.from
    BY <1>2, <1>4, <1>5
  <1>7. k = l
    BY <1>2, <1>3, <1>5, <1>6, SameLevel DEF S
  <1>8. \A j \in S : Visible(j, v, t) => level(j) < level(k) \/ (level(j) = level(k) /\ j.from <= k.from)
    BY <1>2, <1>4, <1>5, <1>6
  <1>9. k \in Best(S, v, t)
    BY <1>2, <1>8 DEF Best
  <1>10. PairOf(p, k, r)
    BY <1>2, <1>7 DEF PairOf, k, l
  <1>. QED BY <1>9, <1>10 DEF S

LEMMA PairIsFirst ==
  ASSUME TypeOK, Twin(rels), NEW r \in Rel, NEW v, v.name \in AnyBranch, NEW t,
         NEW k \in Best(OfRel(r), v, t)
  PROVE  \E p \in First(r, v, t) : PairOf(p, k, r)
  <1>1. k \in OfRel(r) /\ Visible(k, v, t)
    BY DEF Best
  <1>2. PICK p \in Paths(r, v, t) : PairOf(p, k, r)
    BY <1>1, PathOfMark
  <1>3. /\ level(p.child) = level(MarkOf(p.child)) /\ level(p.parent) = level(MarkOf(p.parent))
        /\ p.child.from = MarkOf(p.child).from /\ p.parent.from = MarkOf(p.parent).from
        /\ p.child.from \in Nat /\ p.parent.from \in Nat
        /\ level(p.child) \in {1, 2} /\ level(p.parent) \in {1, 2}
    BY <1>2, PathMarks
  <1>4. MarkOf(p.child) = k /\ MarkOf(p.parent) = k
    BY <1>2 DEF PairOf
  <1>5. ASSUME NEW o \in Paths(r, v, t), Ahead(o, p) PROVE FALSE
    <2>1. /\ MarkOf(o.child) \in OfRel(r) /\ MarkOf(o.parent) \in OfRel(r)
          /\ Visible(MarkOf(o.child), v, t) /\ Visible(MarkOf(o.parent), v, t)
          /\ level(o.child) = level(MarkOf(o.child)) /\ level(o.parent) = level(MarkOf(o.parent))
          /\ o.child.from = MarkOf(o.child).from /\ o.parent.from = MarkOf(o.parent).from
          /\ o.child.from \in Nat /\ o.parent.from \in Nat
          /\ level(o.child) \in {1, 2} /\ level(o.parent) \in {1, 2}
      BY PathMarks
    <2>2. /\ level(o.child) < level(k) \/ (level(o.child) = level(k) /\ o.child.from <= k.from)
          /\ level(o.parent) < level(k) \/ (level(o.parent) = level(k) /\ o.parent.from <= k.from)
      BY <2>1 DEF Best
    <2>. QED BY <2>1, <2>2, <1>3, <1>4, <1>5 DEF Ahead, score
  <1>6. p \in First(r, v, t)
    BY <1>5 DEF First
  <1>. QED BY <1>2, <1>6

(* What the reads of a view find. *)
LEMMA OneBest ==
  ASSUME NEW S \in SUBSET MarkSet, OneFrom(S), NEW v, NEW t, NEW k \in Best(S, v, t), NEW l \in Best(S, v, t)
  PROVE  k = l
  <1>1. k \in S /\ l \in S /\ Visible(k, v, t) /\ Visible(l, v, t)
    BY DEF Best
  <1>2. level(k) \in {1, 2} /\ level(l) \in {1, 2}
    BY DEF level
  <1>3. k.from \in Nat /\ l.from \in Nat
    BY <1>1, MarkFacts
  <1>4. level(k) = level(l) /\ k.from = l.from
    BY <1>1, <1>2, <1>3 DEF Best
  <1>. QED BY <1>1, <1>4, SameLevel

(* What a read returns of the relationships, and of a node, is what is found *)
(* first among its marks; no read depends on ties.                           *)
LEMMA SeenIs ==
  ASSUME TypeOK, Twin(rels), \A r \in Rel : OneFrom(OfRel(r)), NEW v, v.name \in AnyBranch, NEW t
  PROVE  /\ \A r \in Rel : r \in MaySee(v, t) <=> \E k \in Best(OfRel(r), v, t) : k.status = "active"
         /\ MustSee(v, t) = MaySee(v, t)
         /\ MaySee(v, t) \subseteq Rel
  <1>1. Known \subseteq Rel
    BY TypeParts DEF Known, RelEdge
  <1>2. ASSUME NEW r \in Rel, NEW p \in First(r, v, t)
        PROVE  \A k \in Best(OfRel(r), v, t) : Live(p) <=> k.status = "active"
    <2>1. PICK l \in Best(OfRel(r), v, t) : PairOf(p, l, r)
      BY <1>2, FirstIsPair
    <2>2. Live(p) <=> l.status = "active"
      <3>1. p.child.status = l.status /\ p.parent.status = l.status
        BY <2>1, MarkOfFacts, TypeParts DEF PairOf
      <3>. QED BY <3>1 DEF Live
    <2>3. OfRel(r) \in SUBSET MarkSet
      BY OfRelFacts
    <2>. QED BY <2>2, <2>3, OneBest
  <1>3. \A r \in Rel : (\E p \in First(r, v, t) : TRUE) <=> \E k \in Best(OfRel(r), v, t) : TRUE
    BY FirstIsPair, PairIsFirst
  <1>4. \A r \in Rel : (\E k \in Best(OfRel(r), v, t) : TRUE) => r \in Known
    <2> SUFFICES ASSUME NEW r \in Rel, NEW k \in Best(OfRel(r), v, t) PROVE r \in Known
      OBVIOUS
    <2>1. k \in OfRel(r)
      BY DEF Best
    <2>2. PICK e \in rels : e.rel = r
      BY <2>1, OfRelFacts DEF End
    <2>. QED BY <2>2 DEF Known
  <1>5. \A r \in Rel : r \in MaySee(v, t) <=> \E k \in Best(OfRel(r), v, t) : k.status = "active"
    BY <1>2, <1>3, <1>4 DEF MaySee
  <1>6. MustSee(v, t) = MaySee(v, t)
    BY <1>1, <1>2, <1>3, <1>5 DEF MustSee, MaySee
  <1>. QED BY <1>1, <1>5, <1>6 DEF MaySee

LEMMA NodeBest ==
  ASSUME TypeOK, NEW v, NEW n, NEW t
  PROVE  /\ NodeActive(v, n, t) <=> \E k \in Best(OfNode(n), v, t) : k.status = "active"
         /\ \A e \in nodes : e.node = n => (e \in CurrentNodeEdges(v, n, t) <=> MarkOf(e) \in Best(OfNode(n), v, t))
  <1>1. \A e \in nodes : /\ MarkOf(e).br = e.br /\ MarkOf(e).status = e.status /\ MarkOf(e).from = e.from
                         /\ level(MarkOf(e)) = level(e)
                         /\ Visible(MarkOf(e), v, t) <=> Visible(e, v, t)
    BY MarkOfFacts, TypeParts
  <1>2. /\ \A e \in nodes : e.node = n => MarkOf(e) \in OfNode(n)
        /\ \A k \in OfNode(n) : \E e \in nodes : e.node = n /\ k = MarkOf(e)
    BY OfNodeFacts
  <1>3. \A e \in nodes : e.node = n => (e \in CurrentNodeEdges(v, n, t) <=> MarkOf(e) \in Best(OfNode(n), v, t))
    <2> TAKE e \in nodes
    <2> HAVE e.node = n
    <2>1. ASSUME e \in CurrentNodeEdges(v, n, t) PROVE MarkOf(e) \in Best(OfNode(n), v, t)
      <3>1. Visible(e, v, t) /\ \A f \in nodes : f.node = n /\ Visible(f, v, t) =>
               level(f) < level(e) \/ (level(f) = level(e) /\ f.from <= e.from)
        BY <2>1 DEF CurrentNodeEdges
      <3>2. \A l \in OfNode(n) : Visible(l, v, t) =>
               level(l) < level(MarkOf(e)) \/ (level(l) = level(MarkOf(e)) /\ l.from <= MarkOf(e).from)
        BY <3>1, <1>1, <1>2
      <3>. QED BY <3>1, <3>2, <1>1, <1>2 DEF Best
    <2>2. ASSUME MarkOf(e) \in Best(OfNode(n), v, t) PROVE e \in CurrentNodeEdges(v, n, t)
      <3>1. Visible(MarkOf(e), v, t) /\ \A l \in OfNode(n) : Visible(l, v, t) =>
               level(l) < level(MarkOf(e)) \/ (level(l) = level(MarkOf(e)) /\ l.from <= MarkOf(e).from)
        BY <2>2 DEF Best
      <3>2. \A f \in nodes : f.node = n /\ Visible(f, v, t) =>
               level(f) < level(e) \/ (level(f) = level(e) /\ f.from <= e.from)
        BY <3>1, <1>1, <1>2
      <3>. QED BY <3>1, <3>2, <1>1 DEF CurrentNodeEdges
    <2>. QED BY <2>1, <2>2
  <1>4. \A e \in CurrentNodeEdges(v, n, t) : e \in nodes /\ e.node = n
    BY DEF CurrentNodeEdges
  <1>5. \A k \in Best(OfNode(n), v, t) : k \in OfNode(n)
    BY DEF Best
  <1>. QED BY <1>1, <1>2, <1>3, <1>4, <1>5 DEF NodeActive

LEMMA MainLater ==
  ASSUME NEW S \in SUBSET MarkSet, NEW c \in Nat, NEW t \in Nat, c <= t, \A k \in S : k.from <= c
  PROVE  MainOn(S, t) <=> MainOn(S, c)
  <1>1. \A k \in S : k.from \in Nat
    BY MarkFacts
  <1>2. \A k \in S : k.from <= t
    BY <1>1
  <1>. QED BY <1>2 DEF MainOn

LEMMA ViewFacts ==
  ASSUME TypeOK, Times, NEW b \in AnyBranch
  PROVE  /\ View(b).name = b
         /\ b # Main => b \in Branch /\ View(b).branched_from = From(b) /\ From(b) \in Nat /\ From(b) <= clock
         /\ clock \in Nat
  <1>1. View(b).name = b /\ (b # Main => b \in Branch /\ View(b).branched_from = From(b))
    BY DEF View, From, AnyBranch
  <1>2. b # Main => From(b) \in Nat /\ From(b) <= clock
    BY <1>1 DEF TypeOK, Times, From
  <1>. QED BY <1>1, <1>2, TimeFacts DEF TypeOK

(* Every edge began, and ended, before a time.                               *)
Stamped(t) == \A e \in nodes \cup rels : e.from < t /\ e.to < t

(* The marks are not of the future.                                          *)
LEMMA MarksStamped ==
  ASSUME TypeOK, Twin(rels)
  PROVE  /\ \A r \in Rel : \A k \in OfRel(r) : k.from <= clock /\ k.to <= clock
         /\ \A n : \A k \in OfNode(n) : k.from <= clock /\ k.to <= clock
         /\ \A t : Stamped(t) => /\ \A r \in Rel : \A k \in OfRel(r) : k.from < t /\ k.to < t
                                 /\ \A n : \A k \in OfNode(n) : k.from < t /\ k.to < t
  <1>1. \A e \in nodes \cup rels : MarkOf(e).from = e.from /\ MarkOf(e).to = e.to /\ e.from <= clock /\ e.to <= clock
    BY MarkOfFacts DEF TypeOK
  <1>2. \A r \in Rel : \A k \in OfRel(r) : \E e \in rels : k = MarkOf(e)
    BY OfRelFacts DEF End
  <1>3. \A n : \A k \in OfNode(n) : \E e \in nodes : k = MarkOf(e)
    BY OfNodeFacts
  <1>. QED BY <1>1, <1>2, <1>3 DEF Stamped

(* A read later than every mark finds what the branch shows.                 *)
LEMMA ReadsMarks ==
  ASSUME NEW S \in SUBSET MarkSet, InOrder(S), TypeOK, Times, NEW b \in AnyBranch, NEW t \in Nat, clock <= t,
         \A k \in S : k.from <= clock /\ k.to < t /\ k.from < t
  PROVE  (\E k \in Best(S, View(b), t) : k.status = "active") <=> Shown(S, b, From(b), clock)
  <1>1. /\ View(b).name = b
        /\ b # Main => b \in Branch /\ View(b).branched_from = From(b) /\ From(b) \in Nat /\ From(b) <= clock
        /\ clock \in Nat
    BY ViewFacts
  <1>2. CASE b = Main
    <2>1. (\E k \in Best(S, View(b), t) : k.status = "active") <=> MainOn(S, t)
      BY <1>1, <1>2, ReadMain
    <2>2. MainOn(S, t) <=> MainOn(S, clock)
      BY <1>1, MainLater
    <2>. QED BY <2>1, <2>2, <1>2 DEF Shown
  <1>3. CASE b # Main
    <2>1. From(b) <= t
      BY <1>1, <1>3
    <2>2. \A k \in S : k.br = b => k.from <= t
      BY MarkFacts
    <2>3. (\E k \in Best(S, View(b), t) : k.status = "active") <=> Shown(S, b, From(b), t)
      BY <1>1, <1>3, <2>1, <2>2, ReadBranch
    <2>. QED BY <2>3, <1>3 DEF Shown
  <1>. QED BY <1>2, <1>3

(* What a branch shows now, at a time later than every edge. *)
LEMMA ReadsNow ==
  ASSUME TypeOK, Quiet, Times, NEW b \in AnyBranch, NEW t \in Nat, clock <= t, Stamped(t)
  PROVE  /\ \A r \in Rel : r \in MaySee(View(b), t) <=> ShowsRel(b, r)
         /\ \A n \in Node : NodeActive(View(b), n, t) <=> ShowsNode(b, n)
         /\ MustSee(View(b), t) = MaySee(View(b), t)
         /\ MaySee(View(b), t) \subseteq Rel
  <1>1. View(b).name \in AnyBranch
    BY ViewFacts
  <1>2. Twin(rels) /\ (\A r \in Rel : InOrder(OfRel(r)) /\ OneFrom(OfRel(r))) /\ \A n \in Node : InOrder(OfNode(n))
    BY DEF Quiet, RelSound, NodeSound, Tracked
  <1>3. /\ \A r \in Rel : r \in MaySee(View(b), t) <=> \E k \in Best(OfRel(r), View(b), t) : k.status = "active"
        /\ MustSee(View(b), t) = MaySee(View(b), t)
        /\ MaySee(View(b), t) \subseteq Rel
    BY <1>1, <1>2, SeenIs
  <1>4. \A r \in Rel : (\E k \in Best(OfRel(r), View(b), t) : k.status = "active") <=> ShowsRel(b, r)
    <2> TAKE r \in Rel
    <2>1. OfRel(r) \in SUBSET MarkSet /\ \A k \in OfRel(r) : k.from <= clock /\ k.to < t /\ k.from < t
      BY <1>2, OfRelFacts, MarksStamped
    <2>. QED BY <2>1, <1>2, ReadsMarks DEF ShowsRel
  <1>5. \A n \in Node : NodeActive(View(b), n, t) <=> ShowsNode(b, n)
    <2> TAKE n \in Node
    <2>1. OfNode(n) \in SUBSET MarkSet /\ \A k \in OfNode(n) : k.from <= clock /\ k.to < t /\ k.from < t
      BY <1>2, OfNodeFacts, MarksStamped
    <2>2. (\E k \in Best(OfNode(n), View(b), t) : k.status = "active") <=> ShowsNode(b, n)
      BY <2>1, <1>2, ReadsMarks DEF ShowsNode
    <2>. QED BY <2>2, NodeBest
  <1>. QED BY <1>3, <1>4, <1>5

LEMMA NextStamped ==
  ASSUME TypeOK
  PROVE  clock + 1 \in Nat /\ clock <= clock + 1 /\ Stamped(clock + 1)
  <1>1. \A e \in nodes \cup rels : e.from \in Nat /\ e.to \in Nat /\ e.from <= clock /\ e.to <= clock
    BY TimeAssumption DEF TypeOK, NodeEdge, RelEdge, Time, Null
  <1>2. clock \in Nat
    BY TimeFacts DEF TypeOK
  <1>. QED BY <1>1, <1>2 DEF Stamped

(* What the invariant is for.                                                *)
LEMMA QuietConnects ==
  ASSUME TypeOK, QInv
  PROVE  NoDangling
  <1> SUFFICES ASSUME incidents = {}, NEW b \in AnyBranch, Exists(b)
               PROVE  Connected(View(b), clock + 1)
    BY DEF NoDangling
  <1> DEFINE v == View(b)
             t == clock + 1
  <1>1. Quiet /\ Times /\ JoinedOn(b)
    BY DEF QInv, Quiet
  <1>2. /\ \A r \in Rel : r \in MaySee(v, t) <=> ShowsRel(b, r)
        /\ \A n \in Node : NodeActive(v, n, t) <=> ShowsNode(b, n)
        /\ MustSee(v, t) = MaySee(v, t)
        /\ MaySee(v, t) \subseteq Rel
    BY <1>1, ReadsNow, NextStamped
  <1> HIDE DEF v, t
  <1>3. \A r \in Rel : r.child \in Node /\ r.parent \in Node
    BY DEF Rel, Node
  <1>4. \A r \in MaySee(v, t) : NodeActive(v, r.child, t) /\ NodeActive(v, r.parent, t)
    BY <1>1, <1>2, <1>3 DEF JoinedOn
  <1>5. \A c \in Child : NodeActive(v, c, t) => Cardinality({r \in MaySee(v, t) : r.child = c}) = 1
    <2> SUFFICES ASSUME NEW c \in Child, NodeActive(v, c, t)
                 PROVE  Cardinality({r \in MaySee(v, t) : r.child = c}) = 1
      OBVIOUS
    <2>1. c \in Node
      BY DEF Node
    <2>2. PICK r \in Rel : r.child = c /\ ShowsRel(b, r)
      BY <2>1, <1>1, <1>2 DEF JoinedOn
    <2>3. {s \in MaySee(v, t) : s.child = c} = {r}
      BY <2>2, <1>1, <1>2 DEF JoinedOn
    <2>. QED BY <2>3, FS_Singleton
  <1>. QED BY <1>2, <1>4, <1>5 DEF Connected, v, t

(* A branch that has a mark of an item has a latest one.                     *)
LEMMA LatestExists ==
  ASSUME NEW S \in SUBSET MarkSet, NEW f \in S
  PROVE  \E k \in S : k.br = f.br /\ LatestOf(S, k) /\ f.from <= k.from
  <1> DEFINE V == {k \in S : k.br = f.br}
             P == {MaxTime - k.from : k \in V}
  <1>1. \A k \in S : k.from \in Nat /\ MaxTime - k.from \in Nat
    BY MarkFacts, TimeFacts, TimeAssumption
  <1>2. P \subseteq Nat /\ P # {}
    BY <1>1
  <1>3. PICK x \in P : \A y \in P : x <= y
    BY <1>2, LeastNumber
  <1>4. PICK k \in V : x = MaxTime - k.from
    BY <1>3
  <1>5. \A l \in V : l.from <= k.from
    BY <1>1, <1>3, <1>4, TimeAssumption
  <1>. QED BY <1>5 DEF LatestOf

(* The time at which a request commits. *)
LEMMA NowFacts ==
  ASSUME TypeOK, Pending, Times, Waits, NEW q \in Request, request[q] # Idle
  PROVE  /\ Now(q) \in Nat /\ clock <= Now(q) /\ Stamped(Now(q))
         /\ \A b \in Branch : From(b) < Now(q) /\ From(b) \in Nat /\ From(b) # request[q].at
         /\ request[q].at \in Nat /\ request[q].at \in Time /\ request[q].at <= Now(q)
         /\ request[q].view.name \in AnyBranch
         /\ request[q].view.branched_from \in Nat /\ request[q].view.branched_from < request[q].at
  <1> DEFINE m == request[q]
  <1>1. m.at \in Time /\ m.view \in BranchView /\ m.view.name \in AnyBranch /\ m.at <= clock
    BY RequestFacts DEF Pending, OfBranch
  <1>2. m.at \in Nat /\ clock \in Nat /\ m.view.branched_from \in Nat
    BY <1>1, TimeFacts DEF TypeOK, BranchView
  <1>3. NotYet(m.at) /\ m.view.branched_from < m.at
    BY DEF Waits
  <1>4. \A e \in nodes \cup rels : e.from \in Nat /\ e.to \in Nat /\ e.from <= clock /\ e.to <= clock
    BY TimeAssumption DEF TypeOK, NodeEdge, RelEdge, Time, Null
  <1>5. \A b \in Branch : From(b) \in Nat /\ From(b) <= clock /\ From(b) # m.at
    BY <1>3 DEF TypeOK, Times, From, NotYet
  <1>6. CASE clock = m.at
    <2>1. Now(q) = clock
      BY <1>6 DEF Now
    <2>2. \A e \in nodes \cup rels : e.from # clock /\ e.to # clock
      BY <1>3, <1>6 DEF NotYet
    <2>. QED BY <2>1, <2>2, <1>1, <1>2, <1>3, <1>4, <1>5, <1>6 DEF Stamped
  <1>7. CASE clock # m.at
    <2>1. Now(q) = clock + 1
      BY <1>7 DEF Now
    <2>2. Stamped(clock + 1)
      BY NextStamped
    <2>. QED BY <2>1, <2>2, <1>1, <1>2, <1>3, <1>5, <1>7
  <1>. QED BY <1>6, <1>7

(* A request that commits on reads that are not stale saw what its branch   *)
(* shows now.                                                               *)
LEMMA SeenNow ==
  ASSUME TypeOK, Pending, Quiet, Times, Waits, NEW q \in Request, request[q] # Idle,
         Exists(request[q].view.name), Stale(request[q], Now(q)) = {}
  PROVE  LET m == request[q]
             b == m.view.name
         IN /\ \A seen \in Readings(m.view, m.at) : seen \subseteq Rel /\ \A r \in Rel : r \in seen <=> ShowsRel(b, r)
            /\ \A r \in Rel : ShowsRel(b, r) => \E k \in Best(OfRel(r), m.view, m.at) : k.status = "active"
            /\ m.op # "create" => ShowsNode(b, m.node)
            /\ m.op # "delete" => ShowsNode(b, m.peer)
  <1> DEFINE m == request[q]
             b == m.view.name
             t == Now(q)
             M == MaySee(m.view, m.at)
  <1>1. t \in Nat /\ clock <= t /\ Stamped(t) /\ b \in AnyBranch
    BY NowFacts
  <1>2. m.node \in Node /\ m.peer \in Node
    BY RequestFacts DEF Node
  <1>3. /\ \A r \in Rel : r \in MaySee(View(b), t) <=> ShowsRel(b, r)
        /\ \A n \in Node : NodeActive(View(b), n, t) <=> ShowsNode(b, n)
        /\ MustSee(View(b), t) = MaySee(View(b), t)
        /\ MaySee(View(b), t) \subseteq Rel
    BY <1>1, ReadsNow
  <1>4. /\ MaySee(View(b), t) = M
        /\ m.op # "create" => NodeActive(View(b), m.node, t)
        /\ m.op # "delete" => NodeActive(View(b), m.peer, t)
    BY DEF Stale
  <1>5. Twin(rels) /\ \A r \in Rel : OneFrom(OfRel(r))
    BY DEF Quiet, RelSound, Tracked
  <1>6. /\ \A r \in Rel : r \in M <=> \E k \in Best(OfRel(r), m.view, m.at) : k.status = "active"
        /\ MustSee(m.view, m.at) = M
        /\ M \subseteq Rel
    BY <1>1, <1>5, SeenIs
  <1>7. JoinedOn(b)
    BY <1>1 DEF Quiet
  <1> HIDE DEF M
  <1>8. \A seen \in Readings(m.view, m.at) : seen = M
    <2> TAKE seen \in Readings(m.view, m.at)
    <2>1. seen \in OnePerPeer(M)
      <3>1. PICK S \in SUBSET M : M \subseteq S /\ seen \in OnePerPeer(S)
        BY <1>6 DEF Readings, M
      <3>2. S = M
        BY <3>1
      <3>. QED BY <3>1, <3>2
    <2>2. seen \subseteq M /\ \A r \in M : Cardinality({x \in seen : x.child = r.child /\ x.parent = r.parent}) = 1
      BY <2>1 DEF OnePerPeer
    <2>3. ASSUME NEW r \in M PROVE r \in seen
      <3>1. {x \in seen : x.child = r.child /\ x.parent = r.parent} # {}
        BY <2>2, FS_EmptySet
      <3>2. PICK x \in seen : x.child = r.child
        BY <3>1
      <3>3. x \in M /\ x \in Rel /\ r \in Rel
        BY <2>2, <3>2, <1>6
      <3>4. x = r
        BY <3>2, <3>3, <1>3, <1>4, <1>7 DEF JoinedOn
      <3>. QED BY <3>2, <3>4
    <2>. QED BY <2>2, <2>3
  <1>9. \A r \in Rel : r \in M <=> ShowsRel(b, r)
    BY <1>3, <1>4
  <1>10. (m.op # "create" => ShowsNode(b, m.node)) /\ (m.op # "delete" => ShowsNode(b, m.peer))
    BY <1>2, <1>3, <1>4
  <1> HIDE DEF m, b
  <1>11. \A seen \in Readings(m.view, m.at) : seen \subseteq Rel /\ \A r \in Rel : r \in seen <=> ShowsRel(b, r)
    BY <1>6, <1>8, <1>9
  <1>12. \A r \in Rel : ShowsRel(b, r) => \E k \in Best(OfRel(r), m.view, m.at) : k.status = "active"
    BY <1>6, <1>9
  <1>. QED BY <1>10, <1>11, <1>12 DEF m, b

(* What a view of branch b sees on main began before the time of the read. *)
LEMMA SeenSince ==
  ASSUME NEW k \in MarkSet, NEW v, v.branched_from \in Nat, NEW at \in Nat, Visible(k, v, at)
  PROVE  k.from <= at /\ (k.br = v.name \/ k.br = Main)
  <1>1. k.from \in Nat
    BY MarkFacts
  <1>. QED BY <1>1 DEF Visible, ValidAt

(* The marks of a relationship that a request saw and its branch still shows. *)
LEMMA RelToDrop ==
  ASSUME TypeOK, Pending, Quiet, Times, Waits, NEW q \in Request, request[q] # Idle, NEW r \in Rel,
         ShowsRel(request[q].view.name, r),
         \E k \in Best(OfRel(r), request[q].view, request[q].at) : k.status = "active"
  PROVE  LET m == request[q]
             b == m.view.name
             S == OfRel(r)
             X == {k \in Best(S, m.view, m.at) : k.br = b}
         IN /\ X \subseteq S
            /\ \A k \in X : k.status = "active"
            /\ b # Main => Opened(S, b) \subseteq X /\ \A k \in S : k.br = b => k.from < m.at
            /\ b = Main /\ Backdated(m) = {} => \A k \in S : k.br = Main /\ k.status = "active" => k.from < m.at
            /\ \A k \in S : k.from # m.at
            /\ r.born <= m.at
  <1> DEFINE m == request[q]
             b == m.view.name
             v == m.view
             at == m.at
             S == OfRel(r)
             X == {k \in Best(S, v, at) : k.br = b}
  <1>1. at \in Nat /\ b \in AnyBranch /\ v.branched_from \in Nat /\ NotYet(at) /\ v.name = b
    BY NowFacts DEF Waits
  <1>2. Twin(rels) /\ RelSound(r)
    BY DEF Quiet
  <1>3. S \in SUBSET MarkSet /\ InOrder(S) /\ Tracked(S) /\ (\A k \in S : r.born <= k.from)
        /\ MainBirths(S, r.born) /\ (\A c \in Branch : Agreed(S, c, From(c)))
    BY <1>2, OfRelFacts DEF RelSound
  <1>4. PICK a \in Best(S, v, at) : a.status = "active"
    OBVIOUS
  <1>5. Shown(S, b, From(b), clock)
    BY DEF ShowsRel
  <1>6. \A k \in S : k.from \in Nat /\ k.to \in Nat /\ k.from # at
    <2>1. \A k \in S : \E e \in rels : k = MarkOf(e)
      BY <1>2, OfRelFacts DEF End
    <2>2. \A e \in rels : MarkOf(e).from = e.from /\ e.from # at
      BY <1>1, MarkOfFacts, TypeParts DEF NotYet
    <2>. QED BY <1>3, <2>1, <2>2, MarkFacts
  <1> HIDE DEF m, b, v, at, S
  <1>7. a \in S /\ Visible(a, v, at) /\ a.from <= at /\ (a.br = b \/ a.br = Main)
    <2>1. a \in S /\ Visible(a, v, at)
      BY DEF Best
    <2>. QED BY <2>1, <1>1, <1>3, SeenSince
  <1>8. \A k \in Best(S, v, at) : k = a
    BY <1>3, OneBest DEF Tracked
  <1>9. X \subseteq S /\ \A k \in X : k.status = "active"
    BY <1>4, <1>7, <1>8
  <1>10. ASSUME b # Main PROVE Opened(S, b) \subseteq X /\ \A k \in S : k.br = b => k.from < at
    <2>0. b \in Branch
      BY <1>1, <1>10 DEF AnyBranch
    <2>1. CASE Opened(S, b) # {}
      <3>1. PICK o \in Opened(S, b) : o.status = "active"
        BY <2>1, <1>5, <1>10 DEF Shown
      <3>2. S = {o} /\ o.br = b
        BY <3>1, <1>3, <1>10 DEF Opened, InOrder, Sole
      <3>3. a = o /\ o \in X /\ o.from < at
        BY <3>2, <1>4, <1>6, <1>7, <1>1
      <3>. QED BY <3>2, <3>3 DEF Opened
    <2>2. CASE Opened(S, b) = {}
      <3>1. MainOn(S, From(b))
        BY <2>2, <1>5, <1>10 DEF Shown
      <3>2. ASSUME NEW k \in S, k.br = b, ~ (k.from < at) PROVE FALSE
        <4>1. PICK l \in S : l.br = b /\ LatestOf(S, l) /\ k.from <= l.from
          BY <1>3, <3>2, LatestExists
        <4>2. l.from > at
          BY <4>1, <3>2, <1>1, <1>6
        <4>3. l.to # Null
          BY <4>1, <2>2 DEF Opened
        <4>4. l.status = "active"
          BY <4>1, <4>3, <3>1, <1>3, <2>0 DEF Agreed
        <4>5. CASE a.br = b
          <5>1. a = l
            BY <4>1, <4>4, <4>5, <1>3, <1>4, <1>7, <1>10 DEF Tracked, OneBirth
          <5>. QED BY <5>1, <4>2, <1>1, <1>6, <1>7
        <4>6. CASE a.br = Main
          <5>1. l.from < a.from
            BY <4>1, <4>4, <4>6, <1>3, <1>7, <1>10 DEF InOrder, MainFollows
          <5>. QED BY <5>1, <4>1, <4>2, <1>1, <1>6, <1>7
        <4>. QED BY <4>5, <4>6, <1>7
      <3>. QED BY <2>2, <3>2
    <2>. QED BY <2>1, <2>2
  <1>11. ASSUME b = Main, Backdated(m) = {}, NEW k \in S, k.br = Main, k.status = "active" PROVE k.from < at
    <2>1. \A c \in Branch : ~ (From(c) > at)
      BY <1>11 DEF Backdated, From, b, at
    <2>2. CASE k.from = r.born
      BY <2>2, <1>1, <1>3, <1>6, <1>7, <1>11
    <2>3. CASE \E c \in Branch : From(c) > k.from
      <3>1. PICK c \in Branch : From(c) > k.from
        BY <2>3
      <3>2. From(c) \in Nat
        BY DEF TypeOK, From
      <3>. QED BY <3>1, <3>2, <2>1, <1>1, <1>6, <1>11
    <2>. QED BY <2>2, <2>3, <1>3, <1>11 DEF MainBirths
  <1>12. r.born <= at
    <2>1. r.born \in Nat
      BY TimeFacts DEF Rel
    <2>. QED BY <2>1, <1>1, <1>3, <1>6, <1>7
  <1>. QED BY <1>6, <1>9, <1>10, <1>11, <1>12 DEF m, b, v, at, S

(* What a branch shows is the same when its marks and its view are. *)
LEMMA ShownSame ==
  ASSUME NEW S \in SUBSET MarkSet, NEW c, NEW f, NEW t \in Nat, NEW u \in Nat, t <= u, \A k \in S : k.from <= t
  PROVE  Shown(S, c, f, u) <=> Shown(S, c, f, t)
  BY MainLater DEF Shown

LEMMA RelShownSame ==
  ASSUME TypeOK, TypeOK', Twin(rels), NEW r \in Rel, NEW c \in AnyBranch, OfRel(r)' = OfRel(r),
         c # Main => From(c)' = From(c), clock <= clock'
  PROVE  ShowsRel(c, r)' <=> ShowsRel(c, r)
  <1>1. OfRel(r) \in SUBSET MarkSet /\ \A k \in OfRel(r) : k.from <= clock
    BY OfRelFacts, MarksStamped
  <1>2. clock \in Nat /\ clock' \in Nat
    BY TimeFacts DEF TypeOK
  <1>3. Shown(OfRel(r), c, From(c), clock') <=> Shown(OfRel(r), c, From(c), clock)
    BY <1>1, <1>2, ShownSame
  <1>4. ShowsRel(c, r)' <=> Shown(OfRel(r), c, From(c)', clock')
    BY DEF ShowsRel
  <1>5. Shown(OfRel(r), c, From(c)', clock') <=> Shown(OfRel(r), c, From(c), clock')
    BY DEF Shown
  <1>. QED BY <1>3, <1>4, <1>5 DEF ShowsRel

LEMMA NodeShownSame ==
  ASSUME TypeOK, TypeOK', Twin(rels), NEW n, NEW c \in AnyBranch, OfNode(n)' = OfNode(n),
         c # Main => From(c)' = From(c), clock <= clock'
  PROVE  ShowsNode(c, n)' <=> ShowsNode(c, n)
  <1>1. OfNode(n) \in SUBSET MarkSet /\ \A k \in OfNode(n) : k.from <= clock
    BY OfNodeFacts, MarksStamped
  <1>2. clock \in Nat /\ clock' \in Nat
    BY TimeFacts DEF TypeOK
  <1>3. Shown(OfNode(n), c, From(c), clock') <=> Shown(OfNode(n), c, From(c), clock)
    BY <1>1, <1>2, ShownSame
  <1>4. ShowsNode(c, n)' <=> Shown(OfNode(n), c, From(c)', clock')
    BY DEF ShowsNode
  <1>5. Shown(OfNode(n), c, From(c)', clock') <=> Shown(OfNode(n), c, From(c), clock')
    BY DEF Shown
  <1>. QED BY <1>3, <1>4, <1>5 DEF ShowsNode

(* A step that changes no mark and no view keeps what is shown and all that  *)
(* is sound.                                                                 *)
LEMMA JoinedSame ==
  ASSUME NEW c, JoinedOn(c), \A r \in Rel : ShowsRel(c, r)' <=> ShowsRel(c, r),
         \A n \in Node : ShowsNode(c, n)' <=> ShowsNode(c, n)
  PROVE  JoinedOn(c)'
  <1>1. \A r \in Rel : r.child \in Node /\ r.parent \in Node
    BY DEF Rel, Node
  <1>2. Child \subseteq Node
    BY DEF Node
  <1>. QED BY <1>1, <1>2 DEF JoinedOn

LEMMA SoundSame ==
  ASSUME branch' = branch
  PROVE  /\ \A r \in Rel : RelSound(r) /\ OfRel(r)' = OfRel(r) => RelSound(r)'
         /\ \A n \in Node : NodeSound(n) /\ OfNode(n)' = OfNode(n) => NodeSound(n)'
         /\ \A r \in Rel : ChildFirst(r) /\ OfRel(r)' = OfRel(r) /\ OfNode(r.child)' = OfNode(r.child) => ChildFirst(r)'
  <1>1. \A c : From(c)' = From(c)
    BY DEF From
  <1>2. \A S : (BranchMarks(S)' <=> BranchMarks(S)) /\ \A t : MainBirths(S, t)' <=> MainBirths(S, t)
    BY <1>1 DEF BranchMarks, MainBirths
  <1>3. \A r \in Rel : RelSound(r) /\ OfRel(r)' = OfRel(r) => RelSound(r)'
    BY <1>1, <1>2 DEF RelSound, BranchMarks, MainBirths
  <1>4. \A n \in Node : NodeSound(n) /\ OfNode(n)' = OfNode(n) => NodeSound(n)'
    BY DEF NodeSound
  <1>5. \A r \in Rel : ChildFirst(r) /\ OfRel(r)' = OfRel(r) /\ OfNode(r.child)' = OfNode(r.child) => ChildFirst(r)'
    BY DEF ChildFirst
  <1>. QED BY <1>3, <1>4, <1>5

LEMMA QuietLater ==
  ASSUME TypeOK, TypeOK', Quiet, nodes' = nodes, rels' = rels, branch' = branch, clock <= clock'
  PROVE  Quiet'
  <1>1. (\A r : OfRel(r)' = OfRel(r)) /\ (\A n : OfNode(n)' = OfNode(n)) /\ (\A c : From(c)' = From(c))
        /\ \A c : Exists(c)' = Exists(c)
    BY DEF OfRel, OfNode, From, Exists
  <1>2. Twin(rels) /\ Twin(rels)'
    BY DEF Quiet, Twin
  <1>3. \A b \in AnyBranch : JoinedOn(b) => JoinedOn(b)'
    BY <1>1, <1>2, RelShownSame, NodeShownSame, JoinedSame
  <1>4. \A r \in Rel : r.child \in Node
    BY DEF Rel, Node
  <1>5. (\A r \in Rel : RelSound(r)' /\ ChildFirst(r)') /\ \A n \in Node : NodeSound(n)'
    BY <1>1, <1>4, SoundSame DEF Quiet
  <1>. QED BY <1>1, <1>2, <1>3, <1>5 DEF Quiet

(* The times that a step writes. *)
LEMMA WaitsStep ==
  ASSUME TypeOK, Waits, NEW U,
         \A q \in Request : request'[q] # Idle => request'[q] = request[q] /\ request[q].at \notin U /\ request[q].at # Null,
         \A e \in nodes' \cup rels' : /\ e.from \in U \/ \E d \in nodes \cup rels : e.from = d.from
                                      /\ e.to \in U \/ e.to = Null \/ \E d \in nodes \cup rels : e.to = d.to,
         \A b \in Branch : From(b)' \in U \/ From(b)' = From(b)
  PROVE  Waits'
  <1> SUFFICES ASSUME NEW q \in Request, request'[q] # Idle
               PROVE  /\ NotYet(request[q].at)'
                      /\ \A o \in Request : o # q /\ request'[o] # Idle => request'[o].at # request'[q].at
                      /\ request'[q].view.branched_from < request'[q].at
    BY DEF Waits
  <1>1. request'[q] = request[q] /\ request[q].at \notin U /\ request[q].at # Null /\ request[q] # Idle
    OBVIOUS
  <1>2. /\ NotYet(request[q].at)
        /\ \A o \in Request : o # q /\ request[o] # Idle => request[o].at # request[q].at
        /\ request[q].view.branched_from < request[q].at
    BY <1>1 DEF Waits
  <1> DEFINE t == request[q].at
  <1>3. \A e \in nodes' \cup rels' : e.from # t /\ e.to # t
    BY <1>1, <1>2 DEF NotYet
  <1>4. \A b \in Branch : From(b)' # t
    BY <1>1, <1>2 DEF NotYet
  <1>5. NotYet(request[q].at)'
    BY <1>1, <1>3, <1>4 DEF NotYet
  <1>. QED BY <1>1, <1>2, <1>5

(* The times on the edges after a step are those before it and its own.      *)
LEMMA ClosedStamps ==
  ASSUME NEW E, E \subseteq NodeEdge \/ E \subseteq RelEdge, NEW Z \in SUBSET E, NEW N, NEW at \in Time, NEW U, at \in U,
         \A e \in N : e.from \in U /\ e.to = Null
  PROVE  \A e \in (E \ Z) \cup Close(Z, at) \cup N :
           /\ e.from \in U \/ \E d \in E : e.from = d.from
           /\ e.to \in U \/ e.to = Null \/ \E d \in E : e.to = d.to
  <1> SUFFICES ASSUME NEW e \in (E \ Z) \cup Close(Z, at) \cup N
               PROVE  /\ e.from \in U \/ \E d \in E : e.from = d.from
                      /\ e.to \in U \/ e.to = Null \/ \E d \in E : e.to = d.to
    OBVIOUS
  <1>1. CASE e \in Close(Z, at)
    <2>1. PICK d \in Z : e = [d EXCEPT !.to = at]
      BY <1>1 DEF Close
    <2>2. e.from = d.from /\ e.to = at
      BY <2>1, ClosedNodeEdge, ClosedRelEdge
    <2>. QED BY <2>2
  <1>. QED BY <1>1

(* The time of a request is another than that of the others, and than the   *)
(* times that are still to come.                                            *)
LEMMA RequestTimes ==
  ASSUME TypeOK, Pending, Waits, NEW q \in Request, request[q] # Idle
  PROVE  /\ request[q].at \in Nat /\ request[q].at # Null /\ request[q].at <= clock /\ clock \in Nat
         /\ \A o \in Request : o # q /\ request[o] # Idle => request[o].at # request[q].at /\ request[o].at # Now(q)
  <1>1. \A o \in Request : request[o] # Idle => request[o].at \in Time /\ request[o].at <= clock
    BY RequestFacts DEF Pending, OfBranch
  <1>2. clock \in Nat /\ Time \subseteq Nat /\ Null \notin Time
    BY TimeFacts DEF TypeOK
  <1>3. \A o \in Request : o # q /\ request[o] # Idle => request[o].at # request[q].at
    BY DEF Waits
  <1>4. Now(q) = request[q].at \/ Now(q) = clock + 1
    BY DEF Now
  <1>5. request[q].at \in Nat /\ request[q].at # Null /\ request[q].at <= clock
    BY <1>1, <1>2
  <1>6. \A o \in Request : request[o] # Idle => request[o].at # clock + 1
    BY <1>1, <1>2
  <1>. QED BY <1>2, <1>3, <1>4, <1>5, <1>6

-----------------------------------------------------------------------------
(* Steps that write no edges. *)
LEMMA BeginQuiet ==
  ASSUME TypeOK, TypeOK', Pending, QInv, NEW q \in Request, NEW op, NEW b \in AnyBranch, NEW n, NEW p,
         Begin(q, op, b, n, p)
  PROVE  QInv'
  <1>1. /\ nodes' = nodes /\ rels' = rels /\ branch' = branch /\ incidents' = incidents /\ clock' = clock + 1
        /\ request' = [request EXCEPT ![q] = [op |-> op, view |-> View(b), node |-> n, peer |-> p, at |-> clock + 1]]
    BY DEF Begin
  <1>2. clock \in Nat /\ clock <= clock' /\ clock < clock + 1
    BY <1>1, TimeFacts DEF TypeOK
  <1>3. incidents' = {} => Quiet'
    BY <1>1, <1>2, QuietLater DEF QInv
  <1>4. \A c \in Branch : From(c) \in Nat /\ From(c) <= clock
    BY DEF QInv, Times, TypeOK, From
  <1>5. Times'
    <2>1. \A c \in Branch : From(c)' = From(c)
      BY <1>1 DEF From
    <2>. QED BY <1>1, <1>2, <1>4, <2>1 DEF QInv, Times
  <1>6. Waits'
    <2> SUFFICES ASSUME NEW x \in Request, request'[x] # Idle
                 PROVE  /\ NotYet(request[x].at)'
                        /\ \A o \in Request : o # x /\ request'[o] # Idle => request'[o].at # request'[x].at
                        /\ request'[x].view.branched_from < request'[x].at
      BY DEF Waits
    <2>0. \A t : NotYet(t) => NotYet(t)'
      BY <1>1 DEF NotYet, From
    <2>1. \A o \in Request : o # q => request'[o] = request[o]
      BY <1>1 DEF TypeOK
    <2>2. request'[q].at = clock + 1 /\ request'[q].view = View(b)
      BY <1>1 DEF TypeOK
    <2>3. NotYet(clock + 1)
      <3>1. \A e \in nodes \cup rels : e.from \in Nat /\ e.to \in Nat /\ e.from < clock + 1 /\ e.to < clock + 1
        BY NextStamped, TimeAssumption DEF Stamped, TypeOK, NodeEdge, RelEdge, Time, Null
      <3>. QED BY <3>1, <1>2, <1>4 DEF NotYet
    <2>4. View(b).branched_from < clock + 1
      BY <1>2, <1>4 DEF View, AnyBranch, From
    <2>5. \A o \in Request : request[o] # Idle => request[o].at \in Nat /\ request[o].at <= clock
      BY RequestTimes DEF QInv
    <2>6. CASE x = q
      <3>1. \A o \in Request : o # x /\ request'[o] # Idle => request'[o].at # clock + 1
        BY <2>1, <2>5, <2>6, <1>2
      <3>2. NotYet(request[x].at)'
        BY <2>0, <2>2, <2>3, <2>6 DEF NotYet
      <3>. QED BY <3>1, <3>2, <2>2, <2>4, <2>6
    <2>7. CASE x # q
      <3>1. request'[x] = request[x] /\ request[x] # Idle
        BY <2>1, <2>7
      <3>2. /\ NotYet(request[x].at)
            /\ \A o \in Request : o # x /\ request[o] # Idle => request[o].at # request[x].at
            /\ request[x].view.branched_from < request[x].at
        BY <3>1 DEF QInv, Waits
      <3>3. request[x].at # clock + 1
        BY <3>1, <2>5, <1>2
      <3>4. \A o \in Request : o # x /\ request'[o] # Idle => request'[o].at # request'[x].at
        BY <3>1, <3>2, <3>3, <2>1, <2>2
      <3>5. NotYet(request[x].at)'
        BY <3>1, <3>2, <2>0 DEF NotYet
      <3>. QED BY <3>1, <3>2, <3>4, <3>5
    <2>. QED BY <2>6, <2>7
  <1>. QED BY <1>3, <1>5, <1>6 DEF QInv

(* An abort changes nothing.                                                 *)
LEMMA AbortQuiet ==
  ASSUME TypeOK, TypeOK', Pending, QInv, NEW q \in Request, Abort(q)
  PROVE  QInv'
  <1>1. /\ nodes' = nodes /\ rels' = rels /\ branch' = branch /\ incidents' = incidents /\ clock' = clock
        /\ request' = [request EXCEPT ![q] = Idle]
    BY DEF Abort
  <1>2. clock \in Nat /\ clock <= clock'
    BY <1>1, TimeFacts DEF TypeOK
  <1>3. incidents' = {} => Quiet'
    BY <1>1, <1>2, QuietLater DEF QInv
  <1>4. Times'
    BY <1>1 DEF QInv, Times, From
  <1>5. \A o \in Request : request'[o] # Idle => request'[o] = request[o] /\ request[o].at \notin {clock + 1} /\ request[o].at # Null
    <2>1. \A o \in Request : request'[o] # Idle => request'[o] = request[o]
      BY <1>1 DEF TypeOK
    <2>. QED BY <2>1, <1>2, RequestTimes DEF QInv
  <1>6. \A c \in Branch : From(c)' \in {clock + 1} \/ From(c)' = From(c)
    BY <1>1 DEF From
  <1>7. \A e \in nodes' \cup rels' : /\ e.from \in {clock + 1} \/ \E d \in nodes \cup rels : e.from = d.from
                                     /\ e.to \in {clock + 1} \/ e.to = Null \/ \E d \in nodes \cup rels : e.to = d.to
    BY <1>1
  <1>8. Waits'
    BY <1>5, <1>6, <1>7, WaitsStep DEF QInv
  <1>. QED BY <1>3, <1>4, <1>8 DEF QInv

(* A new branch shows what main shows. *)
LEMMA CreateBranchQuiet ==
  ASSUME TypeOK, TypeOK', Pending, SinceCreation, QInv, NEW b \in Branch, CreateBranch(b)
  PROVE  QInv'
  <1>1. /\ nodes' = nodes /\ rels' = rels /\ incidents' = incidents /\ clock' = clock + 1 /\ request' = request
        /\ ~ branch[b].open
        /\ branch' = [branch EXCEPT ![b] = [open |-> TRUE, created_at |-> clock + 1, branched_from |-> clock + 1]]
    BY DEF CreateBranch
  <1>2. clock \in Nat /\ clock <= clock' /\ clock < clock + 1
    BY <1>1, TimeFacts DEF TypeOK
  <1>3. /\ From(b)' = clock + 1 /\ \A c \in Branch : c # b => From(c)' = From(c) /\ branch'[c] = branch[c]
    BY <1>1 DEF TypeOK, From
  <1>4. \A c \in Branch : From(c) \in Nat /\ From(c) <= clock
    BY DEF QInv, Times, TypeOK, From
  <1>5. Times'
    <2> SUFFICES ASSUME NEW c \in Branch PROVE From(c)' <= clock' /\ (branch'[c].open => branch'[c].created_at <= From(c)')
      BY DEF Times
    <2>1. CASE c = b
      BY <2>1, <1>1, <1>2, <1>3 DEF TypeOK
    <2>2. CASE c # b
      BY <2>2, <1>1, <1>2, <1>3, <1>4 DEF QInv, Times
    <2>. QED BY <2>1, <2>2
  <1>6. Waits'
    <2>1. \A o \in Request : request'[o] # Idle => request'[o] = request[o] /\ request[o].at \notin {clock + 1} /\ request[o].at # Null
      BY <1>1, <1>2, RequestTimes DEF QInv
    <2>2. \A e \in nodes' \cup rels' : /\ e.from \in {clock + 1} \/ \E d \in nodes \cup rels : e.from = d.from
                                       /\ e.to \in {clock + 1} \/ e.to = Null \/ \E d \in nodes \cup rels : e.to = d.to
      BY <1>1
    <2>3. \A c \in Branch : From(c)' \in {clock + 1} \/ From(c)' = From(c)
      BY <1>3
    <2>. QED BY <2>1, <2>2, <2>3, WaitsStep DEF QInv
  <1>7. ASSUME Quiet PROVE Quiet'
    <2>1. (\A r : OfRel(r)' = OfRel(r)) /\ (\A n : OfNode(n)' = OfNode(n)) /\ Twin(rels) /\ Twin(rels)'
      BY <1>1, <1>7 DEF OfRel, OfNode, Quiet, Twin
    <2>2. \A r \in Rel : \A k \in OfRel(r) : k.br # b
      BY <1>1, <1>7, BranchAssumption DEF Quiet, RelSound, BranchMarks
    <2>3. \A n \in Node : \A k \in OfNode(n) : k.br # b
      <3>1. \A e \in nodes : e.br # b /\ MarkOf(e).br = e.br
        BY <1>1, BranchAssumption, MarkOfFacts, TypeParts DEF SinceCreation
      <3>. QED BY <3>1, OfNodeFacts
    <2>4. ASSUME NEW r \in Rel PROVE RelSound(r)'
      <3> DEFINE S == OfRel(r)
      <3>1. InOrder(S) /\ Tracked(S) /\ (\A k \in S : r.born <= k.from) /\ BranchMarks(S) /\ MainBirths(S, r.born)
            /\ \A c \in Branch : Agreed(S, c, From(c))
        BY <1>7 DEF Quiet, RelSound
      <3>2. S \in SUBSET MarkSet /\ \A k \in S : k.from \in Nat /\ k.br \in AnyBranch
        BY <2>1, OfRelFacts, MarkFacts
      <3> HIDE DEF S
      <3>3. \A k \in S : k.br # Main => branch'[k.br] = branch[k.br]
        BY <3>2, <2>2, <1>3 DEF AnyBranch, S
      <3>4. BranchMarks(S)'
        BY <3>1, <3>3, <2>1 DEF BranchMarks, S
      <3>5. \A k \in S : k.br = Main /\ k.status = "active" => k.from = r.born \/ \E c \in Branch : From(c)' > k.from
        <4> SUFFICES ASSUME NEW k \in S, k.br = Main, k.status = "active", k.from # r.born
                     PROVE  \E c \in Branch : From(c)' > k.from
          OBVIOUS
        <4>1. PICK c \in Branch : From(c) > k.from
          BY <3>1 DEF MainBirths
        <4>2. From(c)' >= From(c)
          BY <1>2, <1>3, <1>4
        <4>3. From(c)' \in Nat /\ From(c) \in Nat
          BY <1>2, <1>3, <1>4
        <4>. QED BY <4>1, <4>2, <4>3, <3>2
      <3>6. MainBirths(S, r.born)'
        BY <3>5, <2>1 DEF MainBirths, S
      <3>7. \A c \in Branch : Agreed(S, c, From(c)')
        <4> TAKE c \in Branch
        <4>1. CASE c = b
          BY <4>1, <2>2 DEF Agreed, S
        <4>2. CASE c # b
          BY <4>2, <3>1, <1>3
        <4>. QED BY <4>1, <4>2
      <3>. QED BY <3>1, <3>4, <3>6, <3>7, <2>1 DEF RelSound, S
    <2>5. (\A r \in Rel : ChildFirst(r)') /\ \A n \in Node : NodeSound(n)'
      BY <1>7, <2>1 DEF Quiet, ChildFirst, NodeSound
    <2>6. ASSUME NEW c \in AnyBranch, Exists(c)' PROVE JoinedOn(c)'
      <3>1. CASE c # b
        <4>1. c # Main => From(c)' = From(c)
          BY <3>1, <1>3 DEF AnyBranch
        <4>2. Exists(c)
          BY <2>6, <3>1, <1>3 DEF Exists, AnyBranch
        <4>3. JoinedOn(c)
          BY <4>2, <1>7 DEF Quiet
        <4>. QED BY <4>1, <4>3, <2>1, <1>2, RelShownSame, NodeShownSame, JoinedSame
      <3>2. CASE c = b
        <4>0. b # Main /\ Main \in AnyBranch /\ Exists(Main)
          BY BranchAssumption DEF AnyBranch, Exists
        <4>1. ASSUME NEW r \in Rel PROVE ShowsRel(b, r)' <=> ShowsRel(Main, r)
          <5>1. Opened(OfRel(r), b) = {}
            BY <2>2 DEF Opened
          <5>2. MainOn(OfRel(r), clock + 1) <=> MainOn(OfRel(r), clock)
            <6>1. OfRel(r) \in SUBSET MarkSet /\ \A k \in OfRel(r) : k.from <= clock
              BY <2>1, OfRelFacts, MarksStamped
            <6>. QED BY <6>1, <1>2, MainLater
          <5>3. ShowsRel(b, r)' <=> Shown(OfRel(r), b, clock + 1, clock')
            BY <2>1, <1>3 DEF ShowsRel
          <5>. QED BY <5>1, <5>2, <5>3, <4>0 DEF ShowsRel, Shown
        <4>2. ASSUME NEW n \in Node PROVE ShowsNode(b, n)' <=> ShowsNode(Main, n)
          <5>1. Opened(OfNode(n), b) = {}
            BY <2>3 DEF Opened
          <5>2. MainOn(OfNode(n), clock + 1) <=> MainOn(OfNode(n), clock)
            <6>1. OfNode(n) \in SUBSET MarkSet /\ \A k \in OfNode(n) : k.from <= clock
              BY <2>1, OfNodeFacts, MarksStamped
            <6>. QED BY <6>1, <1>2, MainLater
          <5>3. ShowsNode(b, n)' <=> Shown(OfNode(n), b, clock + 1, clock')
            BY <2>1, <1>3 DEF ShowsNode
          <5>. QED BY <5>1, <5>2, <5>3, <4>0 DEF ShowsNode, Shown
        <4>3. JoinedOn(Main)
          BY <4>0, <1>7 DEF Quiet
        <4>4. \A r \in Rel : r.child \in Node /\ r.parent \in Node
          BY DEF Rel, Node
        <4>5. Child \subseteq Node
          BY DEF Node
        <4>. QED BY <3>2, <4>1, <4>2, <4>3, <4>4, <4>5 DEF JoinedOn
      <3>. QED BY <3>1, <3>2
    <2>. QED BY <2>1, <2>4, <2>5, <2>6 DEF Quiet
  <1>. QED BY <1>1, <1>5, <1>6, <1>7 DEF QInv

(* What RelSound asks of the marks of a relationship born at t. *)
SoundMarks(S, t) ==
  /\ InOrder(S) /\ Tracked(S)
  /\ \A k \in S : t <= k.from
  /\ BranchMarks(S) /\ MainBirths(S, t)
  /\ \A b \in Branch : Agreed(S, b, From(b))

LEMMA SoundIs == ASSUME NEW r PROVE RelSound(r) <=> SoundMarks(OfRel(r), r.born)
  BY DEF RelSound, SoundMarks

(* Marks that stay sound through a step, when the branches move on.          *)
LEMMA SoundNext ==
  ASSUME branch' = branch, NEW r \in Rel, NEW T, OfRel(r)' = T, SoundMarks(T, r.born)
  PROVE  RelSound(r)'
  <1>1. \A c : From(c)' = From(c)
    BY DEF From
  <1>. QED BY <1>1 DEF SoundMarks, RelSound, BranchMarks, MainBirths

(* A step on one branch is not seen by the others. *)
LEMMA OtherShown ==
  ASSUME NEW S \in SUBSET MarkSet, NEW X \in SUBSET S, NEW s \in Time, NEW N \in SUBSET MarkSet, NEW T,
         Closed(S, X, s, N, T), NEW b \in AnyBranch, \A k \in X \cup N : k.br = b,
         NEW c \in AnyBranch, c # b, NEW f, f \in Nat \/ b # Main, NEW t \in Nat, NEW u \in Nat, t <= u,
         \A k \in S : k.from <= t,
         b = Main => \A k \in N : k.from > f
  PROVE  Shown(T, c, f, u) <=> Shown(S, c, f, t)
  <1>1. CASE c = Main
    <2>1. \A k \in N : k.br # Main
      BY <1>1
    <2>2. MainOn(T, u) <=> MainOn(S, u)
      BY <2>1, MainOnShut
    <2>3. MainOn(S, u) <=> MainOn(S, t)
      BY MainLater
    <2>. QED BY <1>1, <2>2, <2>3 DEF Shown
  <1>2. CASE c # Main
    <2>1. Opened(T, c) = Opened(S, c)
      BY DEF Opened, Closed, Closes
    <2>2. MainOn(T, f) <=> MainOn(S, f)
      <3>1. CASE b = Main
        BY <3>1, MainOnShut
      <3>2. CASE b # Main
        <4>1. \A k \in T : k.br = Main => k \in S
          BY <3>2 DEF Closed, Closes
        <4>2. \A k \in S : k.br = Main => k \in T
          BY <3>2 DEF Closed
        <4>. QED BY <4>1, <4>2 DEF MainOn
      <3>. QED BY <3>1, <3>2
    <2>. QED BY <1>2, <2>1, <2>2 DEF Shown
  <1>. QED BY <1>1, <1>2

(* An item that is new on branch b. *)
LEMMA NewItem ==
  ASSUME NEW b \in AnyBranch, NEW s \in Time
  PROVE  LET T == {mark(b, "active", s)} IN
         /\ T \in SUBSET MarkSet /\ InOrder(T) /\ Tracked(T)
         /\ \A c \in AnyBranch : \A f, u : c # b => (~ Shown(T, c, f, u) \/ (b = Main /\ s <= f))
         /\ \A f, u : b # Main \/ s <= u => Shown(T, b, f, u)
         /\ \A c \in Branch, f \in Nat : ~ (b = Main /\ s <= f) => Agreed(T, c, f)
         /\ \A k \in T : k.br = b /\ k.status = "active" /\ k.from = s /\ k.to = Null
  <1> DEFINE k == mark(b, "active", s)
             T == {k}
  <1>1. k \in MarkSet /\ k.br = b /\ k.status = "active" /\ k.from = s /\ k.to = Null
    BY NewMark DEF Status
  <1> HIDE DEF k
  <1>2. InOrder(T)
    BY <1>1 DEF InOrder, OneOpened, Sole, MainClosed, Order, MainFollows
  <1>3. Tracked(T)
    <2>1. s \in Nat
      BY TimeFacts
    <2>. QED BY <1>1, <2>1 DEF Tracked, OneFrom, LastOpen, OneBirth
  <1>4. \A c \in AnyBranch : c # b => Opened(T, c) = {}
    BY <1>1 DEF Opened
  <1>5. \A f : MainOn(T, f) <=> b = Main /\ s <= f
    BY <1>1 DEF MainOn
  <1>6. \A c \in AnyBranch : \A f, u : c # b => (~ Shown(T, c, f, u) \/ (b = Main /\ s <= f))
    BY <1>4, <1>5 DEF Shown
  <1>7. k \in Opened(T, b)
    BY <1>1 DEF Opened
  <1>8. \A f, u : b # Main \/ s <= u => Shown(T, b, f, u)
    BY <1>1, <1>5, <1>7 DEF Shown
  <1>9. \A c \in Branch, f \in Nat : ~ (b = Main /\ s <= f) => Agreed(T, c, f)
    BY <1>1 DEF Agreed
  <1>10. \A j \in T : j.br = b /\ j.status = "active" /\ j.from = s /\ j.to = Null
    BY <1>1
  <1>11. T \in SUBSET MarkSet
    BY <1>1
  <1>12. T = {mark(b, "active", s)}
    BY DEF k
  <1> HIDE DEF T
  <1>. QED BY <1>2, <1>3, <1>6, <1>8, <1>9, <1>10, <1>11, <1>12

(* A relationship that branch b shows is deleted there. *)
LEMMA DropRel ==
  ASSUME TypeOK, Times, Twin(rels), NEW r \in Rel, RelSound(r), NEW b \in AnyBranch, Exists(b), ShowsRel(b, r),
         NEW s \in Time, r.born <= s, b # Main => branch[b].created_at <= s,
         NEW X \in SUBSET OfRel(r), \A k \in X : k.br = b /\ k.status = "active",
         b # Main => Opened(OfRel(r), b) \subseteq X /\ \A k \in OfRel(r) : k.br = b => k.from < s,
         b = Main => /\ \A k \in OfRel(r) : k.br = Main /\ k.status = "active" => k.from < s
                     /\ \A k \in OfRel(r) : k.from # s
                     /\ \A c \in Branch : From(c) < s,
         NEW T, Closed(OfRel(r), X, s, {mark(b, "deleted", s)}, T), NEW u \in Nat, clock <= u, s <= u
  PROVE  /\ SoundMarks(T, r.born)
         /\ ~ Shown(T, b, From(b), u)
         /\ \A c \in AnyBranch : c # b => (Shown(T, c, From(c), u) <=> ShowsRel(c, r))
  <1> DEFINE S == OfRel(r)
             d == mark(b, "deleted", s)
  <1>1. S \in SUBSET MarkSet /\ SoundMarks(S, r.born) /\ \A k \in S : k.from <= clock /\ k.from \in Nat
    BY OfRelFacts, MarksStamped, SoundIs, MarkFacts
  <1>2. d \in MarkSet /\ d.br = b /\ d.status = "deleted" /\ d.from = s /\ d.to = Null
    BY NewMark DEF Status
  <1>3. clock \in Nat /\ s \in Nat
    BY TimeFacts DEF TypeOK
  <1>4. Shown(S, b, From(b), clock)
    BY DEF ShowsRel
  <1>5. \A c \in Branch : From(c) \in Nat
    BY DEF TypeOK, From
  <1> HIDE DEF S, d
  <1>6. Closed(S, X, s, {d}, T)
    BY DEF S, d
  <1>7. \A c \in AnyBranch : c # b => (Shown(T, c, From(c), u) <=> ShowsRel(c, r))
    <2> SUFFICES ASSUME NEW c \in AnyBranch, c # b PROVE Shown(T, c, From(c), u) <=> Shown(S, c, From(c), clock)
      BY DEF ShowsRel, S
    <2>1. CASE c \in Branch \/ b # Main
      <3>1. From(c) \in Nat \/ b # Main
        BY <2>1, <1>5
      <3>2. b = Main => \A k \in {d} : k.from > From(c)
        BY <2>1, <1>2, <1>3, <1>5 DEF S
      <3>3. {d} \in SUBSET MarkSet /\ \A k \in X \cup {d} : k.br = b
        BY <1>2
      <3>. QED BY <3>1, <3>2, <3>3, <1>1, <1>3, <1>6, OtherShown DEF S
    <2>. QED BY <2>1 DEF AnyBranch
  <1>8. ~ Shown(T, b, From(b), u) /\ InOrder(T) /\ Tracked(T) /\ \A c \in Branch : Agreed(T, c, From(c))
    <2>1. CASE b # Main
      <3>0. b \in Branch
        BY <2>1 DEF AnyBranch
      <3>1. /\ InOrder(T)
            /\ Tracked(S) /\ (\A k \in S : k.br = b => k.from < s) => Tracked(T) /\ \A g : Agreed(T, b, g)
            /\ Opened(T, b) = {mark(b, "deleted", s)}
            /\ \A c \in Branch : c # b => Opened(T, c) = Opened(S, c)
            /\ \A c \in Branch : \A g : c # b /\ Agreed(S, c, g) /\ (MainOn(T, g) <=> MainOn(S, g)) => Agreed(T, c, g)
        <4>1. InOrder(S) /\ (\A k \in S : k.br = b /\ k.status = "active" => k.from < s) /\ Opened(S, b) \subseteq X
          BY <2>1, <1>1 DEF S, SoundMarks
        <4>2. Closed(S, X, s, {mark(b, "deleted", s)}, T)
          BY DEF S
        <4>. QED BY <4>1, <4>2, <3>0, <1>1, <1>4, DropOnBranch DEF S
      <3>2. Tracked(T) /\ \A g : Agreed(T, b, g)
        BY <3>1, <2>1, <1>1 DEF S, SoundMarks
      <3>3. \A c \in Branch : MainOn(T, From(c)) <=> MainOn(S, From(c))
        <4>1. \A k \in T : k.br = Main => k \in S
          BY <2>1, <1>2, <1>6 DEF Closed, Closes
        <4>2. \A k \in S : k.br = Main => k \in T
          BY <2>1, <1>6 DEF Closed
        <4>. QED BY <4>1, <4>2 DEF MainOn
      <3>4. \A c \in Branch : Agreed(T, c, From(c))
        BY <3>1, <3>2, <3>3, <1>1 DEF SoundMarks
      <3>5. Opened(T, b) = {d}
        BY <3>1 DEF d
      <3>6. ~ Shown(T, b, From(b), u)
        BY <3>5, <2>1, <1>2 DEF Shown
      <3>. QED BY <3>1, <3>2, <3>4, <3>6
    <2>2. CASE b = Main
      <3>1. /\ InOrder(T)
            /\ Tracked(S) => Tracked(T)
            /\ \A c \in Branch : Opened(T, c) = Opened(S, c)
            /\ \A c \in Branch : \A g : Agreed(S, c, g) /\ (MainOn(T, g) <=> MainOn(S, g)) => Agreed(T, c, g)
            /\ \A g \in Nat : s <= g => ~ MainOn(T, g)
        <4>1. /\ InOrder(S) /\ (\A k \in S : k.br = Main /\ k.status = "active" => k.from < s)
              /\ (\A k \in S : k.from # s) /\ (\A k \in X : k.br = Main /\ k.status = "active")
              /\ MainOn(S, clock) /\ \A k \in S : k.from <= clock
          BY <2>2, <1>1, <1>4 DEF S, SoundMarks, Shown
        <4>2. Closed(S, X, s, {mark(Main, "deleted", s)}, T)
          BY <2>2 DEF S
        <4>3. X \in SUBSET S
          BY DEF S
        <4>. QED BY <4>1, <4>2, <4>3, <1>1, <1>3, DropOnMain
      <3>2. \A c \in Branch : MainOn(T, From(c)) <=> MainOn(S, From(c))
        <4> TAKE c \in Branch
        <4>1. From(c) \in Nat /\ From(c) < s
          BY <2>2, <1>5
        <4>2. \A k \in {d} : k.br = Main => k.from > From(c)
          BY <4>1, <1>2, <1>3
        <4>3. {d} \in SUBSET MarkSet /\ X \in SUBSET S
          BY <1>2 DEF S
        <4>. QED BY <4>1, <4>2, <4>3, <1>1, <1>6, MainOnShut
      <3>3. \A c \in Branch : Agreed(T, c, From(c))
        BY <3>1, <3>2, <1>1 DEF SoundMarks
      <3>4. ~ Shown(T, b, From(b), u)
        BY <3>1, <2>2 DEF Shown
      <3>5. Tracked(T)
        BY <3>1, <1>1 DEF SoundMarks
      <3>. QED BY <3>1, <3>3, <3>4, <3>5
    <2>. QED BY <2>1, <2>2
  <1>9. \A l \in T : l = d \/ \E k \in S : l.br = k.br /\ l.status = k.status /\ l.from = k.from
    BY <1>6 DEF Closed, Closes, S
  <1>10. (\A k \in T : r.born <= k.from) /\ BranchMarks(T) /\ MainBirths(T, r.born)
    <2>1. \A k \in T : r.born <= k.from
      BY <1>1, <1>2, <1>9 DEF SoundMarks
    <2>2. BranchMarks(T)
      <3>1. b # Main => branch[b].open /\ branch[b].created_at <= s
        BY DEF Exists
      <3>. QED BY <3>1, <1>1, <1>2, <1>9 DEF SoundMarks, BranchMarks
    <2>3. MainBirths(T, r.born)
      BY <1>1, <1>2, <1>9 DEF SoundMarks, MainBirths
    <2>. QED BY <2>1, <2>2, <2>3
  <1>. QED BY <1>7, <1>8, <1>10 DEF SoundMarks

(* Marks of more edges; the empty graph, where nothing is shown.             *)
LEMMA MarksAdd ==
  /\ \A E, N, r, x : RelMarks(E \cup N, r, x) = RelMarks(E, r, x) \cup RelMarks(N, r, x)
  /\ \A E, N, n : NodeMarks(E \cup N, n) = NodeMarks(E, n) \cup NodeMarks(N, n)
  BY DEF RelMarks, NodeMarks

LEMMA NothingShown == \A b, f, t : ~ Shown({}, b, f, t)
  <1>1. (\A b : Opened({}, b) = {}) /\ \A t : ~ MainOn({}, t)
    BY DEF Opened, MainOn
  <1>. QED BY <1>1 DEF Shown

LEMMA InitQuiet == Init => QInv
  <1> SUFFICES ASSUME Init PROVE QInv
    OBVIOUS
  <1>0. 1 \in Time /\ Main \in AnyBranch /\ "active" \in Status
    BY TimeAssumption DEF Time, AnyBranch, Status
  <1>1. rels = {} /\ clock = 1 /\ incidents = {} /\ nodes = {node_edge(p, Main, "active", 1) : p \in Parent}
    BY DEF Init
  <1>2. \A r : OfRel(r) = {}
    BY <1>1 DEF OfRel, RelMarks
  <1>3. \A b \in Branch : branch[b].open = FALSE /\ From(b) = 0
    BY DEF Init, NoBranch, From
  <1>4. \A n \in Parent : OfNode(n) = {mark(Main, "active", 1)}
    <2> TAKE n \in Parent
    <2>1. \A e \in nodes : \E p \in Parent : e = node_edge(p, Main, "active", 1) /\ e.node = p /\ MarkOf(e) = mark(Main, "active", 1)
      BY <1>1, NewNodeMark
    <2>2. node_edge(n, Main, "active", 1) \in nodes /\ node_edge(n, Main, "active", 1).node = n
          /\ MarkOf(node_edge(n, Main, "active", 1)) = mark(Main, "active", 1)
      BY <1>1, NewNodeMark
    <2>3. {f \in nodes : f.node = n} = {node_edge(n, Main, "active", 1)}
      BY <2>1, <2>2
    <2>. QED BY <2>2, <2>3 DEF OfNode, NodeMarks
  <1>5. \A n \in Child : OfNode(n) = {}
    <2> TAKE n \in Child
    <2>1. \A e \in nodes : e.node \in Parent
      BY <1>1, NewNodeMark
    <2>. QED BY <2>1, KindAssumption DEF OfNode, NodeMarks
  <1>6. Twin(rels)
    BY <1>1 DEF Twin, RelMarks
  <1>7. \A r \in Rel : RelSound(r) /\ ChildFirst(r)
    BY <1>2 DEF RelSound, ChildFirst, InOrder, OneOpened, Sole, MainClosed, Order, MainFollows, Tracked, OneFrom, LastOpen,
       OneBirth, Agreed, MainBirths, BranchMarks
  <1>8. ASSUME NEW n \in Node PROVE NodeSound(n)
    <2>1. CASE n \in Parent
      <3>1. /\ InOrder({mark(Main, "active", 1)})
            /\ \A k \in {mark(Main, "active", 1)} : k.br = Main
        <4>1. LET T == {mark(Main, "active", 1)} IN
              /\ T \in SUBSET MarkSet /\ InOrder(T) /\ Tracked(T)
              /\ \A c \in AnyBranch : \A f, u : c # Main => (~ Shown(T, c, f, u) \/ (Main = Main /\ 1 <= f))
              /\ \A f, u : Main # Main \/ 1 <= u => Shown(T, Main, f, u)
              /\ \A c \in Branch, f \in Nat : ~ (Main = Main /\ 1 <= f) => Agreed(T, c, f)
              /\ \A k \in T : k.br = Main /\ k.status = "active" /\ k.from = 1 /\ k.to = Null
          BY <1>0, NewItem
        <4>. QED BY <4>1
      <3>. QED BY <3>1, <2>1, <1>4 DEF NodeSound
    <2>2. CASE n \in Child
      BY <2>2, <1>5 DEF NodeSound, InOrder, OneOpened, Sole, MainClosed, Order, MainFollows
    <2>. QED BY <2>1, <2>2 DEF Node
  <1>9. ASSUME NEW b \in AnyBranch PROVE JoinedOn(b)
    BY <1>2, <1>5, NothingShown DEF JoinedOn, ShowsRel, ShowsNode
  <1>10. Times
    BY <1>1, <1>3 DEF Times
  <1>11. Waits
    BY DEF Waits, Init
  <1>. QED BY <1>6, <1>7, <1>8, <1>9, <1>10, <1>11 DEF QInv, Quiet

-----------------------------------------------------------------------------
(* The relationship that a request creates. *)
NewRel(m, at) == [child |-> m.node, parent |-> m.peer, born |-> at]
NewOnly(m, at) == {mark(m.view.name, "active", at)}

(* The relationship that a request creates is new: it was born now.          *)
LEMMA NewRelFacts ==
  ASSUME TypeOK, Pending, Quiet, Times, Waits, NEW q \in Request, request[q] # Idle, request[q].op # "delete",
         Exists(request[q].view.name), Now(q) \in Time
  PROVE  LET m == request[q]
             b == m.view.name
             r == NewRel(m, Now(q))
         IN /\ m.node \in Child /\ r \in Rel /\ r.child = m.node /\ r.parent = m.peer
            /\ OfRel(r) = {}
            /\ Connects(m, Now(q)) = rel_edges(r, b, "active", Now(q))
            /\ SoundMarks(NewOnly(m, Now(q)), r.born)
            /\ InOrder(NewOnly(m, Now(q)))
            /\ Shown(NewOnly(m, Now(q)), b, From(b), Now(q))
            /\ \A c \in AnyBranch : c # b => ~ Shown(NewOnly(m, Now(q)), c, From(c), Now(q))
            /\ \A k \in NewOnly(m, Now(q)) : k.br = b /\ k.status = "active" /\ k.from = Now(q) /\ k.to = Null
            /\ NewOnly(m, Now(q)) # {}
  <1> DEFINE m == request[q]
             b == m.view.name
             s == Now(q)
             r == NewRel(m, s)
             T == NewOnly(m, s)
  <1>1. s \in Nat /\ s \in Time /\ Stamped(s) /\ (\A c \in Branch : From(c) < s /\ From(c) \in Nat) /\ b \in AnyBranch /\ m.at <= s
        /\ m.at \in Nat
    BY NowFacts
  <1>2. m.node \in Child /\ m.peer \in Parent
    BY RequestFacts DEF Pending
  <1>3. r \in Rel /\ r.child = m.node /\ r.parent = m.peer /\ r.born = s
    BY <1>1, <1>2 DEF Rel, NewRel
  <1>4. OfRel(r) = {}
    <2> SUFFICES ASSUME NEW k \in OfRel(r) PROVE FALSE
      OBVIOUS
    <2>1. Twin(rels) /\ RelSound(r)
      BY <1>3 DEF Quiet
    <2>2. k \in MarkSet /\ k.from < s
      BY <1>1, <1>3, <2>1, MarksStamped, OfRelFacts
    <2>3. s <= k.from
      BY <1>3, <2>1 DEF RelSound
    <2>4. k.from \in Nat
      BY <2>2, MarkFacts
    <2>. QED BY <2>2, <2>3, <2>4, <1>1
  <1>5. Connects(m, s) = rel_edges(r, b, "active", s)
    BY DEF Connects, NewRel
  <1>6. /\ T \in SUBSET MarkSet /\ InOrder(T) /\ Tracked(T)
        /\ \A c \in AnyBranch : \A f, u : c # b => (~ Shown(T, c, f, u) \/ (b = Main /\ s <= f))
        /\ \A f, u : b # Main \/ s <= u => Shown(T, b, f, u)
        /\ \A c \in Branch, f \in Nat : ~ (b = Main /\ s <= f) => Agreed(T, c, f)
        /\ \A k \in T : k.br = b /\ k.status = "active" /\ k.from = s /\ k.to = Null
    BY <1>1, NewItem DEF NewOnly
  <1>7. T # {}
    BY DEF NewOnly
  <1>8. b # Main => branch[b].open /\ branch[b].created_at <= m.at /\ branch[b].created_at \in Nat
    <2>1. OfBranch(m) /\ (b # Main => b \in Branch)
      BY <1>1 DEF Pending, AnyBranch
    <2>. QED BY <2>1 DEF OfBranch, TypeOK
  <1> HIDE DEF m, b, s, r, T
  <1>9. SoundMarks(T, r.born)
    <2>1. \A k \in T : r.born <= k.from
      BY <1>1, <1>3, <1>6
    <2>2. BranchMarks(T)
      BY <1>1, <1>6, <1>8 DEF BranchMarks
    <2>3. MainBirths(T, r.born)
      BY <1>3, <1>6 DEF MainBirths
    <2>4. \A c \in Branch : Agreed(T, c, From(c))
      BY <1>1, <1>6
    <2>. QED BY <2>1, <2>2, <2>3, <2>4, <1>6 DEF SoundMarks
  <1>10. Shown(T, b, From(b), s)
    BY <1>1, <1>6
  <1>11. \A c \in AnyBranch : c # b => ~ Shown(T, c, From(c), s)
    BY <1>1, <1>6 DEF AnyBranch
  <1>. QED BY <1>2, <1>3, <1>4, <1>5, <1>6, <1>7, <1>9, <1>10, <1>11 DEF m, b, s, r, T

(* When a transaction runs is after every stamp, and after the other         *)
(* requests drew their times.                                                *)
LEMMA CommitTimes ==
  ASSUME TypeOK, Pending, QInv, NEW q \in Request, NEW op, Commits(q, op), branch' = branch,
         \A e \in nodes' \cup rels' :
            /\ e.from \in {request[q].at, Now(q)} \/ \E d \in nodes \cup rels : e.from = d.from
            /\ e.to \in {request[q].at, Now(q)} \/ e.to = Null \/ \E d \in nodes \cup rels : e.to = d.to
  PROVE  Times' /\ Waits'
  <1>1. clock' = Now(q) /\ request[q] # Idle /\ request' = [request EXCEPT ![q] = Idle] /\ clock <= Now(q)
    BY CommitFacts
  <1>2. clock \in Nat /\ Now(q) \in Nat
    BY <1>1, TimeFacts, CommitFacts DEF TypeOK
  <1>3. \A c \in Branch : From(c)' = From(c) /\ From(c) \in Nat
    BY DEF From, TypeOK
  <1>4. Times'
    BY <1>1, <1>2, <1>3 DEF QInv, Times
  <1> DEFINE U == {request[q].at, Now(q)}
  <1>5. \A o \in Request : request'[o] # Idle => request'[o] = request[o] /\ request[o].at \notin U /\ request[o].at # Null
    <2> SUFFICES ASSUME NEW o \in Request, request'[o] # Idle
                 PROVE  request'[o] = request[o] /\ request[o].at \notin U /\ request[o].at # Null
      OBVIOUS
    <2>1. o # q /\ request'[o] = request[o]
      BY <1>1 DEF TypeOK
    <2>2. request[o].at # request[q].at /\ request[o].at # Now(q) /\ request[o].at # Null
      BY <2>1, <1>1, RequestTimes DEF QInv
    <2>. QED BY <2>1, <2>2
  <1>6. \A c \in Branch : From(c)' \in U \/ From(c)' = From(c)
    BY <1>3
  <1> HIDE DEF U
  <1>7. Waits'
    BY <1>5, <1>6, WaitsStep DEF QInv, U
  <1>. QED BY <1>4, <1>7

LEMMA RequestBranch ==
  ASSUME TypeOK, Pending, NEW q \in Request, request[q] # Idle
  PROVE  /\ Exists(request[q].view.name) /\ request[q].view.name \in AnyBranch
         /\ request[q].view.name # Main => /\ request[q].view.name \in Branch
                                           /\ branch[request[q].view.name].created_at <= request[q].at
  BY RequestFacts DEF Pending, OfBranch, Exists, AnyBranch

(* A create adds a child that no branch has and its relationship to a parent *)
(* that is still there.                                                      *)
LEMMA CreateQuiet ==
  ASSUME TypeOK, TypeOK', Pending, QInv, NEW q \in Request, CommitCreate(q)
  PROVE  QInv'
  <1> DEFINE m == request[q]
             b == m.view.name
             s == Now(q)
             r0 == NewRel(m, s)
             T == NewOnly(m, s)
             e0 == node_edge(m.node, b, "active", s)
  <1>1. Commits(q, "create")
    BY DEF CommitCreate
  <1>2. /\ nodes' = nodes \cup {e0} /\ rels' = rels \cup Connects(m, s)
        /\ incidents' = incidents \cup Stale(m, s) /\ branch' = branch
    BY DEF CommitCreate
  <1>3. s \in Time /\ clock <= s /\ clock' = s /\ m # Idle /\ m.op = "create"
    BY <1>1, CommitFacts
  <1>4. Exists(b) /\ b \in AnyBranch
    BY <1>3, RequestBranch
  <1>5. m.node \in Child /\ m.node \in Node /\ NeverUsed(m.node)
    BY <1>3 DEF Pending, Fresh, Node
  <1>6. e0 \in NodeEdge /\ e0.node = m.node /\ e0.from = s /\ e0.to = Null /\ MarkOf(e0) = mark(b, "active", s)
    BY <1>3, <1>4, <1>5, NewNodeEdge, NewNodeMark DEF Status
  <1>7. \A e \in Connects(m, s) : e.from = s /\ e.to = Null
    BY <1>3, <1>5, ConnectsType, RequestFacts
  <1>8. Times' /\ Waits'
    <2>1. \A e \in nodes' \cup rels' :
            /\ e.from \in {m.at, s} \/ \E d \in nodes \cup rels : e.from = d.from
            /\ e.to \in {m.at, s} \/ e.to = Null \/ \E d \in nodes \cup rels : e.to = d.to
      <3> HIDE DEF e0, s, m
      <3>. QED BY <1>2, <1>6, <1>7
    <2>. QED BY <2>1, <1>1, <1>2, CommitTimes
  <1>9. ASSUME Quiet, Stale(m, s) = {} PROVE Quiet'
    <2>1. Times /\ Waits
      BY DEF QInv
    <2>2. /\ m.node \in Child /\ r0 \in Rel /\ r0.child = m.node /\ r0.parent = m.peer
          /\ OfRel(r0) = {}
          /\ Connects(m, s) = rel_edges(r0, b, "active", s)
          /\ SoundMarks(T, r0.born)
          /\ InOrder(T)
          /\ Shown(T, b, From(b), s)
          /\ \A c \in AnyBranch : c # b => ~ Shown(T, c, From(c), s)
          /\ \A k \in T : k.br = b /\ k.status = "active" /\ k.from = s /\ k.to = Null
          /\ T # {}
      <3>1. m.op # "delete"
        BY <1>3
      <3>. QED BY <3>1, <2>1, <1>9, <1>3, <1>4, NewRelFacts
    <2>3. T = {mark(b, "active", s)}
      BY DEF NewOnly
    <2>4. ShowsNode(b, m.peer)
      <3>1. m.op # "delete"
        BY <1>3
      <3>. QED BY <3>1, <2>1, <1>9, <1>3, <1>4, SeenNow
    <2>5. Twin(rels) /\ JoinedOn(b) /\ (\A r \in Rel : RelSound(r) /\ ChildFirst(r)) /\ (\A n \in Node : NodeSound(n))
          /\ \A c \in AnyBranch : Exists(c) => JoinedOn(c)
      BY <1>4, <1>9 DEF Quiet
    <2>6. OfNode(m.node) = {}
      BY <1>5 DEF NeverUsed, OfNode, NodeMarks
    <2>7. \A c : From(c)' = From(c) /\ Exists(c)' = Exists(c)
      BY <1>2 DEF From, Exists
    <2> HIDE DEF m, b, s, r0, T, e0
    <2>8. \A r \in Rel, x \in End : RelMarks(rels', r, x) = IF r = r0 THEN T ELSE RelMarks(rels, r, x)
      <3> TAKE r \in Rel, x \in End
      <3>1. RelMarks(rels', r, x) = RelMarks(rels, r, x) \cup RelMarks(rel_edges(r0, b, "active", s), r, x)
        BY <1>2, <2>2, MarksAdd
      <3>2. RelMarks(rel_edges(r0, b, "active", s), r, x) = IF r = r0 THEN T ELSE {}
        BY <1>3, <1>4, <2>2, <2>3, NewRelMarks DEF Status
      <3>3. RelMarks(rels, r0, x) = {}
        BY <2>2, <2>5 DEF OfRel, Twin, End
      <3>. QED BY <3>1, <3>2, <3>3
    <2>9. (\A r \in Rel : OfRel(r)' = IF r = r0 THEN T ELSE OfRel(r)) /\ Twin(rels)'
      BY <2>5, <2>8 DEF OfRel, Twin, End
    <2>10. \A n : OfNode(n)' = IF n = m.node THEN T ELSE OfNode(n)
      <3> TAKE n
      <3>1. OfNode(n)' = OfNode(n) \cup NodeMarks({e0}, n)
        BY <1>2, MarksAdd DEF OfNode
      <3>2. NodeMarks({e0}, n) = IF n = m.node THEN T ELSE {}
        BY <1>6, <2>3 DEF NodeMarks
      <3>. QED BY <3>1, <3>2, <2>6
    <2>11. \A r \in Rel : RelSound(r)'
      BY <2>2, <2>5, <2>9, <1>2, SoundNext, SoundIs
    <2>12. \A n \in Node : NodeSound(n)'
      BY <2>2, <2>5, <2>10 DEF NodeSound
    <2>13. \A r \in Rel : ChildFirst(r)'
      <3> TAKE r \in Rel
      <3>0. s <= s
        BY <1>3, TimeFacts
      <3>1. CASE r = r0
        <4>1. OfRel(r)' = T /\ OfNode(r.child)' = T
          BY <3>1, <2>2, <2>9, <2>10
        <4>. QED BY <4>1, <2>2, <3>0 DEF ChildFirst
      <3>2. CASE r # r0 /\ r.child = m.node
        <4>1. OfRel(r)' = {}
          BY <3>2, <2>5, <2>6, <2>9 DEF ChildFirst
        <4>. QED BY <4>1 DEF ChildFirst
      <3>3. CASE r # r0 /\ r.child # m.node
        <4>1. OfRel(r)' = OfRel(r) /\ OfNode(r.child)' = OfNode(r.child)
          BY <3>3, <2>9, <2>10
        <4>. QED BY <4>1, <2>5 DEF ChildFirst
      <3>. QED BY <3>1, <3>2, <3>3
    <2>14. \A c \in AnyBranch, r \in Rel : r # r0 => (ShowsRel(c, r)' <=> ShowsRel(c, r))
      BY <2>5, <2>7, <2>9, <1>3, RelShownSame
    <2>15. \A c \in AnyBranch, n \in Node : n # m.node => (ShowsNode(c, n)' <=> ShowsNode(c, n))
      BY <2>5, <2>7, <2>10, <1>3, NodeShownSame
    <2>16. \A c \in AnyBranch : ~ ShowsRel(c, r0) /\ ~ ShowsNode(c, m.node)
      BY <2>2, <2>6, NothingShown DEF ShowsRel, ShowsNode
    <2>17. ASSUME NEW c \in AnyBranch
           PROVE  /\ \A r \in Rel : r = r0 => (ShowsRel(c, r)' <=> c = b)
                  /\ \A n \in Node : n = m.node => (ShowsNode(c, n)' <=> c = b)
      <3>1. \A r \in Rel : r = r0 => (ShowsRel(c, r)' <=> Shown(T, c, From(c), s))
        BY <2>2, <2>7, <2>9, <1>3 DEF ShowsRel
      <3>2. \A n \in Node : n = m.node => (ShowsNode(c, n)' <=> Shown(T, c, From(c), s))
        BY <2>7, <2>10, <1>3 DEF ShowsNode
      <3>. QED BY <3>1, <3>2, <2>2
    <2>18. ASSUME NEW c \in AnyBranch, Exists(c) PROVE JoinedOn(c)'
      <3>1. CASE c # b
        <4>1. \A r \in Rel : ShowsRel(c, r)' <=> ShowsRel(c, r)
          BY <3>1, <2>14, <2>16, <2>17
        <4>2. \A n \in Node : ShowsNode(c, n)' <=> ShowsNode(c, n)
          BY <3>1, <2>15, <2>16, <2>17
        <4>. QED BY <4>1, <4>2, <2>5, <2>18, JoinedSame
      <3>2. CASE c = b
        <4>1. \A r \in Rel : ShowsRel(c, r)' <=> r = r0 \/ ShowsRel(c, r)
          BY <3>2, <2>14, <2>17
        <4>2. \A n \in Node : ShowsNode(c, n)' <=> n = m.node \/ ShowsNode(c, n)
          BY <3>2, <2>15, <2>17
        <4>3. \A r \in Rel : r.child \in Node /\ r.parent \in Node /\ r.child \in Child
          BY DEF Rel, Node
        <4>0. JoinedOn(c) /\ ShowsNode(c, m.peer)
          BY <3>2, <2>4, <2>5
        <4>4. \A r \in Rel : ShowsRel(c, r) => r.child # m.node
          BY <4>0, <2>16 DEF JoinedOn
        <4>5. \A r \in Rel : ShowsRel(c, r)' => ShowsNode(c, r.child)' /\ ShowsNode(c, r.parent)'
          BY <4>0, <4>1, <4>2, <4>3, <2>2 DEF JoinedOn
        <4>6. \A x \in Child : ShowsNode(c, x)' => \E r \in Rel : r.child = x /\ ShowsRel(c, r)'
          BY <4>0, <4>1, <4>2, <2>2 DEF JoinedOn, Node
        <4>7. \A r, y \in Rel : ShowsRel(c, r)' /\ ShowsRel(c, y)' /\ r.child = y.child => r = y
          BY <4>0, <4>1, <4>4, <2>2 DEF JoinedOn
        <4>. QED BY <4>5, <4>6, <4>7 DEF JoinedOn
      <3>. QED BY <3>1, <3>2
    <2>. QED BY <2>7, <2>9, <2>11, <2>12, <2>13, <2>18 DEF Quiet
  <1>10. incidents' = {} => Quiet'
    BY <1>2, <1>9 DEF QInv
  <1>. QED BY <1>8, <1>10 DEF QInv

(* The edges after a step that closes Z and adds N. *)
Stepped(E, Z, at, N) == (E \ Z) \cup Close(Z, at) \cup N

LEMMA SteppedMarks ==
  /\ \A E \in SUBSET RelEdge : \A Z \in SUBSET E, N \in SUBSET RelEdge, at \in Time : \A r, x :
       RelMarks(Stepped(E, Z, at, N), r, x) = Shut(RelMarks(E, r, x), RelMarks(Z, r, x), at) \cup RelMarks(N, r, x)
  /\ \A E \in SUBSET NodeEdge : \A Z \in SUBSET E, N \in SUBSET NodeEdge, at \in Time : \A n :
       NodeMarks(Stepped(E, Z, at, N), n) = Shut(NodeMarks(E, n), NodeMarks(Z, n), at) \cup NodeMarks(N, n)
  <1>1. ASSUME NEW E \in SUBSET RelEdge, NEW Z \in SUBSET E, NEW N \in SUBSET RelEdge, NEW at \in Time, NEW r, NEW x
        PROVE  RelMarks(Stepped(E, Z, at, N), r, x) = Shut(RelMarks(E, r, x), RelMarks(Z, r, x), at) \cup RelMarks(N, r, x)
    <2>1. RelMarks((E \ Z) \cup Close(Z, at) \cup N, r, x) = Shut(RelMarks(E, r, x), RelMarks(Z, r, x), at) \cup RelMarks(N, r, x)
      BY RelMarksShut
    <2>. QED BY <2>1 DEF Stepped
  <1>2. ASSUME NEW E \in SUBSET NodeEdge, NEW Z \in SUBSET E, NEW N \in SUBSET NodeEdge, NEW at \in Time, NEW n
        PROVE  NodeMarks(Stepped(E, Z, at, N), n) = Shut(NodeMarks(E, n), NodeMarks(Z, n), at) \cup NodeMarks(N, n)
    <2>1. NodeMarks((E \ Z) \cup Close(Z, at) \cup N, n) = Shut(NodeMarks(E, n), NodeMarks(Z, n), at) \cup NodeMarks(N, n)
      BY NodeMarksShut
    <2>. QED BY <2>1 DEF Stepped
  <1>. QED BY <1>1, <1>2

(* The marks on branch b of the paths that were read of the relationships old. *)
SeenOn(b, r, v, at) == {k \in Best(OfRel(r), v, at) : k.br = b}
(* Edges of a branch; edges that cover what is found first.                  *)
OnBranch(G, b) == {e \in G : e.br = b}
Covers(G, old, v, at) ==
  /\ \A e \in G : e.rel \in old /\ MarkOf(e) \in Best(OfRel(e.rel), v, at)
  /\ \A r \in old, x \in End : \A k \in Best(OfRel(r), v, at) : \E e \in G : e.rel = r /\ e.end = x /\ MarkOf(e) = k

(* The edges G are of the paths found first for the relationships old.       *)
LEMMA OwnMarks ==
  ASSUME TypeOK, Twin(rels), NEW old \in SUBSET Rel, NEW v, NEW at, NEW b, NEW G \in SUBSET rels, Covers(G, old, v, at),
         NEW r \in Rel, NEW x \in End
  PROVE  /\ r \in old => RelMarks(OnBranch(G, b), r, x) = SeenOn(b, r, v, at)
         /\ r \notin old => RelMarks(OnBranch(G, b), r, x) = {}
  <1> DEFINE O == OnBranch(G, b)
  <1>1. \A e \in G : MarkOf(e).br = e.br
    BY MarkOfFacts, TypeParts
  <1>2. \A k : k \in RelMarks(O, r, x) <=> \E e \in O : e.rel = r /\ e.end = x /\ k = MarkOf(e)
    BY DEF RelMarks
  <1>5. \A e : e \in O <=> e \in G /\ e.br = b
    BY DEF OnBranch
  <1> HIDE DEF O
  <1>3. ASSUME NEW k \in RelMarks(O, r, x) PROVE r \in old /\ k \in SeenOn(b, r, v, at)
    BY <1>1, <1>2, <1>3, <1>5 DEF SeenOn, Covers
  <1>4. ASSUME r \in old, NEW k \in SeenOn(b, r, v, at) PROVE k \in RelMarks(O, r, x)
    BY <1>1, <1>2, <1>4, <1>5 DEF SeenOn, Covers
  <1>. QED BY <1>3, <1>4 DEF O

LEMMA DeletedMarks ==
  ASSUME NEW old \in SUBSET Rel, NEW b \in AnyBranch, NEW s \in Time, NEW r \in Rel, NEW x \in End
  PROVE  RelMarks(deleted_rels(old, b, s), r, x) = IF r \in old THEN {mark(b, "deleted", s)} ELSE {}
  <1>1. \A o \in Rel : RelMarks(rel_edges(o, b, "deleted", s), r, x) = IF r = o THEN {mark(b, "deleted", s)} ELSE {}
    BY NewRelMarks DEF Status
  <1>2. \A E, k : k \in RelMarks(E, r, x) <=> \E e \in E : e.rel = r /\ e.end = x /\ k = MarkOf(e)
    BY DEF RelMarks
  <1>3. \A k : k \in RelMarks(deleted_rels(old, b, s), r, x) <=> \E o \in old : k \in RelMarks(rel_edges(o, b, "deleted", s), r, x)
    BY <1>2 DEF deleted_rels
  <1>. QED BY <1>1, <1>3

(* What a step that deletes the relationships old on branch b, and adds N, leaves. *)
DroppedMarks(b, r, v, at, s) == Shut(OfRel(r), SeenOn(b, r, v, at), s) \cup {mark(b, "deleted", s)}

(* The marks of the relationships that a request drops on its branch: those  *)
(* seen there are closed and a deleted one is added.                         *)
LEMMA DroppedRels ==
  ASSUME TypeOK, Twin(rels), NEW old \in SUBSET Rel, NEW v, NEW at, NEW b \in AnyBranch, NEW G \in SUBSET rels, Covers(G, old, v, at),
         NEW s \in Time, NEW N \in SUBSET RelEdge, NEW r \in Rel, NEW x \in End
  PROVE  LET R == Stepped(rels, OnBranch(G, b), s, deleted_rels(old, b, s) \cup N) IN
         /\ r \in old => RelMarks(R, r, x) = DroppedMarks(b, r, v, at, s) \cup RelMarks(N, r, x)
         /\ r \notin old => RelMarks(R, r, x) = OfRel(r) \cup RelMarks(N, r, x)
  <1> DEFINE mine == OnBranch(G, b)
             D == deleted_rels(old, b, s)
             A == D \cup N
  <1>1. mine \in SUBSET rels /\ rels \in SUBSET RelEdge
    BY TypeParts DEF OnBranch
  <1>2. D \in SUBSET RelEdge
    <2>1. \A o \in old : \A e \in rel_edges(o, b, "deleted", s) : e \in RelEdge
      BY NewRelEdges DEF Status
    <2>. QED BY <2>1 DEF deleted_rels
  <1>3. RelMarks(rels, r, x) = OfRel(r)
    BY DEF OfRel, Twin, End
  <1>4. /\ r \in old => RelMarks(OnBranch(G, b), r, x) = SeenOn(b, r, v, at)
        /\ r \notin old => RelMarks(OnBranch(G, b), r, x) = {}
    BY OwnMarks
  <1>5. RelMarks(D, r, x) = IF r \in old THEN {mark(b, "deleted", s)} ELSE {}
    BY DeletedMarks
  <1> HIDE DEF mine, D
  <1>6. A \in SUBSET RelEdge /\ RelMarks(A, r, x) = RelMarks(D, r, x) \cup RelMarks(N, r, x)
    BY <1>2, MarksAdd
  <1> HIDE DEF A
  <1>7. RelMarks(Stepped(rels, mine, s, A), r, x)
          = Shut(RelMarks(rels, r, x), RelMarks(mine, r, x), s) \cup RelMarks(A, r, x)
    BY <1>1, <1>6, SteppedMarks
  <1>8. \A S : Shut(S, {}, s) = S
    BY DEF Shut
  <1>9. /\ r \in old => RelMarks(Stepped(rels, mine, s, A), r, x) = DroppedMarks(b, r, v, at, s) \cup RelMarks(N, r, x)
        /\ r \notin old => RelMarks(Stepped(rels, mine, s, A), r, x) = OfRel(r) \cup RelMarks(N, r, x)
    BY <1>3, <1>4, <1>5, <1>6, <1>7, <1>8 DEF DroppedMarks, mine
  <1>. QED BY <1>9 DEF A, D, mine

(* A relationship that a request has seen and its branch still shows is     *)
(* deleted there, at the time of the request or of its transaction.         *)
LEMMA DropSeen ==
  ASSUME TypeOK, Pending, Quiet, Times, Waits, NEW q \in Request, request[q] # Idle, NEW r \in Rel,
         ShowsRel(request[q].view.name, r),
         \E k \in Best(OfRel(r), request[q].view, request[q].at) : k.status = "active",
         NEW s \in Time, s = Now(q) \/ (s = request[q].at /\ Backdated(request[q]) = {})
  PROVE  LET m == request[q]
             b == m.view.name
             T == DroppedMarks(b, r, m.view, m.at, s)
         IN /\ SoundMarks(T, r.born)
            /\ ~ Shown(T, b, From(b), Now(q))
            /\ \A c \in AnyBranch : c # b => (Shown(T, c, From(c), Now(q)) <=> ShowsRel(c, r))
            /\ \A l \in T : l.status = "active" => \E k \in OfRel(r) : l.br = k.br /\ k.status = "active" /\ l.from = k.from
            /\ OfRel(r) # {}
  <1> DEFINE m == request[q]
             b == m.view.name
             S == OfRel(r)
             X == SeenOn(b, r, m.view, m.at)
             T == DroppedMarks(b, r, m.view, m.at, s)
             d == mark(b, "deleted", s)
             u == Now(q)
  <1>1. /\ u \in Nat /\ clock <= u /\ Stamped(u)
        /\ \A c \in Branch : From(c) < u /\ From(c) \in Nat /\ From(c) # m.at
        /\ m.at \in Nat /\ m.at <= u
    BY NowFacts
  <1>2. Exists(b) /\ b \in AnyBranch /\ (b # Main => b \in Branch /\ branch[b].created_at <= m.at)
    BY RequestBranch
  <1>3. Twin(rels) /\ RelSound(r)
    BY DEF Quiet
  <1>4. /\ X \subseteq S
        /\ \A k \in X : k.status = "active"
        /\ b # Main => Opened(S, b) \subseteq X /\ \A k \in S : k.br = b => k.from < m.at
        /\ b = Main /\ Backdated(m) = {} => \A k \in S : k.br = Main /\ k.status = "active" => k.from < m.at
        /\ \A k \in S : k.from # m.at
        /\ r.born <= m.at
    BY RelToDrop DEF SeenOn
  <1>5. \A k \in X : k.br = b
    BY DEF SeenOn
  <1>6. S \in SUBSET MarkSet /\ \A k \in S : k.from < u /\ k.from \in Nat
    BY <1>1, <1>3, OfRelFacts, MarksStamped, MarkFacts
  <1>7. d \in MarkSet /\ d.status = "deleted"
    BY <1>2, NewMark DEF Status
  <1>8. s \in Nat /\ m.at <= s /\ s <= u
    BY <1>1
  <1>9. Closed(S, X, s, {d}, T)
    <2>1. {d} \in SUBSET MarkSet /\ X \in SUBSET S
      BY <1>4, <1>7
    <2> HIDE DEF d, X, S
    <2>2. Closed(S, X, s, {d}, Shut(S, X, s) \cup {d})
      BY <1>6, <2>1, ShutFacts
    <2>. QED BY <2>2 DEF DroppedMarks, S, X, d
  <1>10. r.born \in Nat /\ (b # Main => branch[b].created_at \in Nat)
    <2>1. r.born \in Nat
      BY TimeFacts DEF Rel
    <2>2. \A c \in Branch : branch[c].created_at \in Nat
      BY DEF TypeOK
    <2>. QED BY <2>1, <2>2, <1>2
  <1> HIDE DEF m, b, X, T, u, S
  <1>11. r.born <= s /\ (b # Main => branch[b].created_at <= s)
    BY <1>1, <1>2, <1>4, <1>8, <1>10
  <1>12. b # Main => Opened(S, b) \subseteq X /\ \A k \in S : k.br = b => k.from < s
    BY <1>1, <1>4, <1>6, <1>8
  <1>13. b = Main => /\ \A k \in S : k.br = Main /\ k.status = "active" => k.from < s
                     /\ \A k \in S : k.from # s
                     /\ \A c \in Branch : From(c) < s
    <2>1. CASE s = u
      BY <2>1, <1>1, <1>6
    <2>2. CASE b = Main /\ s = m.at /\ Backdated(m) = {}
      <3>1. \A c \in Branch : ~ (From(c) > m.at)
        BY <2>2 DEF Backdated, From, b
      <3>. QED BY <2>2, <3>1, <1>1, <1>4
    <2>. QED BY <2>1, <2>2 DEF u, m
  <1>14. ShowsRel(b, r) /\ X \in SUBSET S /\ \A k \in X : k.br = b /\ k.status = "active"
    BY <1>4, <1>5 DEF b, m
  <1>15. /\ SoundMarks(T, r.born)
         /\ ~ Shown(T, b, From(b), u)
         /\ \A c \in AnyBranch : c # b => (Shown(T, c, From(c), u) <=> ShowsRel(c, r))
    BY <1>1, <1>2, <1>3, <1>8, <1>9, <1>11, <1>12, <1>13, <1>14, DropRel DEF S
  <1>16. \A l \in T : l.status = "active" => \E k \in S : l.br = k.br /\ k.status = "active" /\ l.from = k.from
    BY <1>7, <1>9, <1>14 DEF Closed, Closes
  <1>17. S # {}
    BY NothingShown DEF S, ShowsRel
  <1>. QED BY <1>15, <1>16, <1>17 DEF m, b, X, T, u, S

(* The edges of the paths that a read finds first. *)
Gone(old, v, at) == UNION {{p.child, p.parent} : p \in UNION {First(r, v, at) : r \in old}}

LEMMA GoneCovers ==
  ASSUME TypeOK, Twin(rels), \A r \in Rel : OneFrom(OfRel(r)), NEW old \in SUBSET Rel, NEW v, v.name \in AnyBranch, NEW at
  PROVE  Gone(old, v, at) \in SUBSET rels /\ Covers(Gone(old, v, at), old, v, at)
  <1> DEFINE G == Gone(old, v, at)
  <1>1. \A e : e \in G <=> \E r \in old : \E p \in First(r, v, at) : e = p.child \/ e = p.parent
    BY DEF Gone
  <1> HIDE DEF G
  <1>2. ASSUME NEW e \in G PROVE e \in rels /\ e.rel \in old /\ MarkOf(e) \in Best(OfRel(e.rel), v, at)
    <2>1. PICK r \in old : \E p \in First(r, v, at) : e = p.child \/ e = p.parent
      BY <1>1, <1>2
    <2>2. PICK p \in First(r, v, at) : e = p.child \/ e = p.parent
      BY <2>1
    <2>3. PICK k \in Best(OfRel(r), v, at) : PairOf(p, k, r)
      BY <2>2, FirstIsPair
    <2>. QED BY <2>1, <2>2, <2>3 DEF PairOf
  <1>3. ASSUME NEW r \in old, NEW x \in End, NEW k \in Best(OfRel(r), v, at)
        PROVE  \E e \in G : e.rel = r /\ e.end = x /\ MarkOf(e) = k
    <2>1. PICK p \in First(r, v, at) : PairOf(p, k, r)
      BY PairIsFirst
    <2>2. p.child \in G /\ p.parent \in G
      BY <2>1, <1>1
    <2>. QED BY <2>1, <2>2 DEF PairOf, End
  <1>. QED BY <1>2, <1>3 DEF Covers, G

(* An update drops the relationship to the old parent and adds the one to    *)
(* the new parent.                                                           *)
LEMMA UpdateQuiet ==
  ASSUME TypeOK, TypeOK', Pending, QInv, NEW q \in Request, CommitUpdate(q)
  PROVE  QInv'
  <1> DEFINE m == request[q]
             b == m.view.name
             v == m.view
             s == Now(q)
             r0 == NewRel(m, s)
             T == NewOnly(m, s)
             C == Connects(m, s)
  <1>1. Commits(q, "update")
    BY DEF CommitUpdate
  <1>2. nodes' = nodes /\ incidents' = incidents \cup Stale(m, s) /\ branch' = branch
    BY DEF CommitUpdate
  <1>3. s \in Time /\ clock <= s /\ clock' = s /\ m # Idle /\ m.op = "update"
    BY <1>1, CommitFacts
  <1>4. Exists(b) /\ b \in AnyBranch /\ v.name = b
    BY <1>3, RequestBranch
  <1>5. m.node \in Child /\ m.node \in Node
    BY <1>3 DEF Pending, Node
  <1>6. \A e \in C : e \in RelEdge /\ e.from = s /\ e.to = Null
    BY <1>3, <1>5, ConnectsType, RequestFacts
  <1>7. PICK seen \in Readings(v, m.at) :
          LET old == {r \in seen : r.child = m.node}
          IN rels' = Stepped(rels, OnBranch(Gone(old, v, m.at), b), s, deleted_rels(old, b, s) \cup C)
    <2>1. PICK seen \in Readings(v, m.at) :
            LET old == {r \in seen : r.child = m.node}
                gone == UNION {{p.child, p.parent} : p \in UNION {First(r, v, m.at) : r \in old}}
                mine == {e \in gone : e.br = b}
            IN rels' = (rels \ mine) \cup Close(mine, s) \cup deleted_rels_data(old, b, s) \cup C
      BY DEF CommitUpdate
    <2> DEFINE old == {r \in seen : r.child = m.node}
               mine == OnBranch(Gone(old, v, m.at), b)
    <2>2. rels' = (rels \ mine) \cup Close(mine, s) \cup deleted_rels_data(old, b, s) \cup C
      BY <2>1 DEF OnBranch, Gone
    <2>3. deleted_rels_data(old, b, s) = deleted_rels(old, b, s)
      BY DEF deleted_rels_data, deleted_rels
    <2> HIDE DEF old, mine, C, s, b
    <2>4. rels' = (rels \ mine) \cup Close(mine, s) \cup (deleted_rels(old, b, s) \cup C)
      BY <2>2, <2>3
    <2>. QED BY <2>4 DEF Stepped, old, mine
  <1> DEFINE old == {r \in seen : r.child = m.node}
             G == Gone(old, v, m.at)
             D == deleted_rels(old, b, s)
  <1>8. old \in SUBSET Rel /\ \A e \in D : e \in RelEdge /\ e.from = s /\ e.to = Null
    <2>1. seen \subseteq Rel
      BY SeenRels
    <2>2. \A o \in old : \A e \in rel_edges(o, b, "deleted", s) : e \in RelEdge /\ e.from = s /\ e.to = Null
      BY <1>3, <1>4, <2>1, NewRelEdges DEF Status
    <2>. QED BY <2>1, <2>2 DEF deleted_rels
  <1>9. OnBranch(G, b) \in SUBSET rels
    <2>1. ASSUME NEW e \in G PROVE e \in rels
      <3>1. PICK r \in old : \E p \in First(r, v, m.at) : e = p.child \/ e = p.parent
        BY DEF Gone
      <3>2. PICK p \in First(r, v, m.at) : e = p.child \/ e = p.parent
        BY <3>1
      <3>. QED BY <3>2, PathEdges DEF First
    <2>. QED BY <2>1 DEF OnBranch
  <1>10. Times' /\ Waits'
    <2> DEFINE A == D \cup C
               Z == OnBranch(G, b)
    <2>1. rels' = (rels \ Z) \cup Close(Z, s) \cup A
      BY <1>7 DEF Stepped
    <2>2. rels \subseteq RelEdge /\ Z \in SUBSET rels /\ \A e \in A : e.from \in {m.at, s} /\ e.to = Null
      BY <1>6, <1>8, <1>9, TypeParts
    <2> HIDE DEF A, Z
    <2> DEFINE U == {m.at, s}
    <2>3. s \in U /\ \A e \in A : e.from \in U /\ e.to = Null
      BY <2>2
    <2> HIDE DEF U
    <2>4. \A e \in (rels \ Z) \cup Close(Z, s) \cup A :
            /\ e.from \in U \/ \E d \in rels : e.from = d.from
            /\ e.to \in U \/ e.to = Null \/ \E d \in rels : e.to = d.to
      BY <2>2, <2>3, <1>3, ClosedStamps
    <2>5. \A e \in nodes' \cup rels' :
            /\ e.from \in U \/ \E d \in nodes \cup rels : e.from = d.from
            /\ e.to \in U \/ e.to = Null \/ \E d \in nodes \cup rels : e.to = d.to
      BY <2>1, <2>4, <1>2
    <2>. QED BY <2>5, <1>1, <1>2, CommitTimes DEF U
  <1>11. ASSUME Quiet, Stale(m, s) = {} PROVE Quiet'
    <2>1. Times /\ Waits
      BY DEF QInv
    <2>2. /\ m.node \in Child /\ r0 \in Rel /\ r0.child = m.node /\ r0.parent = m.peer
          /\ OfRel(r0) = {}
          /\ C = rel_edges(r0, b, "active", s)
          /\ SoundMarks(T, r0.born)
          /\ InOrder(T)
          /\ Shown(T, b, From(b), s)
          /\ \A c \in AnyBranch : c # b => ~ Shown(T, c, From(c), s)
          /\ \A k \in T : k.br = b /\ k.status = "active" /\ k.from = s /\ k.to = Null
          /\ T # {}
      <3>1. m.op # "delete"
        BY <1>3
      <3>. QED BY <3>1, <2>1, <1>11, <1>3, <1>4, NewRelFacts
    <2>3. T = {mark(b, "active", s)}
      BY DEF NewOnly
    <2>4. /\ \A S \in Readings(v, m.at) : S \subseteq Rel /\ \A r \in Rel : r \in S <=> ShowsRel(b, r)
          /\ \A r \in Rel : ShowsRel(b, r) => \E k \in Best(OfRel(r), v, m.at) : k.status = "active"
          /\ m.op # "create" => ShowsNode(b, m.node)
          /\ m.op # "delete" => ShowsNode(b, m.peer)
      BY <2>1, <1>11, <1>3, <1>4, SeenNow
    <2>5. Twin(rels) /\ JoinedOn(b) /\ (\A r \in Rel : RelSound(r) /\ ChildFirst(r)) /\ (\A n \in Node : NodeSound(n))
          /\ \A c \in AnyBranch : Exists(c) => JoinedOn(c)
      BY <1>4, <1>11 DEF Quiet
    <2>6. \A r \in Rel : OneFrom(OfRel(r))
      BY <2>5 DEF RelSound, Tracked
    <2>7. \A c : From(c)' = From(c) /\ Exists(c)' = Exists(c)
      BY <1>2 DEF From, Exists
    <2>8. \A r \in Rel : r \in old <=> r.child = m.node /\ ShowsRel(b, r)
      BY <2>4
    <2>9. ShowsNode(b, m.node) /\ ShowsNode(b, m.peer) /\ \A n : OfNode(n)' = OfNode(n)
      BY <2>4, <1>2, <1>3 DEF OfNode
    <2>10. G \in SUBSET rels /\ Covers(G, old, v, m.at)
      <3> HIDE DEF old
      <3>. QED BY <2>5, <2>6, <1>4, <1>8, GoneCovers
    <2>11. C \in SUBSET RelEdge
      BY <1>6
    <2> DEFINE Dr(r) == DroppedMarks(b, r, v, m.at, s)
    <2>12. \A r \in old : /\ SoundMarks(Dr(r), r.born)
                          /\ ~ Shown(Dr(r), b, From(b), s)
                          /\ \A c \in AnyBranch : c # b => (Shown(Dr(r), c, From(c), s) <=> ShowsRel(c, r))
                          /\ \A l \in Dr(r) : l.status = "active" => \E k \in OfRel(r) : l.br = k.br /\ k.status = "active" /\ l.from = k.from
                          /\ OfRel(r) # {}
      <3> TAKE r \in old
      <3>1. r \in Rel /\ ShowsRel(b, r) /\ \E k \in Best(OfRel(r), v, m.at) : k.status = "active"
        BY <2>4, <2>8, <1>8
      <3>2. s = Now(q) \/ (s = m.at /\ Backdated(m) = {})
        OBVIOUS
      <3>. QED BY <3>1, <3>2, <2>1, <1>3, <1>11, DropSeen
    <2>13. \A r \in Rel, x \in End : /\ r \in old => RelMarks(rels', r, x) = Dr(r) \cup RelMarks(C, r, x)
                                     /\ r \notin old => RelMarks(rels', r, x) = OfRel(r) \cup RelMarks(C, r, x)
      <3>0. rels' = Stepped(rels, OnBranch(G, b), s, deleted_rels(old, b, s) \cup C)
        BY <1>7
      <3> HIDE DEF old, C, G, m, b, v, s
      <3> TAKE r \in Rel, x \in End
      <3>1. LET R == Stepped(rels, OnBranch(G, b), s, deleted_rels(old, b, s) \cup C) IN
            /\ r \in old => RelMarks(R, r, x) = DroppedMarks(b, r, v, m.at, s) \cup RelMarks(C, r, x)
            /\ r \notin old => RelMarks(R, r, x) = OfRel(r) \cup RelMarks(C, r, x)
        BY <2>5, <2>10, <2>11, <1>3, <1>4, <1>8, DroppedRels
      <3>. QED BY <3>0, <3>1
    <2> HIDE DEF m, b, v, s, r0, T, C, old, G, Dr
    <2>14. r0 \notin old
      BY <2>2, <2>12
    <2>15. \A r \in Rel, x \in End : /\ r \in old => RelMarks(rels', r, x) = Dr(r)
                                     /\ r = r0 => RelMarks(rels', r, x) = T
                                     /\ r \notin old /\ r # r0 => RelMarks(rels', r, x) = OfRel(r)
      <3> TAKE r \in Rel, x \in End
      <3>1. RelMarks(C, r, x) = IF r = r0 THEN T ELSE {}
        BY <1>3, <1>4, <2>2, <2>3, NewRelMarks DEF Status
      <3>2. r \in old => RelMarks(rels', r, x) = Dr(r)
        BY <3>1, <2>13, <2>14
      <3>3. ASSUME r = r0 PROVE RelMarks(rels', r, x) = T
        <4>1. RelMarks(rels', r, x) = OfRel(r) \cup RelMarks(C, r, x)
          BY <3>3, <2>13, <2>14
        <4>2. OfRel(r) = {}
          BY <3>3, <2>2
        <4>. QED BY <4>1, <4>2, <3>1, <3>3
      <3>4. r \notin old /\ r # r0 => RelMarks(rels', r, x) = OfRel(r)
        BY <3>1, <2>13
      <3>. QED BY <3>2, <3>3, <3>4
    <2>16. (\A r \in Rel : /\ r \in old => OfRel(r)' = Dr(r)
                           /\ r = r0 => OfRel(r)' = T
                           /\ r \notin old /\ r # r0 => OfRel(r)' = OfRel(r)) /\ Twin(rels)'
      <3>1. \A r \in Rel : OfRel(r)' = RelMarks(rels', r, "child")
        BY DEF OfRel
      <3>2. "child" \in End /\ "parent" \in End
        BY DEF End
      <3>3. \A r \in Rel : RelMarks(rels', r, "child") = RelMarks(rels', r, "parent")
        BY <3>2, <2>15
      <3>. QED BY <3>1, <3>2, <3>3, <2>15 DEF Twin
    <2>17. \A r \in Rel : RelSound(r)'
      <3> TAKE r \in Rel
      <3>1. CASE r \in old
        BY <3>1, <2>12, <2>16, <1>2, SoundNext
      <3>2. CASE r = r0
        BY <3>2, <2>2, <2>16, <1>2, SoundNext
      <3>3. CASE r \notin old /\ r # r0
        BY <3>3, <2>5, <2>16, <1>2, SoundNext, SoundIs
      <3>. QED BY <3>1, <3>2, <3>3
    <2>18. \A n \in Node : NodeSound(n)'
      BY <2>5, <2>9 DEF NodeSound
    <2>19. OfNode(m.node) # {} /\ \A g \in OfNode(m.node) : g.from <= s
      <3>1. OfNode(m.node) # {}
        BY <2>9, NothingShown DEF ShowsNode
      <3>2. \A g \in OfNode(m.node) : g.from <= clock /\ g \in MarkSet
        BY <2>5, MarksStamped, OfNodeFacts
      <3>3. \A g \in OfNode(m.node) : g.from \in Nat
        BY <3>2, MarkFacts
      <3>4. clock \in Nat /\ s \in Nat
        BY <1>3, TimeFacts DEF TypeOK
      <3>. QED BY <3>1, <3>2, <3>3, <3>4, <1>3
    <2>20. b = Main => \E g \in OfNode(m.node) : g.br = Main /\ g.status = "active"
      BY <2>9 DEF ShowsNode, Shown, MainOn
    <2>21. \A r \in Rel : ChildFirst(r)'
      <3> TAKE r \in Rel
      <3>1. CASE r = r0
        <4>1. OfRel(r)' = T /\ OfNode(r.child)' = OfNode(m.node)
          BY <3>1, <2>2, <2>9, <2>16
        <4>. QED BY <4>1, <2>2, <2>19, <2>20 DEF ChildFirst
      <3>2. CASE r \in old
        <4>1. OfRel(r)' = Dr(r) /\ OfNode(r.child)' = OfNode(r.child)
          BY <3>2, <2>9, <2>16
        <4>. QED BY <3>2, <4>1, <2>5, <2>12 DEF ChildFirst
      <3>3. CASE r \notin old /\ r # r0
        <4>1. OfRel(r)' = OfRel(r) /\ OfNode(r.child)' = OfNode(r.child)
          BY <3>3, <2>9, <2>16
        <4>. QED BY <4>1, <2>5 DEF ChildFirst
      <3>. QED BY <3>1, <3>2, <3>3
    <2>22. \A c \in AnyBranch, n \in Node : ShowsNode(c, n)' <=> ShowsNode(c, n)
      BY <2>5, <2>7, <2>9, <1>3, NodeShownSame
    <2>23. \A c \in AnyBranch, r \in Rel : r # r0 /\ r \notin old => (ShowsRel(c, r)' <=> ShowsRel(c, r))
      BY <2>5, <2>7, <2>16, <1>3, RelShownSame
    <2>24. \A c \in AnyBranch, r \in Rel : r = r0 => (ShowsRel(c, r)' <=> c = b) /\ ~ ShowsRel(c, r)
      <3> TAKE c \in AnyBranch, r \in Rel
      <3> HAVE r = r0
      <3>1. ShowsRel(c, r)' <=> Shown(T, c, From(c), s)
        BY <2>7, <2>16, <1>3 DEF ShowsRel
      <3>2. ~ ShowsRel(c, r)
        BY <2>2, NothingShown DEF ShowsRel
      <3>. QED BY <3>1, <3>2, <2>2
    <2>25. \A c \in AnyBranch, r \in Rel : r \in old => (ShowsRel(c, r)' <=> c # b /\ ShowsRel(c, r))
      <3> TAKE c \in AnyBranch, r \in Rel
      <3> HAVE r \in old
      <3>1. ShowsRel(c, r)' <=> Shown(Dr(r), c, From(c), s)
        BY <2>7, <2>16, <1>3 DEF ShowsRel
      <3>. QED BY <3>1, <2>12
    <2>26. ASSUME NEW c \in AnyBranch, Exists(c) PROVE JoinedOn(c)'
      <3>1. CASE c # b
        <4>1. \A r \in Rel : ShowsRel(c, r)' <=> ShowsRel(c, r)
          BY <3>1, <2>23, <2>24, <2>25
        <4>. QED BY <4>1, <2>22, <2>5, <2>26, JoinedSame
      <3>2. CASE c = b
        <4>1. \A r \in Rel : ShowsRel(c, r)' <=> r = r0 \/ (r.child # m.node /\ ShowsRel(c, r))
          BY <3>2, <2>8, <2>23, <2>24, <2>25, <2>2
        <4>3. \A r \in Rel : r.child \in Node /\ r.parent \in Node /\ r.child \in Child
          BY DEF Rel, Node
        <4>0. JoinedOn(c) /\ ShowsNode(c, m.peer) /\ ShowsNode(c, m.node)
          BY <3>2, <2>9, <2>5
        <4>5. \A r \in Rel : ShowsRel(c, r)' => ShowsNode(c, r.child)' /\ ShowsNode(c, r.parent)'
          BY <4>0, <4>1, <4>3, <2>2, <2>22 DEF JoinedOn
        <4>6. \A x \in Child : ShowsNode(c, x)' => \E r \in Rel : r.child = x /\ ShowsRel(c, r)'
          BY <4>0, <4>1, <2>2, <2>22 DEF JoinedOn, Node
        <4>7. \A r, y \in Rel : ShowsRel(c, r)' /\ ShowsRel(c, y)' /\ r.child = y.child => r = y
          BY <4>0, <4>1, <2>2 DEF JoinedOn
        <4>. QED BY <4>5, <4>6, <4>7 DEF JoinedOn
      <3>. QED BY <3>1, <3>2
    <2>. QED BY <2>7, <2>16, <2>17, <2>18, <2>21, <2>26 DEF Quiet
  <1>12. incidents' = {} => Quiet'
    BY <1>2, <1>11 DEF QInv
  <1>. QED BY <1>10, <1>12 DEF QInv

(* Every active mark of T is one of S, but for its end. *)
Echo(S, T) == \A l \in T : l.status = "active" => \E k \in S : k.br = l.br /\ k.status = "active" /\ k.from = l.from

(* No relationship becomes active, so a child is still older than its own.   *)
LEMMA ChildKept ==
  ASSUME NEW r \in Rel, ChildFirst(r), Echo(OfRel(r), OfRel(r)'), Echo(OfNode(r.child), OfNode(r.child)'),
         Echo(OfNode(r.child)', OfNode(r.child)), OfRel(r)' # {} => OfRel(r) # {}, OfNode(r.child) # {} => OfNode(r.child)' # {}
  PROVE  ChildFirst(r)'
  <1> DEFINE S == OfRel(r)
             T == OfRel(r)'
             M == OfNode(r.child)
             N == OfNode(r.child)'
  <1>1. /\ S # {} => M # {}
        /\ \A k \in S : k.status = "active" =>
             IF k.br = Main THEN \E g \in M : g.br = Main /\ g.status = "active" /\ g.from <= k.from
             ELSE \A g \in M : g.br = k.br /\ g.status = "active" => g.from <= k.from
    BY DEF ChildFirst
  <1> HIDE DEF S, T, M, N
  <1>2. /\ T # {} => N # {}
        /\ \A k \in T : k.status = "active" =>
             IF k.br = Main THEN \E g \in N : g.br = Main /\ g.status = "active" /\ g.from <= k.from
             ELSE \A g \in N : g.br = k.br /\ g.status = "active" => g.from <= k.from
    <2>0. Echo(S, T) /\ Echo(M, N) /\ Echo(N, M) /\ (T # {} => S # {}) /\ (M # {} => N # {})
      BY DEF S, T, M, N
    <2>1. T # {} => N # {}
      BY <1>1, <2>0
    <2>2. ASSUME NEW l \in T, l.status = "active"
          PROVE  IF l.br = Main THEN \E g \in N : g.br = Main /\ g.status = "active" /\ g.from <= l.from
                 ELSE \A g \in N : g.br = l.br /\ g.status = "active" => g.from <= l.from
      <3>1. PICK k \in S : k.br = l.br /\ k.status = "active" /\ k.from = l.from
        BY <2>0, <2>2 DEF Echo
      <3>2. CASE l.br = Main
        <4>1. PICK g \in M : g.br = Main /\ g.status = "active" /\ g.from <= l.from
          BY <1>1, <3>1, <3>2
        <4>2. PICK h \in N : h.br = g.br /\ h.status = "active" /\ h.from = g.from
          BY <2>0, <4>1 DEF Echo
        <4>. QED BY <3>2, <4>1, <4>2
      <3>3. CASE l.br # Main
        <4>1. \A g \in M : g.br = l.br /\ g.status = "active" => g.from <= l.from
          BY <1>1, <3>1, <3>3
        <4>2. \A h \in N : h.status = "active" => \E g \in M : g.br = h.br /\ g.status = "active" /\ g.from = h.from
          BY <2>0 DEF Echo
        <4>. QED BY <3>3, <4>1, <4>2
      <3>. QED BY <3>2, <3>3
    <2>. QED BY <2>1, <2>2
  <1>. QED BY <1>2 DEF S, T, M, N, ChildFirst

-----------------------------------------------------------------------------
(* The marks of a node that a delete on branch b closes and leaves. *)
NodeSeenOn(b, n, v, at) == {k \in Best(OfNode(n), v, at) : k.br = b /\ k.status = "active"}
DroppedNode(b, n, v, at) == Shut(OfNode(n), NodeSeenOn(b, n, v, at), at) \cup {mark(b, "deleted", at)}

(* The marks of the nodes that a request deletes.                            *)
LEMMA DroppedNodes ==
  ASSUME TypeOK, NEW m, m.view.name \in AnyBranch, m.at \in Time, NEW D \in SUBSET Node, NEW n \in Node
  PROVE  LET W == Stepped(nodes, DeletedPart(m, D), m.at, DeletedEdges(m, D)) IN
         /\ n \in D => NodeMarks(W, n) = DroppedNode(m.view.name, n, m.view, m.at)
         /\ n \notin D => NodeMarks(W, n) = OfNode(n)
  <1> DEFINE P == DeletedPart(m, D)
             A == DeletedEdges(m, D)
             b == m.view.name
  <1>1. \A e : e \in P <=> e.status = "active" /\ e.br = b /\ \E x \in D : e \in CurrentNodeEdges(m.view, x, m.at)
    BY DEF DeletedPart
  <1>2. \A e \in nodes : MarkOf(e).br = e.br /\ MarkOf(e).status = e.status
    BY MarkOfFacts, TypeParts
  <1>3. P \in SUBSET nodes /\ nodes \in SUBSET NodeEdge
    BY <1>1, CurrentNodes, TypeParts
  <1>4. A \in SUBSET NodeEdge
    BY NewNodeEdge DEF DeletedEdges, deleted_node, Status
  <1>5. \A e \in nodes : e.node = n => (e \in CurrentNodeEdges(m.view, n, m.at) <=> MarkOf(e) \in Best(OfNode(n), m.view, m.at))
    BY NodeBest
  <1>6. \A E, k : k \in NodeMarks(E, n) <=> \E e \in E : e.node = n /\ k = MarkOf(e)
    BY DEF NodeMarks
  <1>7. \A k \in OfNode(n) : \E e \in nodes : e.node = n /\ k = MarkOf(e)
    BY OfNodeFacts
  <1>8. \A e \in A : \E x \in D : e.node = x /\ MarkOf(e) = mark(b, "deleted", m.at)
    BY NewNodeMark DEF DeletedEdges, deleted_node
  <1>9. \A x \in D : \E e \in A : e.node = x /\ MarkOf(e) = mark(b, "deleted", m.at)
    BY NewNodeMark DEF DeletedEdges, deleted_node
  <1> HIDE DEF P, A, b
  <1>10. NodeMarks(Stepped(nodes, P, m.at, A), n) = Shut(NodeMarks(nodes, n), NodeMarks(P, n), m.at) \cup NodeMarks(A, n)
    BY <1>3, <1>4, SteppedMarks
  <1>11. ASSUME n \in D PROVE NodeMarks(P, n) = NodeSeenOn(b, n, m.view, m.at)
    <2>1. \A k \in NodeMarks(P, n) : k \in NodeSeenOn(b, n, m.view, m.at)
      <3> TAKE k \in NodeMarks(P, n)
      <3>1. PICK e \in P : e.node = n /\ k = MarkOf(e)
        BY <1>6
      <3>2. e \in nodes /\ e.status = "active" /\ e.br = b /\ \E x \in D : e \in CurrentNodeEdges(m.view, x, m.at)
        BY <3>1, <1>1, <1>3
      <3>3. e \in CurrentNodeEdges(m.view, n, m.at)
        BY <3>1, <3>2, CurrentNodes
      <3>. QED BY <3>1, <3>2, <3>3, <1>2, <1>5 DEF NodeSeenOn
    <2>2. \A k \in NodeSeenOn(b, n, m.view, m.at) : k \in NodeMarks(P, n)
      <3> TAKE k \in NodeSeenOn(b, n, m.view, m.at)
      <3>1. k \in OfNode(n) /\ k \in Best(OfNode(n), m.view, m.at) /\ k.br = b /\ k.status = "active"
        BY DEF NodeSeenOn, Best
      <3>2. PICK e \in nodes : e.node = n /\ k = MarkOf(e)
        BY <3>1, <1>7
      <3>3. e \in P
        BY <3>1, <3>2, <1>1, <1>2, <1>5, <1>11
      <3>. QED BY <3>2, <3>3, <1>6
    <2>. QED BY <2>1, <2>2
  <1>12. n \notin D => NodeMarks(P, n) = {} /\ NodeMarks(A, n) = {}
    <2>1. \A e \in P : e.node \in D
      BY <1>1, CurrentNodes
    <2>. QED BY <2>1, <1>6, <1>8
  <1>13. n \in D => NodeMarks(A, n) = {mark(b, "deleted", m.at)}
    <2> HAVE n \in D
    <2>1. \A k \in NodeMarks(A, n) : k = mark(b, "deleted", m.at)
      BY <1>6, <1>8
    <2>2. mark(b, "deleted", m.at) \in NodeMarks(A, n)
      BY <1>6, <1>9
    <2>. QED BY <2>1, <2>2
  <1>14. (\A S : Shut(S, {}, m.at) = S) /\ NodeMarks(nodes, n) = OfNode(n)
    BY DEF Shut, OfNode
  <1>15. n \in D => NodeMarks(Stepped(nodes, P, m.at, A), n) = DroppedNode(b, n, m.view, m.at)
    BY <1>10, <1>11, <1>13, <1>14 DEF DroppedNode
  <1>16. n \notin D => NodeMarks(Stepped(nodes, P, m.at, A), n) = OfNode(n)
    BY <1>10, <1>12, <1>14
  <1>. QED BY <1>15, <1>16 DEF P, A, b

(* A node that a request has seen and its branch still shows is deleted there. *)
LEMMA DropNode ==
  ASSUME TypeOK, OneActive, Pending, Quiet, Times, Waits, NEW q \in Request, request[q] # Idle, NEW n \in Node,
         ShowsNode(request[q].view.name, n), Backdated(request[q]) = {},
         request[q].view.name = Main => OnMainSince(n, request[q].at),
         n \in Child => /\ NodeActive(request[q].view, n, request[q].at)
                        /\ \E r \in Rel : r.child = n /\ \E k \in Best(OfRel(r), request[q].view, request[q].at) : k.status = "active"
  PROVE  LET m == request[q]
             b == m.view.name
             T == DroppedNode(b, n, m.view, m.at)
         IN /\ InOrder(T)
            /\ \A k \in T : k.br # Main /\ k.status = "active" => n \in Child
            /\ ~ Shown(T, b, From(b), Now(q))
            /\ \A c \in AnyBranch : c # b => (Shown(T, c, From(c), Now(q)) <=> ShowsNode(c, n))
            /\ Echo(OfNode(n), T) /\ Echo(T, OfNode(n)) /\ T # {}
  <1> DEFINE m == request[q]
             b == m.view.name
             v == m.view
             s == m.at
             S == OfNode(n)
             X == NodeSeenOn(b, n, v, s)
             T == DroppedNode(b, n, v, s)
             d == mark(b, "deleted", s)
             u == Now(q)
  <1>1. /\ u \in Nat /\ clock <= u
        /\ \A c \in Branch : From(c) \in Nat /\ From(c) # s
        /\ s \in Nat /\ s \in Time /\ s <= u /\ v.branched_from \in Nat /\ clock \in Nat
    BY NowFacts, TimeFacts DEF TypeOK
  <1>2. b \in AnyBranch /\ (b # Main => b \in Branch)
    BY RequestBranch
  <1>3. Twin(rels) /\ NodeSound(n) /\ (\A r \in Rel : ChildFirst(r))
    BY DEF Quiet
  <1>4. S \in SUBSET MarkSet /\ InOrder(S) /\ (\A k \in S : k.br # Main /\ k.status = "active" => n \in Child)
        /\ \A k \in S : k.from <= clock
    BY <1>3, OfNodeFacts, MarksStamped DEF NodeSound
  <1>5. \A k \in S : k.from \in Nat /\ k.from # s
    <2>1. NotYet(s)
      BY DEF Waits
    <2>2. \A k \in S : \E e \in nodes : k = MarkOf(e)
      BY OfNodeFacts
    <2>3. \A e \in nodes : MarkOf(e).from = e.from /\ e.from # s
      BY <2>1, MarkOfFacts, TypeParts DEF NotYet
    <2>. QED BY <1>4, <2>2, <2>3, MarkFacts
  <1>6. Shown(S, b, From(b), clock)
    BY DEF ShowsNode
  <1>7. d \in MarkSet /\ d.br = b /\ d.status = "deleted" /\ d.from = s /\ d.to = Null
    BY <1>1, <1>2, NewMark DEF Status
  <1>8. b = Main => \A c \in Branch : From(c) < s
    BY <1>1 DEF Backdated, From
  <1>9. X \in SUBSET S /\ \A k \in X : k.br = b /\ k.status = "active"
    BY DEF NodeSeenOn, Best
  <1>10. T = Shut(S, X, s) \cup {d}
    BY DEF DroppedNode
  <1>11. b = Main => \A k \in S : k.br = Main /\ k.status = "active" => k.from < s
    <2> SUFFICES ASSUME b = Main, NEW k \in S, k.br = Main, k.status = "active" PROVE k.from < s
      OBVIOUS
    <2>1. PICK e \in nodes : e.br = Main /\ e.status = "active" /\ e.node = n /\ e.from <= s
      BY DEF OnMainSince
    <2>2. PICK f \in nodes : f.node = n /\ k = MarkOf(f)
      BY OfNodeFacts
    <2>3. f.br = Main /\ f.status = "active" /\ f.from = k.from
      BY <2>2, MarkOfFacts, TypeParts
    <2>4. e = f
      BY <2>1, <2>2, <2>3 DEF OneActive
    <2>. QED BY <2>1, <2>3, <2>4, <1>1, <1>5
  <1>12. b # Main => \A k \in S : k.br = b /\ k.status = "active" => k.from < s
    <2> SUFFICES ASSUME b # Main, NEW k \in S, k.br = b, k.status = "active" PROVE k.from < s
      OBVIOUS
    <2>1. n \in Child
      BY <1>4
    <2>2. PICK r \in Rel : r.child = n /\ \E a \in Best(OfRel(r), v, s) : a.status = "active"
      BY <2>1
    <2>3. PICK a \in Best(OfRel(r), v, s) : a.status = "active"
      BY <2>2
    <2>4. a \in OfRel(r) /\ Visible(a, v, s) /\ OfRel(r) \in SUBSET MarkSet
      BY <2>2, <1>3, OfRelFacts DEF Best
    <2>5. a.from <= s /\ (a.br = b \/ a.br = Main) /\ a.from \in Nat
      BY <2>4, <1>1, SeenSince, MarkFacts
    <2>6. ChildFirst(r)
      BY <1>3
    <2>7. CASE a.br = b
      <3>1. k.from <= a.from
        BY <2>2, <2>3, <2>4, <2>6, <2>7 DEF ChildFirst
      <3>. QED BY <3>1, <2>5, <1>1, <1>5
    <2>8. CASE a.br = Main
      <3>1. PICK g \in S : g.br = Main /\ g.status = "active" /\ g.from <= a.from
        BY <2>2, <2>3, <2>4, <2>6, <2>8 DEF ChildFirst
      <3>2. k.from < g.from
        BY <3>1, <1>4 DEF InOrder, MainFollows
      <3>. QED BY <3>1, <3>2, <2>5, <1>1, <1>5
    <2>. QED BY <2>5, <2>7, <2>8
  <1>13. b # Main => Opened(S, b) \subseteq X
    <2> SUFFICES ASSUME b # Main, NEW k \in Opened(S, b) PROVE k \in X
      OBVIOUS
    <2>1. PICK o \in Opened(S, b) : o.status = "active"
      BY <1>6 DEF Shown
    <2>2. o \in S /\ o.br = b /\ o.to = Null
      BY <2>1 DEF Opened
    <2>3. \A l \in S : l = o
      BY <2>1, <2>2, <1>4 DEF InOrder, Sole
    <2>4. n \in Child
      BY <2>1, <2>2, <1>4
    <2>5. PICK a \in Best(S, v, s) : a.status = "active"
      BY <2>4, NodeBest
    <2>6. a = o /\ k = o
      BY <2>3, <2>5 DEF Best, Opened
    <2>. QED BY <2>1, <2>2, <2>5, <2>6 DEF NodeSeenOn
  <1> HIDE DEF X, T, d
  <1>14. Closed(S, X, s, {d}, T)
    <2>1. {d} \in SUBSET MarkSet
      BY <1>7
    <2> HIDE DEF S, s
    <2>2. Closed(S, X, s, {d}, Shut(S, X, s) \cup {d})
      BY <2>1, <1>1, <1>4, <1>9, ShutFacts
    <2>. QED BY <2>2, <1>10
  <1>15. Closed(S, X, s, {mark(b, "deleted", s)}, T)
    BY <1>14 DEF d
  <1> HIDE DEF S, s, u, b, v, m
  <1>16. InOrder(T) /\ ~ Shown(T, b, From(b), u)
    <2>1. CASE b # Main
      <3>1. /\ InOrder(T)
            /\ Tracked(S) /\ (\A k \in S : k.br = b => k.from < s) => Tracked(T) /\ \A g : Agreed(T, b, g)
            /\ Opened(T, b) = {mark(b, "deleted", s)}
            /\ \A c \in Branch : c # b => Opened(T, c) = Opened(S, c)
            /\ \A c \in Branch : \A g : c # b /\ Agreed(S, c, g) /\ (MainOn(T, g) <=> MainOn(S, g)) => Agreed(T, c, g)
        <4>1. /\ b \in Branch /\ Opened(S, b) \subseteq X
              /\ \A k \in S : k.br = b /\ k.status = "active" => k.from < s
          BY <2>1, <1>2, <1>12, <1>13
        <4>. QED BY <4>1, <1>1, <1>4, <1>6, <1>9, <1>15, DropOnBranch
      <3>2. Opened(T, b) = {d}
        BY <3>1 DEF d
      <3>. QED BY <3>1, <3>2, <2>1, <1>7 DEF Shown
    <2>2. CASE b = Main
      <3>1. /\ InOrder(T)
            /\ Tracked(S) => Tracked(T)
            /\ \A c \in Branch : Opened(T, c) = Opened(S, c)
            /\ \A c \in Branch : \A g : Agreed(S, c, g) /\ (MainOn(T, g) <=> MainOn(S, g)) => Agreed(T, c, g)
            /\ \A g \in Nat : s <= g => ~ MainOn(T, g)
        <4>1. /\ (\A k \in S : k.br = Main /\ k.status = "active" => k.from < s)
              /\ (\A k \in S : k.from # s) /\ (\A k \in X : k.br = Main /\ k.status = "active")
              /\ MainOn(S, clock) /\ \A k \in S : k.from <= clock
          BY <2>2, <1>4, <1>5, <1>6, <1>9, <1>11 DEF Shown
        <4>2. Closed(S, X, s, {mark(Main, "deleted", s)}, T)
          BY <2>2, <1>15
        <4>. QED BY <4>1, <4>2, <1>1, <1>4, <1>9, DropOnMain
      <3>. QED BY <3>1, <2>2, <1>1 DEF Shown
    <2>. QED BY <2>1, <2>2
  <1>17. \A c \in AnyBranch : c # b => (Shown(T, c, From(c), u) <=> ShowsNode(c, n))
    <2> SUFFICES ASSUME NEW c \in AnyBranch, c # b PROVE Shown(T, c, From(c), u) <=> Shown(S, c, From(c), clock)
      BY DEF ShowsNode, S
    <2>0. c \in Branch \/ b # Main
      BY DEF AnyBranch
    <2>1. From(c) \in Nat \/ b # Main
      BY <2>0, <1>1
    <2>2. b = Main => \A k \in {d} : k.from > From(c)
      BY <2>0, <1>1, <1>7, <1>8
    <2>3. {d} \in SUBSET MarkSet /\ \A k \in X \cup {d} : k.br = b
      BY <1>7, <1>9
    <2>. QED BY <2>1, <2>2, <2>3, <1>1, <1>2, <1>4, <1>9, <1>14, OtherShown
  <1>18. Echo(S, T) /\ Echo(T, S) /\ T # {}
    BY <1>7, <1>9, <1>14 DEF Closed, Closes, Echo
  <1>19. \A k \in T : k.br # Main /\ k.status = "active" => n \in Child
    BY <1>4, <1>18 DEF Echo
  <1>. QED BY <1>16, <1>17, <1>18, <1>19 DEF S, T, s, u, b, v, m

(* What a delete takes. *)
ToDelete(m, seen) == {n \in ids_to_delete(m.node, seen) : n = m.node \/ NodeActive(m.view, n, m.at)}
OldRels(D, seen) == {r \in seen : r.child \in D \/ r.parent \in D}
Picked(pick, old) == UNION {{pick[r].child, pick[r].parent} : r \in old}

LEMMA PickedCovers ==
  ASSUME TypeOK, Twin(rels), \A r \in Rel : OneFrom(OfRel(r)), NEW old \in SUBSET Rel, NEW v, v.name \in AnyBranch, NEW at,
         NEW pick, \A r \in old : pick[r] \in First(r, v, at)
  PROVE  Picked(pick, old) \in SUBSET rels /\ Covers(Picked(pick, old), old, v, at)
  <1> DEFINE G == Picked(pick, old)
  <1>1. \A e : e \in G <=> \E r \in old : e = pick[r].child \/ e = pick[r].parent
    BY DEF Picked
  <1>2. ASSUME NEW r \in old PROVE \E k \in Best(OfRel(r), v, at) : PairOf(pick[r], k, r)
    <2> DEFINE p == pick[r]
    <2>1. p \in First(r, v, at)
      OBVIOUS
    <2> HIDE DEF p
    <2>2. \E k \in Best(OfRel(r), v, at) : PairOf(p, k, r)
      BY <2>1, FirstIsPair
    <2>. QED BY <2>2 DEF p
  <1> HIDE DEF G
  <1>3. ASSUME NEW e \in G PROVE e \in rels /\ e.rel \in old /\ MarkOf(e) \in Best(OfRel(e.rel), v, at)
    <2>1. PICK r \in old : e = pick[r].child \/ e = pick[r].parent
      BY <1>1, <1>3
    <2>2. PICK k \in Best(OfRel(r), v, at) : PairOf(pick[r], k, r)
      BY <1>2
    <2>. QED BY <2>1, <2>2 DEF PairOf
  <1>4. ASSUME NEW r \in old, NEW x \in End, NEW k \in Best(OfRel(r), v, at)
        PROVE  \E e \in G : e.rel = r /\ e.end = x /\ MarkOf(e) = k
    <2>1. PICK j \in Best(OfRel(r), v, at) : PairOf(pick[r], j, r)
      BY <1>2
    <2>2. j = k
      BY OfRelFacts, OneBest
    <2>3. pick[r].child \in G /\ pick[r].parent \in G
      BY <1>1
    <2>. QED BY <2>1, <2>2, <2>3 DEF PairOf, End
  <1>. QED BY <1>3, <1>4 DEF Covers, G

(* What a delete does to the graph.                                          *)
LEMMA DeleteParts ==
  ASSUME NEW q \in Request, CommitDelete(q)
  PROVE  LET m == request[q] IN
         \E seen \in Readings(m.view, m.at) : \E pick :
           LET D == ToDelete(m, seen)
               old == OldRels(D, seen)
           IN /\ dependents(m.node, seen) = {}
              /\ \A r \in old : NodeActive(m.view, r.child, m.at) /\ NodeActive(m.view, r.parent, m.at)
              /\ \A r \in old : pick[r] \in PathToClose(r, m.view, m.at)
              /\ rels' = Stepped(rels, OnBranch(Picked(pick, old), m.view.name), m.at, deleted_rels(old, m.view.name, m.at))
              /\ incidents' = incidents \cup Stale(m, Now(q)) \cup Backdated(m)
                              \cup {i \in {"misdirected"} : \E r \in old : pick[r] \notin First(r, m.view, m.at)}
              /\ nodes' = Stepped(nodes, DeletedPart(m, D), m.at, DeletedEdges(m, D))
  <1> DEFINE m == request[q]
             D(seen) == ToDelete(m, seen)
             old(seen) == OldRels(D(seen), seen)
             mine(pick, seen) == OnBranch(Picked(pick, old(seen)), m.view.name)
  <1>1. PICK seen \in Readings(m.view, m.at) :
           /\ dependents(m.node, seen) = {}
           /\ \A r \in old(seen) : NodeActive(m.view, r.child, m.at) /\ NodeActive(m.view, r.parent, m.at)
           /\ \E pick \in [old(seen) -> UNION {PathToClose(r, m.view, m.at) : r \in old(seen)}] :
                /\ \A r \in old(seen) : pick[r] \in PathToClose(r, m.view, m.at)
                /\ rels' = (rels \ mine(pick, seen)) \cup Close(mine(pick, seen), m.at) \cup deleted_rels(old(seen), m.view.name, m.at)
                /\ incidents' = incidents \cup Stale(m, Now(q)) \cup Backdated(m)
                              \cup {i \in {"misdirected"} : \E r \in old(seen) : pick[r] \notin First(r, m.view, m.at)}
           /\ nodes' = (nodes \ DeletedPart(m, D(seen))) \cup Close(DeletedPart(m, D(seen)), m.at)
                         \cup {deleted_node(n, m.view.name, m.at) : n \in D(seen)}
    BY DEF CommitDelete, ToDelete, OldRels, Picked, OnBranch, DeletedPart
  <1>. QED BY <1>1 DEF Stepped, DeletedEdges

(* A delete drops the node, the children that go with it and every           *)
(* relationship of them; the children that are left have their parents       *)
(* still.                                                                    *)
LEMMA DeleteQuiet ==
  ASSUME TypeOK, TypeOK', OneActive, Pending, QInv, NEW q \in Request, CommitDelete(q)
  PROVE  QInv'
  <1> DEFINE m == request[q]
             b == m.view.name
             v == m.view
             s == m.at
             u == Now(q)
  <1>1. Commits(q, "delete") /\ branch' = branch
    BY DEF CommitDelete
  <1>2. u \in Time /\ clock <= u /\ clock' = u /\ m # Idle /\ m.op = "delete"
    BY <1>1, CommitFacts
  <1>3. Exists(b) /\ b \in AnyBranch /\ v.name = b
    BY <1>2, RequestBranch
  <1>4. m.node \in Node /\ s \in Time
    BY <1>2, RequestFacts
  <1>5. PICK seen \in Readings(v, s) : \E pick :
           LET D == ToDelete(m, seen)
               old == OldRels(D, seen)
           IN /\ dependents(m.node, seen) = {}
              /\ \A r \in old : NodeActive(v, r.child, s) /\ NodeActive(v, r.parent, s)
              /\ \A r \in old : pick[r] \in PathToClose(r, v, s)
              /\ rels' = Stepped(rels, OnBranch(Picked(pick, old), b), s, deleted_rels(old, b, s))
              /\ incidents' = incidents \cup Stale(m, u) \cup Backdated(m)
                              \cup {i \in {"misdirected"} : \E r \in old : pick[r] \notin First(r, v, s)}
              /\ nodes' = Stepped(nodes, DeletedPart(m, D), s, DeletedEdges(m, D))
    BY DeleteParts
  <1> DEFINE D == ToDelete(m, seen)
             old == OldRels(D, seen)
  <1>6. PICK pick :
              /\ dependents(m.node, seen) = {}
              /\ \A r \in old : NodeActive(v, r.child, s) /\ NodeActive(v, r.parent, s)
              /\ \A r \in old : pick[r] \in PathToClose(r, v, s)
              /\ rels' = Stepped(rels, OnBranch(Picked(pick, old), b), s, deleted_rels(old, b, s))
              /\ incidents' = incidents \cup Stale(m, u) \cup Backdated(m)
                              \cup {i \in {"misdirected"} : \E r \in old : pick[r] \notin First(r, v, s)}
              /\ nodes' = Stepped(nodes, DeletedPart(m, D), s, DeletedEdges(m, D))
    BY <1>5
  <1> DEFINE G == Picked(pick, old)
             Z == OnBranch(G, b)
             A == deleted_rels(old, b, s)
             P == DeletedPart(m, D)
             E == DeletedEdges(m, D)
  <1>7. seen \subseteq Rel /\ old \in SUBSET Rel
    BY SeenRels DEF OldRels
  <1>8. D \in SUBSET Node /\ \A n \in D : n = m.node \/ (n \in Cascading /\ n \in Child /\ \E r \in seen : r.child = n /\ r.parent = m.node)
    <2>1. \A n \in D : n = m.node \/ (n \in Cascading /\ \E r \in seen : r.child = n /\ r.parent = m.node)
      BY DEF ToDelete, ids_to_delete, ChildrenOf
    <2>. QED BY <2>1, <1>4, CascadeAssumption DEF Node
  <1>9. Z \in SUBSET rels /\ \A e \in A : e \in RelEdge /\ e.from = s /\ e.to = Null
    <2>1. ASSUME NEW e \in G PROVE e \in rels
      <3>1. PICK r \in old : e = pick[r].child \/ e = pick[r].parent
        BY DEF Picked
      <3>2. pick[r] \in PathToClose(r, v, s)
        BY <1>6
      <3>. QED BY <3>1, <3>2, CloseablePaths, PathEdges
    <2>2. \A o \in old : \A e \in rel_edges(o, b, "deleted", s) : e \in RelEdge /\ e.from = s /\ e.to = Null
      BY <1>3, <1>4, <1>7, NewRelEdges DEF Status
    <2>. QED BY <2>1, <2>2 DEF deleted_rels, OnBranch
  <1>10. P \in SUBSET nodes /\ \A e \in E : e.from = s /\ e.to = Null
    <2>1. P \in SUBSET nodes
      BY CurrentNodes DEF DeletedPart
    <2>2. \A n \in D : deleted_node(n, b, s).from = s /\ deleted_node(n, b, s).to = Null
      BY DEF deleted_node, node_edge
    <2>. QED BY <2>1, <2>2 DEF DeletedEdges
  <1>11. nodes' = (nodes \ P) \cup Close(P, s) \cup E /\ rels' = (rels \ Z) \cup Close(Z, s) \cup A
    BY <1>6 DEF Stepped
  <1>12. Times' /\ Waits'
    <2> DEFINE U == {s, u}
    <2>1. s \in U /\ (\A e \in A : e.from \in U /\ e.to = Null) /\ (\A e \in E : e.from \in U /\ e.to = Null)
      BY <1>9, <1>10
    <2>2. rels \subseteq RelEdge /\ nodes \subseteq NodeEdge
      BY TypeParts
    <2> HIDE DEF U, A, Z, P, E
    <2>3. \A e \in (rels \ Z) \cup Close(Z, s) \cup A :
            /\ e.from \in U \/ \E d \in rels : e.from = d.from
            /\ e.to \in U \/ e.to = Null \/ \E d \in rels : e.to = d.to
      BY <2>1, <2>2, <1>4, <1>9, ClosedStamps
    <2>4. \A e \in (nodes \ P) \cup Close(P, s) \cup E :
            /\ e.from \in U \/ \E d \in nodes : e.from = d.from
            /\ e.to \in U \/ e.to = Null \/ \E d \in nodes : e.to = d.to
      BY <2>1, <2>2, <1>4, <1>10, ClosedStamps
    <2>5. \A e \in nodes' \cup rels' :
            /\ e.from \in U \/ \E d \in nodes \cup rels : e.from = d.from
            /\ e.to \in U \/ e.to = Null \/ \E d \in nodes \cup rels : e.to = d.to
      BY <2>3, <2>4, <1>11
    <2>. QED BY <2>5, <1>1, CommitTimes DEF U
  <1>13. ASSUME Quiet, Stale(m, u) = {}, Backdated(m) = {}, \A r \in old : pick[r] \in First(r, v, s) PROVE Quiet'
    <2>1. Times /\ Waits
      BY DEF QInv
    <2>2. /\ \A S \in Readings(v, s) : S \subseteq Rel /\ \A r \in Rel : r \in S <=> ShowsRel(b, r)
          /\ \A r \in Rel : ShowsRel(b, r) => \E k \in Best(OfRel(r), v, s) : k.status = "active"
          /\ m.op # "create" => ShowsNode(b, m.node)
          /\ m.op # "delete" => ShowsNode(b, m.peer)
      BY <2>1, <1>13, <1>2, <1>3, SeenNow
    <2>3. Twin(rels) /\ JoinedOn(b) /\ (\A r \in Rel : RelSound(r) /\ ChildFirst(r)) /\ (\A n \in Node : NodeSound(n))
          /\ \A c \in AnyBranch : Exists(c) => JoinedOn(c)
      BY <1>3, <1>13 DEF Quiet
    <2>4. \A r \in Rel : OneFrom(OfRel(r))
      BY <2>3 DEF RelSound, Tracked
    <2>5. \A c : From(c)' = From(c) /\ Exists(c)' = Exists(c)
      BY <1>1 DEF From, Exists
    <2>6. \A r \in Rel : r \in seen <=> ShowsRel(b, r)
      BY <2>2
    <2>7. \A r \in Rel : r \in old <=> ShowsRel(b, r) /\ (r.child \in D \/ r.parent \in D)
      BY <2>6 DEF OldRels
    <2>8. m.node \in D /\ ShowsNode(b, m.node)
      BY <2>2, <1>2 DEF ToDelete, ids_to_delete
    <2>9. \A r \in Rel : ShowsRel(b, r) /\ r.parent = m.node => r.child \in D
      <3> SUFFICES ASSUME NEW r \in Rel, ShowsRel(b, r), r.parent = m.node PROVE r.child \in D
        OBVIOUS
      <3>1. r \in seen /\ r \in old
        BY <2>6, <2>7, <2>8
      <3>2. r.child \in ChildrenOf(seen, m.node)
        BY <3>1 DEF ChildrenOf
      <3>3. r.child \in ids_to_delete(m.node, seen)
        BY <3>2, <1>6 DEF dependents
      <3>4. NodeActive(v, r.child, s)
        BY <3>1, <1>6
      <3>. QED BY <3>3, <3>4 DEF ToDelete
    <2>10. \A n \in D : ShowsNode(b, n)
      BY <2>3, <2>6, <2>8, <1>7, <1>8 DEF JoinedOn
    <2>11. ASSUME NEW n \in D, n \in Child
           PROVE  /\ NodeActive(v, n, s)
                  /\ \E r \in Rel : r.child = n /\ \E k \in Best(OfRel(r), v, s) : k.status = "active"
      <3>1. PICK r \in Rel : r.child = n /\ ShowsRel(b, r)
        BY <2>3, <2>10, <2>11 DEF JoinedOn
      <3>2. r \in old
        BY <3>1, <2>7, <2>11
      <3>. QED BY <3>1, <3>2, <2>2, <1>6
    <2>12. ASSUME NEW n \in D, b = Main PROVE OnMainSince(n, s)
      <3>1. CASE n = m.node
        BY <3>1, <2>12, <1>2 DEF Pending, WasThere
      <3>2. CASE n # m.node
        <4>1. NodeActive(v, n, s)
          BY <3>2, <1>8, <2>11
        <4>. QED BY <4>1, <2>12, <1>3, WasOnMain
      <3>. QED BY <3>1, <3>2
    <2> DEFINE Dr(r) == DroppedMarks(b, r, v, s, s)
               Dn(n) == DroppedNode(b, n, v, s)
    <2>13. \A r \in old : /\ SoundMarks(Dr(r), r.born)
                          /\ ~ Shown(Dr(r), b, From(b), u)
                          /\ \A c \in AnyBranch : c # b => (Shown(Dr(r), c, From(c), u) <=> ShowsRel(c, r))
                          /\ \A l \in Dr(r) : l.status = "active" => \E k \in OfRel(r) : l.br = k.br /\ k.status = "active" /\ l.from = k.from
                          /\ OfRel(r) # {}
      <3> TAKE r \in old
      <3>1. r \in Rel /\ ShowsRel(b, r) /\ \E k \in Best(OfRel(r), v, s) : k.status = "active"
        BY <2>2, <2>7, <1>7
      <3>2. s = Now(q) \/ (s = m.at /\ Backdated(m) = {})
        BY <1>13
      <3>. QED BY <3>1, <3>2, <2>1, <1>2, <1>4, <1>13, DropSeen
    <2>14. \A n \in D : /\ InOrder(Dn(n))
                        /\ \A k \in Dn(n) : k.br # Main /\ k.status = "active" => n \in Child
                        /\ ~ Shown(Dn(n), b, From(b), u)
                        /\ \A c \in AnyBranch : c # b => (Shown(Dn(n), c, From(c), u) <=> ShowsNode(c, n))
                        /\ Echo(OfNode(n), Dn(n)) /\ Echo(Dn(n), OfNode(n)) /\ Dn(n) # {}
      <3> TAKE n \in D
      <3>1. n \in Node /\ ShowsNode(b, n) /\ (b = Main => OnMainSince(n, s))
        BY <2>10, <2>12, <1>8
      <3>2. n \in Child => /\ NodeActive(v, n, s)
                           /\ \E r \in Rel : r.child = n /\ \E k \in Best(OfRel(r), v, s) : k.status = "active"
        BY <2>11
      <3>. QED BY <3>1, <3>2, <2>1, <1>2, <1>13, DropNode
    <2>15. \A r \in Rel, x \in End : /\ r \in old => RelMarks(rels', r, x) = Dr(r)
                                     /\ r \notin old => RelMarks(rels', r, x) = OfRel(r)
      <3> DEFINE Y == {}
      <3>0. G \in SUBSET rels /\ Covers(G, old, v, s)
        <4> HIDE DEF old
        <4>. QED BY <2>3, <2>4, <1>3, <1>7, <1>13, PickedCovers
      <3>1. rels' = Stepped(rels, OnBranch(G, b), s, deleted_rels(old, b, s) \cup Y)
        BY <1>6
      <3>2. Y \in SUBSET RelEdge /\ \A r, x : RelMarks(Y, r, x) = {}
        BY DEF RelMarks
      <3> HIDE DEF old, G, m, b, v, s, Y
      <3> TAKE r \in Rel, x \in End
      <3>3. LET R == Stepped(rels, OnBranch(G, b), s, deleted_rels(old, b, s) \cup Y) IN
            /\ r \in old => RelMarks(R, r, x) = DroppedMarks(b, r, v, s, s) \cup RelMarks(Y, r, x)
            /\ r \notin old => RelMarks(R, r, x) = OfRel(r) \cup RelMarks(Y, r, x)
        BY <2>3, <3>0, <3>2, <1>3, <1>4, <1>7, DroppedRels
      <3>. QED BY <3>1, <3>2, <3>3
    <2>16. \A n \in Node : /\ n \in D => OfNode(n)' = Dn(n)
                           /\ n \notin D => OfNode(n)' = OfNode(n)
      <3> TAKE n \in Node
      <3>1. LET W == Stepped(nodes, DeletedPart(m, D), m.at, DeletedEdges(m, D)) IN
            /\ n \in D => NodeMarks(W, n) = DroppedNode(m.view.name, n, m.view, m.at)
            /\ n \notin D => NodeMarks(W, n) = OfNode(n)
        <4> HIDE DEF D, m
        <4>. QED BY <1>3, <1>4, <1>8, DroppedNodes DEF b, s
      <3>2. OfNode(n)' = NodeMarks(nodes', n)
        BY DEF OfNode
      <3>. QED BY <3>1, <3>2, <1>6
    <2> HIDE DEF m, b, v, s, u, D, old, G, Dr, Dn, Z, A, P, E
    <2>17. (\A r \in Rel : /\ r \in old => OfRel(r)' = Dr(r)
                           /\ r \notin old => OfRel(r)' = OfRel(r)) /\ Twin(rels)'
      <3>1. \A r \in Rel : OfRel(r)' = RelMarks(rels', r, "child")
        BY DEF OfRel
      <3>2. "child" \in End /\ "parent" \in End
        BY DEF End
      <3>3. \A r \in Rel : RelMarks(rels', r, "child") = RelMarks(rels', r, "parent")
        BY <3>2, <2>15
      <3>. QED BY <3>1, <3>2, <3>3, <2>15 DEF Twin
    <2>18. \A r \in Rel : RelSound(r)'
      <3> TAKE r \in Rel
      <3>1. CASE r \in old
        BY <3>1, <2>13, <2>17, <1>1, SoundNext
      <3>2. CASE r \notin old
        BY <3>2, <2>3, <2>17, <1>1, SoundNext, SoundIs
      <3>. QED BY <3>1, <3>2
    <2>19. \A n \in Node : NodeSound(n)'
      BY <2>3, <2>14, <2>16 DEF NodeSound
    <2>20. \A r \in Rel : ChildFirst(r)'
      <3> TAKE r \in Rel
      <3>1. r.child \in Node
        BY DEF Rel, Node
      <3>2. Echo(OfRel(r), OfRel(r)') /\ (OfRel(r)' # {} => OfRel(r) # {})
        <4>1. CASE r \in old
          <5>1. OfRel(r)' = Dr(r)
            BY <4>1, <2>17
          <5>. QED BY <4>1, <5>1, <2>13 DEF Echo
        <4>2. CASE r \notin old
          <5>1. OfRel(r)' = OfRel(r)
            BY <4>2, <2>17
          <5>. QED BY <5>1 DEF Echo
        <4>. QED BY <4>1, <4>2
      <3>3. Echo(OfNode(r.child), OfNode(r.child)') /\ Echo(OfNode(r.child)', OfNode(r.child))
            /\ (OfNode(r.child) # {} => OfNode(r.child)' # {})
        <4>1. CASE r.child \in D
          <5>1. OfNode(r.child)' = Dn(r.child)
            BY <3>1, <4>1, <2>16
          <5>. QED BY <4>1, <5>1, <2>14
        <4>2. CASE r.child \notin D
          <5>1. OfNode(r.child)' = OfNode(r.child)
            BY <3>1, <4>2, <2>16
          <5>. QED BY <5>1 DEF Echo
        <4>. QED BY <4>1, <4>2
      <3>. QED BY <3>2, <3>3, <2>3, ChildKept
    <2>21. \A c \in AnyBranch, n \in Node : ShowsNode(c, n)' <=> ShowsNode(c, n) /\ (c = b => n \notin D)
      <3> TAKE c \in AnyBranch, n \in Node
      <3>1. CASE n \notin D
        BY <3>1, <2>3, <2>5, <2>16, <1>2, NodeShownSame
      <3>2. CASE n \in D
        <4>1. ShowsNode(c, n)' <=> Shown(Dn(n), c, From(c), u)
          BY <3>2, <2>5, <2>16, <1>2 DEF ShowsNode
        <4>. QED BY <3>2, <4>1, <2>14
      <3>. QED BY <3>1, <3>2
    <2>22. \A c \in AnyBranch, r \in Rel : ShowsRel(c, r)' <=> ShowsRel(c, r) /\ (c = b => r \notin old)
      <3> TAKE c \in AnyBranch, r \in Rel
      <3>1. CASE r \notin old
        BY <3>1, <2>3, <2>5, <2>17, <1>2, RelShownSame
      <3>2. CASE r \in old
        <4>1. ShowsRel(c, r)' <=> Shown(Dr(r), c, From(c), u)
          BY <3>2, <2>5, <2>17, <1>2 DEF ShowsRel
        <4>. QED BY <3>2, <4>1, <2>13
      <3>. QED BY <3>1, <3>2
    <2>23. ASSUME NEW c \in AnyBranch, Exists(c) PROVE JoinedOn(c)'
      <3>1. CASE c # b
        <4>. QED BY <3>1, <2>21, <2>22, <2>3, <2>23, JoinedSame
      <3>2. CASE c = b
        <4>1. \A r \in Rel : ShowsRel(c, r)' <=> ShowsRel(c, r) /\ r.child \notin D /\ r.parent \notin D
          BY <3>2, <2>7, <2>22
        <4>2. \A n \in Node : ShowsNode(c, n)' <=> ShowsNode(c, n) /\ n \notin D
          BY <3>2, <2>21
        <4>3. \A r \in Rel : r.child \in Node /\ r.parent \in Node /\ r.parent \in Parent
          BY DEF Rel, Node
        <4>4. JoinedOn(c)
          BY <3>2, <2>3
        <4>5. \A r \in Rel : ShowsRel(c, r)' => ShowsNode(c, r.child)' /\ ShowsNode(c, r.parent)'
          BY <4>1, <4>2, <4>3, <4>4 DEF JoinedOn
        <4>6. ASSUME NEW x \in Child, ShowsNode(c, x)' PROVE \E r \in Rel : r.child = x /\ ShowsRel(c, r)'
          <5>1. ShowsNode(c, x) /\ x \notin D
            BY <4>2, <4>6 DEF Node
          <5>2. PICK r \in Rel : r.child = x /\ ShowsRel(c, r)
            BY <5>1, <4>4 DEF JoinedOn
          <5>3. r.parent \notin D
            BY <5>1, <5>2, <4>3, <3>2, <2>9, <1>8, KindAssumption
          <5>. QED BY <5>1, <5>2, <5>3, <4>1
        <4>7. \A r, y \in Rel : ShowsRel(c, r)' /\ ShowsRel(c, y)' /\ r.child = y.child => r = y
          BY <4>1, <4>4 DEF JoinedOn
        <4>. QED BY <4>5, <4>6, <4>7 DEF JoinedOn
      <3>. QED BY <3>1, <3>2
    <2>. QED BY <2>5, <2>17, <2>18, <2>19, <2>20, <2>23 DEF Quiet
  <1>14. incidents' = {} => Quiet'
    <2> HAVE incidents' = {}
    <2>1. incidents = {} /\ Stale(m, u) = {} /\ Backdated(m) = {} /\ ~ \E r \in old : pick[r] \notin First(r, v, s)
      BY <1>6
    <2>. QED BY <2>1, <1>13 DEF QInv
  <1>. QED BY <1>12, <1>14 DEF QInv

(* Changes of a branch and of main that touch no common node fit together: *)
(* each side is connected, and a relationship with one end that the branch  *)
(* touched is the same on both.                                             *)
LEMMA JoinedMix ==
  ASSUME NEW c, NEW b, JoinedOn(b), JoinedOn(Main), NEW B,
         \A n \in Node : n \in B => (ShowsNode(c, n)' <=> ShowsNode(b, n)),
         \A n \in Node : n \notin B => (ShowsNode(c, n)' <=> ShowsNode(Main, n)),
         \A r \in Rel : r.child \in B \/ r.parent \in B => (ShowsRel(c, r)' <=> ShowsRel(b, r)),
         \A r \in Rel : r.child \notin B \/ r.parent \notin B => (ShowsRel(c, r)' <=> ShowsRel(Main, r))
  PROVE  JoinedOn(c)'
  <1>1. \A r \in Rel : r.child \in Node /\ r.parent \in Node /\ r.child \in Child
    BY DEF Rel, Node
  <1>2. ASSUME NEW r \in Rel, ShowsRel(c, r)' PROVE ShowsNode(c, r.child)' /\ ShowsNode(c, r.parent)'
    <2>1. r.child \in B \/ r.parent \in B => ShowsNode(b, r.child) /\ ShowsNode(b, r.parent)
      BY <1>2 DEF JoinedOn
    <2>2. r.child \notin B \/ r.parent \notin B => ShowsNode(Main, r.child) /\ ShowsNode(Main, r.parent)
      BY <1>2 DEF JoinedOn
    <2>. QED BY <1>1, <2>1, <2>2
  <1>3. ASSUME NEW x \in Child, ShowsNode(c, x)' PROVE \E r \in Rel : r.child = x /\ ShowsRel(c, r)'
    <2>0. x \in Node
      BY DEF Node
    <2>1. CASE x \in B
      <3>1. PICK r \in Rel : r.child = x /\ ShowsRel(b, r)
        BY <2>0, <2>1, <1>3 DEF JoinedOn
      <3>. QED BY <2>1, <3>1
    <2>2. CASE x \notin B
      <3>1. PICK r \in Rel : r.child = x /\ ShowsRel(Main, r)
        BY <2>0, <2>2, <1>3 DEF JoinedOn
      <3>. QED BY <2>2, <3>1
    <2>. QED BY <2>1, <2>2
  <1>4. ASSUME NEW r \in Rel, NEW y \in Rel, ShowsRel(c, r)', ShowsRel(c, y)', r.child = y.child PROVE r = y
    BY <1>4 DEF JoinedOn
  <1>. QED BY <1>2, <1>3, <1>4 DEF JoinedOn

(* Nothing of an item happened on main after a time. *)
LEMMA MainUntouched ==
  ASSUME NEW S \in SUBSET MarkSet, NEW f \in Nat, NEW t \in Nat, f <= t, \A k \in S : k.br = Main => k.from <= f
  PROVE  MainOn(S, t) <=> MainOn(S, f)
  <1>1. \A k \in S : k.from \in Nat
    BY MarkFacts
  <1>. QED BY <1>1 DEF MainOn

(* Where main touched nothing it shows what it showed when the branch was    *)
(* created or last moved.                                                    *)
LEMMA TouchedMarks ==
  ASSUME TypeOK, Twin(rels), NEW b \in Branch, NEW n \in Node, n \notin TouchedInMain(b)
  PROVE  /\ \A k \in OfNode(n) : k.br = Main => k.from <= From(b)
         /\ \A r \in Rel : r.child = n \/ r.parent = n => \A k \in OfRel(r) : k.br = Main => k.from <= From(b)
  <1>1. From(b) \in Nat
    BY DEF TypeOK, From
  <1>2. \A e \in nodes \cup rels : e.from \in Nat
    BY TimeAssumption DEF TypeOK, NodeEdge, RelEdge, Time
  <1>3. \A e \in nodes : e.node = n /\ e.br = Main => e.from <= From(b)
    BY <1>1, <1>2 DEF TouchedInMain, Touched, Since, From
  <1>4. \A e \in rels : (e.rel.child = n \/ e.rel.parent = n) /\ e.br = Main => e.from <= From(b)
    BY <1>1, <1>2 DEF TouchedInMain, Touched, Since, From
  <1>5. \A e \in nodes \cup rels : MarkOf(e).br = e.br /\ MarkOf(e).from = e.from
    BY MarkOfFacts, TypeParts
  <1>6. \A k \in OfNode(n) : \E e \in nodes : e.node = n /\ k = MarkOf(e)
    BY OfNodeFacts
  <1>7. \A r \in Rel : \A k \in OfRel(r) : \E e \in rels : e.rel = r /\ k = MarkOf(e)
    BY OfRelFacts DEF End
  <1>. QED BY <1>3, <1>4, <1>5, <1>6, <1>7

(* The nodes that the open edges of a branch lead to. *)
LEMMA OpenTouches ==
  ASSUME TypeOK, Twin(rels), NEW b,
         NEW B, B = Touched({e \in nodes : e.br = b /\ e.to = Null}, {e \in rels : e.br = b /\ e.to = Null})
  PROVE  /\ \A n \in Node : Opened(OfNode(n), b) # {} => n \in B
         /\ \A r \in Rel : Opened(OfRel(r), b) # {} => r.child \in B /\ r.parent \in B
  <1>1. \A e \in nodes \cup rels : MarkOf(e).br = e.br /\ MarkOf(e).to = e.to
    BY MarkOfFacts, TypeParts
  <1>2. \A n : \A k \in OfNode(n) : \E e \in nodes : e.node = n /\ k = MarkOf(e)
    BY OfNodeFacts
  <1>3. \A r \in Rel : \A k \in OfRel(r) : \E e \in rels : e.rel = r /\ k = MarkOf(e)
    BY OfRelFacts DEF End
  <1>4. \A n \in Node : Opened(OfNode(n), b) # {} => n \in B
    <2> SUFFICES ASSUME NEW n \in Node, NEW k \in Opened(OfNode(n), b) PROVE n \in B
      OBVIOUS
    <2>1. PICK e \in nodes : e.node = n /\ k = MarkOf(e)
      BY <1>2 DEF Opened
    <2>2. e.br = b /\ e.to = Null
      BY <2>1, <1>1 DEF Opened
    <2>. QED BY <2>1, <2>2 DEF Touched
  <1>5. \A r \in Rel : Opened(OfRel(r), b) # {} => r.child \in B /\ r.parent \in B
    <2> SUFFICES ASSUME NEW r \in Rel, NEW k \in Opened(OfRel(r), b) PROVE r.child \in B /\ r.parent \in B
      OBVIOUS
    <2>1. PICK e \in rels : e.rel = r /\ k = MarkOf(e)
      BY <1>3 DEF Opened
    <2>2. e.br = b /\ e.to = Null
      BY <2>1, <1>1 DEF Opened
    <2>. QED BY <2>1, <2>2 DEF Touched
  <1>. QED BY <1>4, <1>5

(* A rebase moves up the open marks of the branch: it shows what it did,     *)
(* over what main shows now.                                                 *)
LEMMA RaisedFacts ==
  ASSUME NEW S \in SUBSET MarkSet, NEW b \in Branch, NEW u \in Time, InOrder(S), NEW T, T = Raised(S, b, u)
  PROVE  /\ InOrder(T) /\ (Tracked(S) => Tracked(T))
         /\ \A c \in AnyBranch : \A f, t : Shown(T, c, f, t) <=> Shown(S, c, f, t)
         /\ \A k \in T : k.br = b => k.from = u /\ \E j \in S : j.br = b /\ j.status = k.status
         /\ \A k : k.br # b => (k \in T <=> k \in S)
         /\ \A c \in Branch : \A g : c # b /\ Agreed(S, c, g) => Agreed(T, c, g)
         /\ \A g : Agreed(T, b, g)
         /\ (\E k \in S : k.br = Main \/ k.to = Null) => T # {}
         /\ T # {} => S # {}
  <1>1. /\ T \in SUBSET MarkSet
        /\ InOrder(T)
        /\ Tracked(S) => Tracked(T)
        /\ Opened(T, b) = {[k EXCEPT !.from = u] : k \in Opened(S, b)}
        /\ \A k \in T : k.br = b => k.to = Null /\ k.from = u /\ \E j \in S : j.br = b /\ j.status = k.status
        /\ \A c \in Branch : c # b => Opened(T, c) = Opened(S, c)
        /\ \A g : MainOn(T, g) <=> MainOn(S, g)
        /\ \A c \in Branch : \A g : c # b /\ Agreed(S, c, g) => Agreed(T, c, g)
        /\ \A g : Agreed(T, b, g)
        /\ (\E k \in Opened(T, b) : k.status = "active") <=> (\E k \in Opened(S, b) : k.status = "active")
        /\ Opened(T, b) = {} <=> Opened(S, b) = {}
    BY RebaseMarks
  <1>2. ASSUME NEW c \in AnyBranch, NEW f, NEW t PROVE Shown(T, c, f, t) <=> Shown(S, c, f, t)
    <2>1. CASE c = Main
      BY <2>1, <1>1 DEF Shown
    <2>2. CASE c # Main /\ c # b
      BY <2>2, <1>1 DEF Shown, AnyBranch
    <2>3. CASE c # Main /\ c = b
      BY <2>3, <1>1 DEF Shown
    <2>. QED BY <2>1, <2>2, <2>3
  <1>3. \A k \in Opened(S, b) : [k EXCEPT !.from = u].br = b
    BY MovedMark DEF Opened
  <1>4. \A k : k.br # b => (k \in T <=> k \in S)
    BY <1>3 DEF Raised
  <1>5. (\E k \in S : k.br = Main \/ k.to = Null) => T # {}
    BY BranchAssumption DEF Raised, Opened
  <1>6. T # {} => S # {}
    BY DEF Raised, Opened
  <1>. QED BY <1>1, <1>2, <1>4, <1>5, <1>6

(* Changes of both sides fit together, unless they touch a node in common.   *)
LEMMA RebaseQuiet ==
  ASSUME TypeOK, TypeOK', Pending, Kept, QInv, NEW b \in Branch, Rebase(b)
  PROVE  QInv'
  <1> DEFINE u == clock + 1
             B == Touched({e \in nodes : e.br = b /\ e.to = Null}, {e \in rels : e.br = b /\ e.to = Null})
  <1>1. /\ clock < MaxTime /\ branch[b].open /\ clock' = u /\ request' = request
        /\ nodes' = Rebased(nodes, b, u) /\ rels' = Rebased(rels, b, u)
        /\ branch' = [branch EXCEPT ![b].branched_from = u]
        /\ incidents' = incidents \cup {i \in {"crossed"} : B \cap TouchedInMain(b) # {}}
    BY DEF Rebase
  <1>2. clock \in Nat /\ u \in Time /\ u \in Nat /\ clock < u /\ clock \in Time
    BY <1>1, NextTime, TimeFacts
  <1>3. /\ From(b)' = u /\ branch'[b].open /\ branch'[b].created_at = branch[b].created_at
        /\ \A c \in Branch : c # b => branch'[c] = branch[c] /\ From(c)' = From(c)
        /\ \A c \in AnyBranch : Exists(c)' <=> Exists(c)
    BY <1>1 DEF TypeOK, From, Exists, AnyBranch
  <1>4. \A c \in Branch : From(c) \in Nat /\ From(c) <= clock /\ branch[c].created_at \in Nat
    BY DEF QInv, Times, TypeOK, From
  <1>5. Times'
    <2> SUFFICES ASSUME NEW c \in Branch PROVE From(c)' <= clock' /\ (branch'[c].open => branch'[c].created_at <= From(c)')
      BY DEF Times
    <2>1. CASE c = b
      <3>1. branch[b].created_at <= From(b)
        BY <1>1 DEF QInv, Times
      <3>. QED BY <2>1, <3>1, <1>1, <1>2, <1>3, <1>4
    <2>2. CASE c # b
      BY <2>2, <1>1, <1>2, <1>3, <1>4 DEF QInv, Times
    <2>. QED BY <2>1, <2>2
  <1>6. nodes' = KeptOrMoved(nodes, b, u) /\ rels' = KeptOrMoved(rels, b, u)
    BY <1>1, <1>2, RebasedType, TypeParts
  <1>7. Waits'
    <2> DEFINE U == {clock + 1}
    <2>1. \A o \in Request : request'[o] # Idle => request'[o] = request[o] /\ request[o].at \notin U /\ request[o].at # Null
      BY <1>1, <1>2, RequestTimes DEF QInv
    <2>2. \A c \in Branch : From(c)' \in U \/ From(c)' = From(c)
      BY <1>3
    <2>3. ASSUME NEW e \in nodes' \cup rels'
          PROVE  /\ e.from \in U \/ \E d \in nodes \cup rels : e.from = d.from
                 /\ e.to \in U \/ e.to = Null \/ \E d \in nodes \cup rels : e.to = d.to
      <3>1. PICK d \in nodes \cup rels : e = d \/ e = [d EXCEPT !.from = u]
        BY <1>6 DEF KeptOrMoved
      <3>2. d \in NodeEdge \/ d \in RelEdge
        BY TypeParts
      <3>3. CASE e = d
        BY <3>1, <3>3
      <3>4. CASE e = [d EXCEPT !.from = u]
        <4>1. e.from = u /\ e.to = d.to
          BY <3>2, <3>4, <1>2, MovedNodeEdge, MovedRelEdge
        <4>. QED BY <4>1
      <3>. QED BY <3>1, <3>3, <3>4
    <2> HIDE DEF U
    <2>. QED BY <2>1, <2>2, <2>3, WaitsStep DEF QInv
  <1>8. ASSUME Quiet, B \cap TouchedInMain(b) = {} PROVE Quiet'
    <2>1. Twin(rels) /\ (\A r \in Rel : RelSound(r) /\ ChildFirst(r)) /\ (\A n \in Node : NodeSound(n))
          /\ \A c \in AnyBranch : Exists(c) => JoinedOn(c)
      BY <1>8 DEF Quiet
    <2>2. \A r, x : RelMarks(rels, r, x)' = Raised(RelMarks(rels, r, x), b, u)
      BY <1>2, <1>6, RebasedRelMarks, TypeParts
    <2>3. (\A r : OfRel(r)' = Raised(OfRel(r), b, u)) /\ Twin(rels)'
      BY <2>1, <2>2 DEF OfRel, Twin
    <2>4. \A n : OfNode(n)' = Raised(OfNode(n), b, u)
      <3>1. \A n : NodeMarks(KeptOrMoved(nodes, b, u), n) = Raised(NodeMarks(nodes, n), b, u)
        BY <1>2, RebasedNodeMarks, TypeParts
      <3>. QED BY <3>1, <1>6 DEF OfNode
    <2> DEFINE Good(S, T) ==
         /\ InOrder(T) /\ (Tracked(S) => Tracked(T))
         /\ \A c \in AnyBranch : \A f, t : Shown(T, c, f, t) <=> Shown(S, c, f, t)
         /\ \A k \in T : k.br = b => k.from = u /\ \E j \in S : j.br = b /\ j.status = k.status
         /\ \A k : k.br # b => (k \in T <=> k \in S)
         /\ \A c \in Branch : \A g : c # b /\ Agreed(S, c, g) => Agreed(T, c, g)
         /\ \A g : Agreed(T, b, g)
         /\ (\E k \in S : k.br = Main \/ k.to = Null) => T # {}
         /\ T # {} => S # {}
    <2>5. \A r \in Rel : Good(OfRel(r), OfRel(r)') /\ OfRel(r) \in SUBSET MarkSet /\ \A k \in OfRel(r) : k.from <= clock /\ k.from \in Nat
      <3> TAKE r \in Rel
      <3>1. OfRel(r) \in SUBSET MarkSet /\ InOrder(OfRel(r))
        BY <2>1, OfRelFacts DEF RelSound
      <3>2. Good(OfRel(r), OfRel(r)')
        BY <3>1, <2>3, <1>2, RaisedFacts
      <3>. QED BY <3>1, <3>2, <2>1, MarksStamped, MarkFacts
    <2>6. \A n \in Node : Good(OfNode(n), OfNode(n)') /\ OfNode(n) \in SUBSET MarkSet /\ \A k \in OfNode(n) : k.from <= clock /\ k.from \in Nat
      <3> TAKE n \in Node
      <3>1. OfNode(n) \in SUBSET MarkSet /\ InOrder(OfNode(n))
        BY <2>1, OfNodeFacts DEF NodeSound
      <3>2. Good(OfNode(n), OfNode(n)')
        BY <3>1, <2>4, <1>2, RaisedFacts
      <3>. QED BY <3>1, <3>2, <2>1, MarksStamped, MarkFacts
    <2>7. ASSUME NEW r \in Rel PROVE RelSound(r)'
      <3> DEFINE S == OfRel(r)
                 T == OfRel(r)'
      <3>1. InOrder(S) /\ Tracked(S) /\ (\A k \in S : r.born <= k.from) /\ BranchMarks(S) /\ MainBirths(S, r.born)
            /\ \A c \in Branch : Agreed(S, c, From(c))
        BY <2>1 DEF RelSound
      <3>2. Good(S, T) /\ \A k \in S : k.from <= clock /\ k.from \in Nat
        BY <2>5
      <3>3. r.born \in Nat
        BY TimeFacts DEF Rel
      <3> HIDE DEF S, T
      <3>4. \A k \in T : (k.br # b /\ k \in S) \/ (k.br = b /\ k.from = u /\ \E j \in S : j.br = b /\ j.status = k.status)
        BY <3>2
      <3>5. \A k \in T : r.born <= k.from
        BY <3>1, <3>2, <3>3, <3>4, <1>2
      <3>6. BranchMarks(OfRel(r))'
        <4>1. \A k \in T : k.br # Main => branch'[k.br].open /\ branch'[k.br].created_at <= k.from
          <5> SUFFICES ASSUME NEW k \in T, k.br # Main PROVE branch'[k.br].open /\ branch'[k.br].created_at <= k.from
            OBVIOUS
          <5>1. CASE k.br = b
            BY <5>1, <3>4, <1>2, <1>3, <1>4, <1>5 DEF Times
          <5>2. CASE k.br # b
            <6>1. k \in S /\ k.br \in AnyBranch
              BY <5>2, <3>4, <2>5, MarkFacts DEF S
            <6>. QED BY <5>2, <6>1, <3>1, <1>3 DEF BranchMarks, AnyBranch
          <5>. QED BY <5>1, <5>2
        <4>. QED BY <4>1 DEF BranchMarks, T
      <3>7. MainBirths(OfRel(r), r.born)'
        <4>1. ASSUME NEW k \in T, k.br = Main, k.status = "active" PROVE k.from = r.born \/ \E c \in Branch : From(c)' > k.from
          <5>1. k \in S
            BY <4>1, <3>4, BranchAssumption
          <5>2. CASE \E c \in Branch : From(c) > k.from
            <6>1. PICK c \in Branch : From(c) > k.from
              BY <5>2
            <6>2. From(c)' \in Nat /\ From(c)' >= From(c)
              BY <1>2, <1>3, <1>4
            <6>. QED BY <6>1, <6>2, <5>1, <3>2, <1>4
          <5>. QED BY <4>1, <5>1, <5>2, <3>1 DEF MainBirths
        <4>. QED BY <4>1 DEF MainBirths, T
      <3>8. \A c \in Branch : Agreed(T, c, From(c)')
        BY <3>1, <3>2, <1>3
      <3>. QED BY <3>1, <3>2, <3>5, <3>6, <3>7, <3>8 DEF RelSound, T
    <2>8. ASSUME NEW n \in Node PROVE NodeSound(n)'
      <3> DEFINE S == OfNode(n)
                 T == OfNode(n)'
      <3>1. Good(S, T) /\ \A k \in S : k.br # Main /\ k.status = "active" => n \in Child
        BY <2>1, <2>6 DEF NodeSound
      <3> HIDE DEF S, T
      <3>2. InOrder(T) /\ \A k \in T : k.br # Main /\ k.status = "active" => n \in Child
        BY <3>1, BranchAssumption
      <3>. QED BY <3>2 DEF NodeSound, T
    <2>9. \A n : OfNode(n) # {} => \E k \in OfNode(n) : k.br = Main \/ k.to = Null
      <3> SUFFICES ASSUME NEW n, NEW j \in OfNode(n) PROVE \E k \in OfNode(n) : k.br = Main \/ k.to = Null
        OBVIOUS
      <3>1. PICK e \in nodes : e.node = n
        BY OfNodeFacts
      <3>2. PICK f \in nodes : f.node = n /\ (f.br = Main \/ f.to = Null)
        BY <3>1 DEF Kept
      <3>3. MarkOf(f) \in OfNode(n) /\ MarkOf(f).br = f.br /\ MarkOf(f).to = f.to
        BY <3>2, OfNodeFacts, MarkOfFacts, TypeParts
      <3>. QED BY <3>2, <3>3
    <2>10. ASSUME NEW r \in Rel PROVE ChildFirst(r)'
      <3> DEFINE S == OfRel(r)
                 T == OfRel(r)'
                 M == OfNode(r.child)
                 N == OfNode(r.child)'
      <3>1. /\ S # {} => M # {}
            /\ \A k \in S : k.status = "active" =>
                 IF k.br = Main THEN \E g \in M : g.br = Main /\ g.status = "active" /\ g.from <= k.from
                 ELSE \A g \in M : g.br = k.br /\ g.status = "active" => g.from <= k.from
        BY <2>1 DEF ChildFirst
      <3>2. Good(S, T) /\ Good(M, N) /\ (M # {} => \E k \in M : k.br = Main \/ k.to = Null)
        BY <2>5, <2>6, <2>9 DEF Rel, Node
      <3> HIDE DEF S, T, M, N
      <3>3. (\A k \in T : k.br # b => k \in S) /\ (\A k \in N : k.br # b => k \in M) /\ (\A k \in M : k.br # b => k \in N)
            /\ (\A k \in T \cup N : k.br = b => k.from = u)
        BY <3>2
      <3>4. T # {} => N # {}
        BY <3>1, <3>2
      <3>5. ASSUME NEW k \in T, k.status = "active"
            PROVE  IF k.br = Main THEN \E g \in N : g.br = Main /\ g.status = "active" /\ g.from <= k.from
                   ELSE \A g \in N : g.br = k.br /\ g.status = "active" => g.from <= k.from
        <4>1. CASE k.br = b
          BY <4>1, <3>3, <1>2, BranchAssumption
        <4>2. CASE k.br # b
          BY <4>2, <3>1, <3>3, <3>5, BranchAssumption
        <4>. QED BY <4>1, <4>2
      <3>. QED BY <3>4, <3>5 DEF ChildFirst, T, N
    <2>11. ASSUME NEW c \in AnyBranch, NEW r \in Rel
           PROVE  ShowsRel(c, r)' <=> Shown(OfRel(r), c, From(c)', clock)
      <3>1. ShowsRel(c, r)' <=> Shown(OfRel(r)', c, From(c)', clock')
        BY DEF ShowsRel
      <3>2. Shown(OfRel(r)', c, From(c)', clock') <=> Shown(OfRel(r), c, From(c)', clock')
        BY <2>5
      <3>3. Shown(OfRel(r), c, From(c)', clock') <=> Shown(OfRel(r), c, From(c)', clock)
        BY <2>5, <1>1, <1>2, ShownSame
      <3>. QED BY <3>1, <3>2, <3>3
    <2>12. ASSUME NEW c \in AnyBranch, NEW n \in Node
           PROVE  ShowsNode(c, n)' <=> Shown(OfNode(n), c, From(c)', clock)
      <3>1. ShowsNode(c, n)' <=> Shown(OfNode(n)', c, From(c)', clock')
        BY DEF ShowsNode
      <3>2. Shown(OfNode(n)', c, From(c)', clock') <=> Shown(OfNode(n), c, From(c)', clock')
        BY <2>6
      <3>3. Shown(OfNode(n), c, From(c)', clock') <=> Shown(OfNode(n), c, From(c)', clock)
        BY <2>6, <1>1, <1>2, ShownSame
      <3>. QED BY <3>1, <3>2, <3>3
    <2> HIDE DEF Good, B
    <2>13. ASSUME NEW c \in AnyBranch, c # b, Exists(c) PROVE JoinedOn(c)'
      <3>1. \A r \in Rel : ShowsRel(c, r)' <=> ShowsRel(c, r)
        BY <2>11, <2>13, <1>3 DEF ShowsRel, Shown, AnyBranch
      <3>2. \A n \in Node : ShowsNode(c, n)' <=> ShowsNode(c, n)
        BY <2>12, <2>13, <1>3 DEF ShowsNode, Shown, AnyBranch
      <3>. QED BY <3>1, <3>2, <2>1, <2>13, JoinedSame
    <2>14. JoinedOn(b)'
      <3>0. b # Main /\ b \in AnyBranch /\ Main \in AnyBranch /\ JoinedOn(b) /\ JoinedOn(Main)
        BY <2>1, <1>1, BranchAssumption DEF AnyBranch, Exists
      <3>1. \A n \in Node : Opened(OfNode(n), b) # {} => n \in B
        BY <2>1, OpenTouches DEF B
      <3>2. \A r \in Rel : Opened(OfRel(r), b) # {} => r.child \in B /\ r.parent \in B
        BY <2>1, OpenTouches DEF B
      <3>3. \A n \in B : n \notin TouchedInMain(b)
        BY <1>8
      <3>4. \A n \in Node : Opened(OfNode(n), b) # {} => (ShowsNode(b, n)' <=> ShowsNode(b, n))
        BY <3>0, <2>12 DEF ShowsNode, Shown
      <3>5. \A n \in Node : Opened(OfNode(n), b) = {} => (ShowsNode(b, n)' <=> ShowsNode(Main, n))
        <4> SUFFICES ASSUME NEW n \in Node, Opened(OfNode(n), b) = {} PROVE ShowsNode(b, n)' <=> ShowsNode(Main, n)
          OBVIOUS
        <4>1. ShowsNode(b, n)' <=> MainOn(OfNode(n), u)
          BY <3>0, <2>12, <1>3 DEF Shown
        <4>2. MainOn(OfNode(n), u) <=> MainOn(OfNode(n), clock)
          BY <2>6, <1>2, MainLater
        <4>. QED BY <4>1, <4>2 DEF ShowsNode, Shown
      <3>6. \A r \in Rel : Opened(OfRel(r), b) # {} => (ShowsRel(b, r)' <=> ShowsRel(b, r))
        BY <3>0, <2>11 DEF ShowsRel, Shown
      <3>7. \A r \in Rel : Opened(OfRel(r), b) = {} => (ShowsRel(b, r)' <=> ShowsRel(Main, r))
        <4> SUFFICES ASSUME NEW r \in Rel, Opened(OfRel(r), b) = {} PROVE ShowsRel(b, r)' <=> ShowsRel(Main, r)
          OBVIOUS
        <4>1. ShowsRel(b, r)' <=> MainOn(OfRel(r), u)
          BY <3>0, <2>11, <1>3 DEF Shown
        <4>2. MainOn(OfRel(r), u) <=> MainOn(OfRel(r), clock)
          BY <2>5, <1>2, MainLater
        <4>. QED BY <4>1, <4>2 DEF ShowsRel, Shown
      <3>8. \A n \in Node : n \in B /\ Opened(OfNode(n), b) = {} => (ShowsNode(Main, n) <=> ShowsNode(b, n))
        <4> SUFFICES ASSUME NEW n \in Node, n \in B, Opened(OfNode(n), b) = {} PROVE ShowsNode(Main, n) <=> ShowsNode(b, n)
          OBVIOUS
        <4>1. \A k \in OfNode(n) : k.br = Main => k.from <= From(b)
          BY <3>3, <2>1, TouchedMarks
        <4>2. MainOn(OfNode(n), clock) <=> MainOn(OfNode(n), From(b))
          BY <4>1, <2>6, <1>2, <1>4, MainUntouched
        <4>. QED BY <4>2, <3>0 DEF ShowsNode, Shown
      <3>9. \A r \in Rel : (r.child \in B \/ r.parent \in B) /\ Opened(OfRel(r), b) = {} => (ShowsRel(Main, r) <=> ShowsRel(b, r))
        <4> SUFFICES ASSUME NEW r \in Rel, r.child \in B \/ r.parent \in B, Opened(OfRel(r), b) = {}
                     PROVE  ShowsRel(Main, r) <=> ShowsRel(b, r)
          OBVIOUS
        <4>0. r.child \in Node /\ r.parent \in Node
          BY DEF Rel, Node
        <4>1. \A k \in OfRel(r) : k.br = Main => k.from <= From(b)
          BY <4>0, <3>3, <2>1, TouchedMarks
        <4>2. MainOn(OfRel(r), clock) <=> MainOn(OfRel(r), From(b))
          BY <4>1, <2>5, <1>2, <1>4, MainUntouched
        <4>. QED BY <4>2, <3>0 DEF ShowsRel, Shown
      <3>10. /\ \A n \in Node : n \in B => (ShowsNode(b, n)' <=> ShowsNode(b, n))
             /\ \A n \in Node : n \notin B => (ShowsNode(b, n)' <=> ShowsNode(Main, n))
        BY <3>1, <3>4, <3>5, <3>8
      <3>11. /\ \A r \in Rel : r.child \in B \/ r.parent \in B => (ShowsRel(b, r)' <=> ShowsRel(b, r))
             /\ \A r \in Rel : r.child \notin B \/ r.parent \notin B => (ShowsRel(b, r)' <=> ShowsRel(Main, r))
        BY <3>2, <3>6, <3>7, <3>9
      <3>. QED BY <3>0, <3>10, <3>11, JoinedMix
    <2>. QED BY <2>3, <2>7, <2>8, <2>10, <2>13, <2>14, <1>3 DEF Quiet
  <1>9. incidents' = {} => Quiet'
    BY <1>1, <1>8 DEF QInv
  <1>. QED BY <1>5, <1>7, <1>9 DEF QInv

(* What a merge of branch b at s does to the marks S of an item: those that  *)
(* are left, T, are the old ones and a new one of main; other branches show  *)
(* the same, and b shows what main does.                                     *)
Follows(S, T, s) ==
  /\ \A l \in T : (l.br = Main /\ l.from = s) \/ \E k \in S : k.br = l.br /\ k.status = l.status /\ k.from = l.from
  /\ \A k \in S : \E l \in T : k.br = l.br /\ k.status = l.status /\ k.from = l.from
MergesTo(S, T, b, s) ==
  /\ InOrder(T) /\ (Tracked(S) => Tracked(T)) /\ Follows(S, T, s)
  /\ \A c \in Branch, g \in Nat : \A t, u : c # b /\ g < s => (Shown(T, c, g, u) <=> Shown(S, c, g, t))
  /\ \A c \in Branch, g \in Nat : c # b /\ g < s /\ Agreed(S, c, g) => Agreed(T, c, g)
  /\ \A g \in Nat : \A t : s <= g => (Shown(T, b, g, t) <=> MainOn(T, g))

(* Main says from s on what mark p of the branch does, and the branch agrees. *)
TakesTo(S, T, b, s, p) ==
  /\ MergesTo(S, T, b, s)
  /\ \A g \in Nat : s <= g => (MainOn(T, g) <=> p.status = "active")
  /\ \A g \in Nat : s <= g /\ Tracked(S) /\ LatestOf(S, p) => Agreed(T, b, g)
  /\ \A l \in T : l.br = Main /\ l.from = s => l.to = Null /\ l.status = p.status

(* An item that is merged and one that is not.                               *)
LEMMA TakenItem ==
  ASSUME NEW S \in SUBSET MarkSet, NEW b \in Branch, NEW s \in Time, NEW p \in S, NEW Y \in SUBSET S,
         MayMerge(S, b, s, p, Y),
         NEW X, X = {p} \cup Y, NEW N, N = {mark(Main, p.status, s)}, NEW T, Closed(S, X, s, N, T)
  PROVE  TakesTo(S, T, b, s, p)
  <1>1. /\ InOrder(T)
        /\ Tracked(S) => Tracked(T)
        /\ Opened(T, b) = {}
        /\ \A c \in Branch : c # b => Opened(T, c) = Opened(S, c)
        /\ \A c \in Branch : \A g : c # b /\ Agreed(S, c, g) /\ (MainOn(T, g) <=> MainOn(S, g)) => Agreed(T, c, g)
        /\ \A g \in Nat : s <= g => (MainOn(T, g) <=> p.status = "active")
        /\ \A g \in Nat : s <= g /\ Tracked(S) /\ LatestOf(S, p) => Agreed(T, b, g)
    <2>1. Closed(S, {p} \cup Y, s, {mark(Main, p.status, s)}, T)
      OBVIOUS
    <2>. QED BY <2>1, MergeOnMain
  <1>2. b # Main /\ \A c \in Branch : c # Main
    BY BranchAssumption
  <1> DEFINE k0 == mark(Main, p.status, s)
  <1>3. X \in SUBSET S /\ N \in SUBSET MarkSet /\ Closed(S, X, s, N, T) /\ (\A k \in N : k = k0)
        /\ k0.br = Main /\ k0.from = s /\ k0.to = Null /\ k0.status = p.status
    BY NewMark, MarkFacts DEF AnyBranch, Status
  <1>4. s \in Nat /\ \A k \in S : k.from \in Nat
    BY MarkFacts, TimeFacts
  <1>9. \A k \in S : k.from < s
    BY DEF MayMerge
  <1> HIDE DEF k0
  <1>5. \A g \in Nat : g < s => (MainOn(T, g) <=> MainOn(S, g))
    <2> SUFFICES ASSUME NEW g \in Nat, g < s PROVE MainOn(T, g) <=> MainOn(S, g)
      OBVIOUS
    <2>1. \A k \in N : k.br = Main => k.from > g
      BY <1>3, <1>4
    <2>. QED BY <2>1, <1>3, MainOnShut
  <1>6. Follows(S, T, s)
    BY <1>3 DEF Follows, Closed, Closes
  <1>7. \A c \in Branch, g \in Nat : \A t, u : c # b /\ g < s => (Shown(T, c, g, u) <=> Shown(S, c, g, t))
    BY <1>1, <1>2, <1>5 DEF Shown
  <1>8. \A g \in Nat : \A t : s <= g => (Shown(T, b, g, t) <=> MainOn(T, g))
    BY <1>1, <1>2 DEF Shown
  <1>10. ASSUME NEW l \in T, l.br = Main, l.from = s PROVE l.to = Null /\ l.status = p.status
    <2>1. l \in N \/ (l \in S /\ l \notin X) \/ \E k \in X : Closes(k, s, l)
      BY <1>3 DEF Closed
    <2>2. l \notin S
      BY <1>9, <1>10, <1>4
    <2>3. ASSUME NEW k \in X, Closes(k, s, l) PROVE FALSE
      BY <2>3, <1>9, <1>10, <1>3, <1>4 DEF Closes
    <2>. QED BY <2>1, <2>2, <2>3, <1>3
  <1>. QED BY <1>1, <1>5, <1>6, <1>7, <1>8, <1>10 DEF MergesTo, TakesTo

LEMMA KeptItem ==
  ASSUME NEW S \in SUBSET MarkSet, NEW b \in Branch, NEW s \in Time, InOrder(S), \A k \in S : k.from < s,
         NEW t0 \in Nat, t0 < s, \A k \in S : k.from <= t0,
         Opened(S, b) # {} => ~ MainOn(S, t0) /\ \A k \in Opened(S, b) : k.status = "deleted"
  PROVE  /\ MergesTo(S, S, b, s)
         /\ \A g \in Nat : s <= g => (MainOn(S, g) <=> MainOn(S, t0))
  <1>1. b # Main /\ \A c \in Branch : c # Main
    BY BranchAssumption
  <1>2. s \in Nat
    BY TimeFacts
  <1>3. \A g \in Nat : s <= g => (MainOn(S, g) <=> MainOn(S, t0))
    BY <1>2, MainLater
  <1>4. Follows(S, S, s)
    BY DEF Follows
  <1>5. \A c \in Branch, g \in Nat : \A t, u : c # b /\ g < s => (Shown(S, c, g, u) <=> Shown(S, c, g, t))
    BY <1>1 DEF Shown
  <1>6. ASSUME NEW g \in Nat, NEW t, s <= g PROVE Shown(S, b, g, t) <=> MainOn(S, g)
    <2>1. "deleted" # "active"
      OBVIOUS
    <2>. QED BY <1>1, <1>3, <1>6, <2>1 DEF Shown
  <1>. QED BY <1>3, <1>4, <1>5, <1>6 DEF MergesTo

(* What a merge takes of the relationships, the edges that it adds to main,  *)
(* and the nodes that it touches.                                            *)
MergedOf(b) == DiffRels(b, branch[b].created_at, clock + 1)
MergedRels(pick, R, at) == UNION {rel_edges(r, Main, pick[r].child.status, at) : r \in R}
Joining(b, R) == Touched(Added(b) \cup Removed(b), {e \in rels : e.rel \in R /\ e.br = b})

(* What a merge takes of the relationships, R, and along which paths. *)
MergeOf(b, same, R, pick) ==
  /\ same => R = MergedOf(b)
  /\ \A r \in R : /\ pick[r].child.rel = r
                  /\ \E x \in R : pick[r] \in DiffPaths(x, b, branch[b].created_at, clock + 1)
  /\ rels' = Stepped(rels, Picked(pick, R), clock + 1, MergedRels(pick, R, clock + 1))
  /\ incidents' = incidents \cup {i \in {"crossed"} : ~ same \/ Joining(b, R) \cap TouchedInMain(b) # {}}

LEMMA MergeParts ==
  ASSUME NEW b \in Branch, NEW resolved, NEW keep, Merge(b, resolved, keep)
  PROVE  \E R \in SUBSET MergedOf(b) : \E pick : MergeOf(b, resolved = keep, R, pick)
  <1> DEFINE R == {r \in MergedOf(b) : r.child \notin resolved \/ r.child \in keep}
  <1>1. R \in SUBSET MergedOf(b) /\ (resolved = keep => R = MergedOf(b))
    OBVIOUS
  <1>2. incidents' = incidents \cup {i \in {"crossed"} : resolved # keep \/ Joining(b, R) \cap TouchedInMain(b) # {}}
    BY DEF Merge, MergedOf, Joining, Added, Removed
  <1>3. PICK pick \in [R -> UNION {DiffPaths(r, b, branch[b].created_at, clock + 1) : r \in R}] :
          /\ \A r \in R : pick[r].child.rel = r
          /\ rels' = Stepped(rels, Picked(pick, R), clock + 1, MergedRels(pick, R, clock + 1))
    BY DEF Merge, MergedOf, Stepped, Picked, MergedRels
  <1> HIDE DEF R
  <1>4. \A r \in R : /\ pick[r].child.rel = r
                     /\ \E x \in R : pick[r] \in DiffPaths(x, b, branch[b].created_at, clock + 1)
    BY <1>3
  <1>. QED BY <1>1, <1>2, <1>3, <1>4 DEF MergeOf

(* The path of a relationship that a merge takes: its edges carry the latest *)
(* mark of the branch.                                                       *)
Takes(p, r, b) ==
  /\ p.child \in rels /\ p.child.rel = r /\ p.child.end = "child"
  /\ p.parent \in rels /\ p.parent.rel = r /\ p.parent.end = "parent"
  /\ MarkOf(p.parent) = MarkOf(p.child) /\ MarkOf(p.child) \in OfRel(r)
  /\ MarkOf(p.child).br = b /\ LatestOf(OfRel(r), MarkOf(p.child))
  /\ p.child.status = MarkOf(p.child).status /\ p.child.status \in Status

LEMMA OtherEnd ==
  ASSUME NEW e \in RelEdge
  PROVE  LET f == [e EXCEPT !.end = "parent"] IN
         f \in RelEdge /\ f.rel = e.rel /\ f.end = "parent" /\ MarkOf(f) = MarkOf(e)
  <1> DEFINE f == [e EXCEPT !.end = "parent"]
  <1>1. f = [rel |-> e.rel, end |-> "parent", br |-> e.br, status |-> e.status, from |-> e.from, to |-> e.to]
    BY DEF RelEdge
  <1>2. f \in RelEdge /\ f.rel = e.rel /\ f.end = "parent" /\ f.br = e.br /\ f.status = e.status /\ f.from = e.from /\ f.to = e.to
    BY <1>1 DEF RelEdge, End
  <1>. QED BY <1>2 DEF MarkOf

(* The diff of a branch has the relationships that the branch has marks of.  *)
LEMMA DiffMarks ==
  ASSUME TypeOK, Twin(rels), NEW r \in Rel, RelSound(r), NEW b \in Branch
  PROVE  /\ r \in MergedOf(b) <=> \E k \in OfRel(r) : k.br = b
         /\ \A p \in DiffPaths(r, b, branch[b].created_at, clock + 1) : Takes(p, r, b)
  <1> DEFINE start == branch[b].created_at
             t == clock + 1
             D == {p \in [child : {e \in rels : e.end = "child"}, parent : {e \in rels : e.end = "parent"}] :
                     /\ p.child.rel = r /\ p.parent = [p.child EXCEPT !.end = "parent"]
                     /\ p.child.br = b /\ p.child.from >= start /\ p.child.from <= t
                     /\ (p.child.to = Null \/ (p.child.to >= start /\ p.child.to <= t))}
  <1>0. clock \in Nat /\ t \in Nat /\ start \in Nat /\ clock <= t
    BY TimeAssumption DEF TypeOK, Time
  <1>1. DiffPaths(r, b, start, t) = {p \in D : \A o \in D : o.child.from <= p.child.from}
    BY DEF DiffPaths
  <1>2. rels \subseteq RelEdge /\ \A e \in rels : e \in RelEdge /\ e.from \in Nat /\ e.to \in Nat /\ e.from <= clock /\ e.to <= clock
                                                  /\ (e.to = Null \/ e.from <= e.to) /\ e.status \in Status
    BY TimeAssumption DEF TypeOK, RelEdge, Time, Null
  <1>3. \A e \in rels : MarkOf(e).br = e.br /\ MarkOf(e).from = e.from /\ MarkOf(e).to = e.to /\ MarkOf(e).status = e.status
    BY <1>2, MarkOfFacts
  <1>4. ASSUME NEW p \in D
        PROVE  /\ p.child \in rels /\ p.child.rel = r /\ p.child.end = "child" /\ p.child.br = b
               /\ p.parent \in rels /\ p.parent.end = "parent" /\ p.parent.rel = r /\ MarkOf(p.parent) = MarkOf(p.child)
               /\ MarkOf(p.child) \in OfRel(r) /\ MarkOf(p.child).br = b
               /\ p.child.status = MarkOf(p.child).status /\ p.child.status \in Status
               /\ MarkOf(p.child).from = p.child.from
    <2>1. /\ p.child \in rels /\ p.child.end = "child" /\ p.child.rel = r /\ p.child.br = b
          /\ p.parent \in rels /\ p.parent.end = "parent" /\ p.parent = [p.child EXCEPT !.end = "parent"]
      OBVIOUS
    <2>2. p.parent.rel = r /\ MarkOf(p.parent) = MarkOf(p.child)
      BY <2>1, <1>2, OtherEnd
    <2>3. MarkOf(p.child) \in OfRel(r)
      BY <2>1, OfRelFacts
    <2>. QED BY <2>1, <2>2, <2>3, <1>2, <1>3
  <1>5. ASSUME NEW k \in OfRel(r), k.br = b
        PROVE  \E p \in D : MarkOf(p.child) = k
    <2>1. PICK e \in rels : e.rel = r /\ e.end = "child" /\ k = MarkOf(e)
      BY OfRelFacts DEF End
    <2>2. PICK f \in rels : f.rel = r /\ f.end = "parent" /\ k = MarkOf(f)
      BY OfRelFacts DEF End
    <2>3. f = [e EXCEPT !.end = "parent"]
      BY <2>1, <2>2, <1>2, OtherEnd, SameRelEdge
    <2>4. e.br = b /\ e.from >= start
      BY <2>1, <1>2, <1>3, <1>5, BranchAssumption DEF RelSound, BranchMarks
    <2>5. e.from <= t /\ (e.to = Null \/ (e.to >= start /\ e.to <= t))
      BY <2>1, <2>4, <1>0, <1>2
    <2> DEFINE p == [child |-> e, parent |-> f]
    <2>6. p.child = e /\ p.parent = f /\ p \in [child : {x \in rels : x.end = "child"}, parent : {x \in rels : x.end = "parent"}]
      BY <2>1, <2>2
    <2> HIDE DEF p
    <2>7. p \in D
      BY <2>1, <2>3, <2>4, <2>5, <2>6
    <2>. QED BY <2>1, <2>6, <2>7
  <1> HIDE DEF D
  <1>6. ASSUME NEW p \in DiffPaths(r, b, start, t) PROVE Takes(p, r, b)
    <2>1. p \in D /\ \A o \in D : o.child.from <= p.child.from
      BY <1>1, <1>6
    <2>2. LatestOf(OfRel(r), MarkOf(p.child))
      <3> SUFFICES ASSUME NEW l \in OfRel(r), l.br = b PROVE l.from <= MarkOf(p.child).from
        BY <2>1, <1>4 DEF LatestOf
      <3>1. PICK o \in D : MarkOf(o.child) = l
        BY <1>5
      <3>. QED BY <3>1, <2>1, <1>4
    <2>. QED BY <2>1, <2>2, <1>4 DEF Takes
  <1>7. ASSUME NEW f \in OfRel(r), f.br = b PROVE r \in MergedOf(b)
    <2>0. OfRel(r) \in SUBSET MarkSet
      BY OfRelFacts
    <2>1. PICK k \in OfRel(r) : k.br = f.br /\ LatestOf(OfRel(r), k)
      BY <2>0, LatestExists
    <2>2. PICK p \in D : MarkOf(p.child) = k
      BY <2>1, <1>5, <1>7
    <2>3. \A o \in D : o.child.from <= p.child.from
      BY <2>1, <2>2, <1>4, <1>7 DEF LatestOf
    <2>4. p \in DiffPaths(r, b, start, t)
      BY <1>1, <2>2, <2>3
    <2>5. r \in Known
      BY <2>2, <1>4 DEF Known
    <2>. QED BY <2>4, <2>5 DEF MergedOf, DiffRels
  <1>8. ASSUME r \in MergedOf(b) PROVE \E k \in OfRel(r) : k.br = b
    <2>1. PICK p : p \in DiffPaths(r, b, start, t)
      BY <1>8 DEF MergedOf, DiffRels
    <2>. QED BY <2>1, <1>6 DEF Takes
  <1>. QED BY <1>6, <1>7, <1>8

(* The marks of a relationship that a merge takes over to main. *)
TakenRel(p, r, at) == Shut(OfRel(r), {MarkOf(p.child)}, at) \cup {mark(Main, p.child.status, at)}

(* The marks that a merge leaves of a relationship.                          *)
LEMMA MergedRelMarks ==
  ASSUME TypeOK, Twin(rels), NEW b, NEW R \in SUBSET Rel, NEW pick, \A o \in R : Takes(pick[o], o, b),
         NEW at \in Time, NEW r \in Rel, NEW x \in End,
         NEW E, E = Stepped(rels, Picked(pick, R), at, MergedRels(pick, R, at))
  PROVE  /\ r \in R => RelMarks(E, r, x) = TakenRel(pick[r], r, at)
         /\ r \notin R => RelMarks(E, r, x) = OfRel(r)
  <1> DEFINE Z == Picked(pick, R)
             N == MergedRels(pick, R, at)
  <1>0. E = Stepped(rels, Z, at, N)
    OBVIOUS
  <1>1. \A F, k : k \in RelMarks(F, r, x) <=> \E e \in F : e.rel = r /\ e.end = x /\ k = MarkOf(e)
    BY DEF RelMarks
  <1>2. RelMarks(rels, r, x) = OfRel(r)
    BY DEF OfRel, Twin, End
  <1>3. Main \in AnyBranch /\ \A o \in R : o \in Rel /\ pick[o].child.status \in Status
    BY DEF AnyBranch, Takes
  <1>4. rels \in SUBSET RelEdge
    BY TypeParts
  <1>5. Z \in SUBSET rels
    BY DEF Picked, Takes
  <1>6. N \in SUBSET RelEdge
    BY <1>3, NewRelEdges DEF MergedRels
  <1>7. RelMarks(E, r, x) = Shut(OfRel(r), RelMarks(Z, r, x), at) \cup RelMarks(N, r, x)
    <2> HIDE DEF Z, N
    <2>. QED BY <1>0, <1>2, <1>4, <1>5, <1>6, SteppedMarks
  <1>8. \A e : e \in Z <=> \E o \in R : e = pick[o].child \/ e = pick[o].parent
    BY DEF Picked
  <1>9. \A e : e \in N <=> \E o \in R : e \in rel_edges(o, Main, pick[o].child.status, at)
    BY DEF MergedRels
  <1>10. \A o \in R : RelMarks(rel_edges(o, Main, pick[o].child.status, at), r, x) = IF r = o THEN {mark(Main, pick[o].child.status, at)} ELSE {}
    BY <1>3, NewRelMarks
  <1>11. \A k : k \in RelMarks(N, r, x) <=> \E o \in R : k \in RelMarks(rel_edges(o, Main, pick[o].child.status, at), r, x)
    <2> HIDE DEF N
    <2>. QED BY <1>1, <1>9
  <1> HIDE DEF Z, N
  <1>12. r \in R => RelMarks(N, r, x) = {mark(Main, pick[r].child.status, at)}
    BY <1>10, <1>11
  <1>13. r \notin R => RelMarks(N, r, x) = {}
    BY <1>10, <1>11
  <1>14. \A o \in R : /\ pick[o].child.rel = o /\ pick[o].parent.rel = o /\ MarkOf(pick[o].parent) = MarkOf(pick[o].child)
                      /\ pick[o].child.end = "child" /\ pick[o].parent.end = "parent"
    BY DEF Takes
  <1>15. r \in R => RelMarks(Z, r, x) = {MarkOf(pick[r].child)}
    <2> SUFFICES ASSUME r \in R PROVE \A k : k \in RelMarks(Z, r, x) <=> k = MarkOf(pick[r].child)
      OBVIOUS
    <2>1. x = "child" \/ x = "parent"
      BY DEF End
    <2>. QED BY <2>1, <1>1, <1>8, <1>14
  <1>16. r \notin R => RelMarks(Z, r, x) = {}
    BY <1>1, <1>8, <1>14
  <1>17. \A S0 : Shut(S0, {}, at) \cup {} = S0
    BY DEF Shut
  <1>18. r \in R => RelMarks(E, r, x) = Shut(OfRel(r), {MarkOf(pick[r].child)}, at) \cup {mark(Main, pick[r].child.status, at)}
    BY <1>7, <1>12, <1>15
  <1>19. r \notin R => RelMarks(E, r, x) = OfRel(r)
    BY <1>7, <1>13, <1>16, <1>17
  <1>. QED BY <1>18, <1>19 DEF TakenRel

(* A merge takes the open edges of the branch, deletions only of what main   *)
(* shows.                                                                    *)
LEMMA TakenEdges ==
  ASSUME TypeOK, SinceCreation, Quiet, Times, NEW b \in Branch
  PROVE  /\ \A e : e \in Added(b) <=> e \in nodes /\ e.br = b /\ e.to = Null /\ e.status = "active"
         /\ \A e : e \in Removed(b) <=> e \in nodes /\ e.br = b /\ e.to = Null /\ e.status = "deleted" /\ ShowsNode(Main, e.node)
         /\ \A e : e \in Origin(b) <=> /\ e \in nodes /\ e.status = "active"
                                       /\ MarkOf(e) \in Best(OfNode(e.node), View(Main), clock + 1)
                                       /\ \E d \in Removed(b) : d.node = e.node
  <1>0. clock \in Nat /\ clock + 1 \in Nat /\ ~ (clock + 1 <= clock) /\ b # Main /\ branch[b].created_at \in Nat /\ Null = 0
    BY TimeAssumption, BranchAssumption DEF TypeOK, Time, Null
  <1>1. \A e \in nodes : /\ e.from \in Nat /\ e.to \in Nat /\ e.from <= clock /\ e.to <= clock /\ e.node \in Node
                         /\ e.br = b => branch[b].created_at <= e.from
    BY <1>0, TimeAssumption DEF TypeOK, NodeEdge, Time, Null, SinceCreation
  <1>2. \A e : e \in DiffNodes(b, clock + 1) <=> e \in nodes /\ e.br = b /\ e.to = Null
    BY <1>0, <1>1 DEF DiffNodes
  <1>3. \A n \in Node : NodeActive(View(Main), n, clock + 1) <=> ShowsNode(Main, n)
    <2>1. clock + 1 \in Nat /\ clock <= clock + 1 /\ Stamped(clock + 1) /\ Main \in AnyBranch
      BY NextStamped DEF AnyBranch
    <2>. QED BY <2>1, ReadsNow
  <1>4. \A e : e \in Added(b) <=> e \in nodes /\ e.br = b /\ e.to = Null /\ e.status = "active"
    BY <1>2 DEF Added
  <1>5. \A e : e \in Removed(b) <=> e \in nodes /\ e.br = b /\ e.to = Null /\ e.status = "deleted" /\ ShowsNode(Main, e.node)
    BY <1>1, <1>2, <1>3 DEF Removed
  <1>6. ASSUME NEW e, e \in Origin(b)
        PROVE  /\ e \in nodes /\ e.status = "active"
               /\ MarkOf(e) \in Best(OfNode(e.node), View(Main), clock + 1)
               /\ \E d \in Removed(b) : d.node = e.node
    <2>1. PICK d \in Removed(b) : e \in CurrentNodeEdges(View(Main), d.node, clock + 1)
      BY <1>6 DEF Origin
    <2>2. e \in nodes /\ e.node = d.node
      BY <2>1, CurrentNodes
    <2>3. MarkOf(e) \in Best(OfNode(e.node), View(Main), clock + 1)
      BY <2>1, <2>2, NodeBest
    <2>. QED BY <1>6, <2>1, <2>2, <2>3 DEF Origin
  <1>7. ASSUME NEW e \in nodes, e.status = "active", MarkOf(e) \in Best(OfNode(e.node), View(Main), clock + 1),
               NEW d \in Removed(b), d.node = e.node
        PROVE  e \in Origin(b)
    <2>1. e \in CurrentNodeEdges(View(Main), d.node, clock + 1)
      BY <1>7, NodeBest
    <2>. QED BY <1>7, <2>1 DEF Origin
  <1>. QED BY <1>4, <1>5, <1>6, <1>7

(* The mark of a node that a merge takes over to main, if any. *)
TakenMark(n, b) == {p \in Opened(OfNode(n), b) : p.status = "active" \/ ShowsNode(Main, n)}
OnMain(n, p) == {k \in Best(OfNode(n), View(Main), clock + 1) : k.status = "active" /\ p.status = "deleted"}

(* The marks that a merge leaves of a node.                                  *)
LEMMA MergedNodeMarks ==
  ASSUME TypeOK, SinceCreation, Quiet, Times, NEW b \in Branch, clock + 1 < MaxTime, NEW n \in Node
  PROVE  LET T == NodeMarks(Stepped(nodes, Closing(b), clock + 1, NewOnMain(b)), n) IN
         /\ \A p \in TakenMark(n, b) :
              /\ T = Shut(OfNode(n), {p} \cup OnMain(n, p), clock + 1) \cup {mark(Main, p.status, clock + 1)}
              /\ \E e \in Added(b) \cup Removed(b) : e.node = n
         /\ TakenMark(n, b) = {} => T = OfNode(n)
  <1> DEFINE s == clock + 1
             C == Closing(b)
             N == NewOnMain(b)
             S == OfNode(n)
             W == Stepped(nodes, C, s, N)
  <1>0. s \in Time
    BY MergeTimes
  <1>1. /\ \A e : e \in Added(b) <=> e \in nodes /\ e.br = b /\ e.to = Null /\ e.status = "active"
        /\ \A e : e \in Removed(b) <=> e \in nodes /\ e.br = b /\ e.to = Null /\ e.status = "deleted" /\ ShowsNode(Main, e.node)
        /\ \A e : e \in Origin(b) <=> /\ e \in nodes /\ e.status = "active"
                                      /\ MarkOf(e) \in Best(OfNode(e.node), View(Main), s)
                                      /\ \E d \in Removed(b) : d.node = e.node
    BY TakenEdges
  <1>2. \A e \in nodes : e \in NodeEdge /\ MarkOf(e).br = e.br /\ MarkOf(e).status = e.status /\ MarkOf(e).to = e.to
                         /\ (e.status = "active" \/ e.status = "deleted")
    BY MarkOfFacts, TypeParts DEF NodeEdge, Status
  <1>3. C \in SUBSET nodes /\ N \in SUBSET NodeEdge /\ nodes \in SUBSET NodeEdge
    BY ClosingFacts, NewOnMainFacts, TypeParts
  <1>4. NodeMarks(W, n) = Shut(S, NodeMarks(C, n), s) \cup NodeMarks(N, n)
    <2>1. NodeMarks(Stepped(nodes, C, s, N), n) = Shut(NodeMarks(nodes, n), NodeMarks(C, n), s) \cup NodeMarks(N, n)
      <3> HIDE DEF C, N, s
      <3>. QED BY <1>0, <1>3, SteppedMarks
    <2>. QED BY <2>1 DEF OfNode
  <1>5. \A F, k : k \in NodeMarks(F, n) <=> \E e \in F : e.node = n /\ k = MarkOf(e)
    BY DEF NodeMarks
  <1>6. \A e : e \in C <=> e \in Added(b) \/ e \in Removed(b) \/ e \in Origin(b)
    BY DEF Closing
  <1>7. \A k : k \in NodeMarks(N, n) <=> \/ k = mark(Main, "active", s) /\ \E e \in Added(b) : e.node = n
                                         \/ k = mark(Main, "deleted", s) /\ \E e \in Removed(b) : e.node = n
    <2>1. \A e : e \in N <=> \/ \E d \in Added(b) : e = node_edge(d.node, Main, "active", s)
                             \/ \E d \in Removed(b) : e = node_edge(d.node, Main, "deleted", s)
      BY DEF NewOnMain
    <2>2. \A m, st : node_edge(m, Main, st, s).node = m /\ MarkOf(node_edge(m, Main, st, s)) = mark(Main, st, s)
      BY NewNodeMark
    <2> HIDE DEF N, s
    <2>. QED BY <2>1, <2>2, <1>5
  <1>8. /\ S \in SUBSET MarkSet
        /\ \A e \in nodes : e.node = n => MarkOf(e) \in S
        /\ \A k \in S : \E e \in nodes : e.node = n /\ k = MarkOf(e)
    BY OfNodeFacts
  <1>9. InOrder(S)
    BY DEF Quiet, NodeSound
  <1>10. \A k, l \in S : k.br = b /\ l.br = b /\ k.to = Null /\ l.to = Null => k = l
    BY <1>9, BranchAssumption DEF InOrder, OneOpened
  <1> HIDE DEF C, N, s, S, W
  <1>11. ASSUME NEW p \in TakenMark(n, b)
         PROVE  /\ NodeMarks(W, n) = Shut(S, {p} \cup OnMain(n, p), s) \cup {mark(Main, p.status, s)}
                /\ \E e \in Added(b) \cup Removed(b) : e.node = n
    <2>1. p \in S /\ p.br = b /\ p.to = Null /\ (p.status = "active" \/ ShowsNode(Main, n)) /\ p \in MarkSet
      BY <1>8 DEF TakenMark, Opened, S
    <2>2. PICK e0 \in nodes : e0.node = n /\ p = MarkOf(e0)
      BY <2>1, <1>8
    <2>3. e0.br = b /\ e0.to = Null /\ e0.status = p.status
      BY <2>1, <2>2, <1>2
    <2>4. p.status = "active" => e0 \in Added(b)
      BY <2>2, <2>3, <1>1
    <2>5. p.status = "deleted" => e0 \in Removed(b)
      BY <2>1, <2>2, <2>3, <1>1
    <2>6. p.status = "active" \/ p.status = "deleted"
      BY <2>1, MarkFacts
    <2>7. \A e \in Added(b) \cup Removed(b) : e.node = n => MarkOf(e) = p /\ e.status = p.status
      BY <1>1, <1>2, <1>8, <1>10, <2>1
    <2>8. NodeMarks(N, n) = {mark(Main, p.status, s)}
      <3>1. p.status = "active" => \A e \in Removed(b) : e.node # n
        BY <2>7, <1>1
      <3>2. p.status = "deleted" => \A e \in Added(b) : e.node # n
        BY <2>7, <1>1
      <3>. QED BY <3>1, <3>2, <2>2, <2>4, <2>5, <2>6, <1>7
    <2>9. ASSUME NEW k PROVE k \in NodeMarks(C, n) <=> k \in {p} \cup OnMain(n, p)
      <3>1. ASSUME NEW e \in C, e.node = n, k = MarkOf(e) PROVE k \in {p} \cup OnMain(n, p)
        <4>1. CASE e \in Added(b) \cup Removed(b)
          BY <4>1, <3>1, <2>7
        <4>2. CASE e \in Origin(b)
          <5>1. PICK d \in Removed(b) : d.node = n
            BY <4>2, <3>1, <1>1
          <5>2. p.status = "deleted"
            BY <5>1, <2>7, <1>1
          <5>. QED BY <5>2, <4>2, <3>1, <1>1, <1>2 DEF OnMain, s
        <4>. QED BY <3>1, <4>1, <4>2, <1>6
      <3>2. p \in NodeMarks(C, n)
        BY <2>2, <2>4, <2>5, <2>6, <1>5, <1>6
      <3>3. ASSUME NEW j \in OnMain(n, p) PROVE j \in NodeMarks(C, n)
        <4>1. j \in S /\ j \in Best(OfNode(n), View(Main), s) /\ j.status = "active" /\ p.status = "deleted"
          BY DEF OnMain, Best, S, s
        <4>2. PICK e \in nodes : e.node = n /\ j = MarkOf(e)
          BY <4>1, <1>8
        <4>3. e \in Origin(b)
          BY <4>1, <4>2, <2>2, <2>5, <1>1, <1>2
        <4>. QED BY <4>2, <4>3, <1>5, <1>6
      <3>. QED BY <3>1, <3>2, <3>3, <1>5
    <2>10. NodeMarks(C, n) = {p} \cup OnMain(n, p)
      BY <2>9
    <2>. QED BY <1>4, <2>2, <2>4, <2>5, <2>6, <2>8, <2>10
  <1>12. ASSUME TakenMark(n, b) = {} PROVE NodeMarks(W, n) = S
    <2>1. \A e \in Added(b) \cup Removed(b) : e.node # n
      <3> SUFFICES ASSUME NEW e \in Added(b) \cup Removed(b), e.node = n PROVE FALSE
        OBVIOUS
      <3>1. MarkOf(e) \in S /\ MarkOf(e).br = b /\ MarkOf(e).to = Null /\ (MarkOf(e).status = "active" \/ ShowsNode(Main, n))
        BY <1>1, <1>2, <1>8
      <3>. QED BY <3>1, <1>12 DEF TakenMark, Opened, S
    <2>2. NodeMarks(N, n) = {}
      BY <2>1, <1>7
    <2>3. NodeMarks(C, n) = {}
      BY <2>1, <1>1, <1>5, <1>6
    <2>4. \A S0 : Shut(S0, {}, s) \cup {} = S0
      BY DEF Shut
    <2>. QED BY <1>4, <2>2, <2>3, <2>4
  <1>. QED BY <1>11, <1>12 DEF W, C, N, s, S

(* Main shows of a merged node, and of a merged relationship, what the       *)
(* branch showed.                                                            *)
LEMMA MergedNode ==
  ASSUME TypeOK, SinceCreation, Quiet, Times, NEW b \in Branch, clock + 1 < MaxTime, NEW n \in Node, NEW T,
         T = NodeMarks(Stepped(nodes, Closing(b), clock + 1, NewOnMain(b)), n)
  PROVE  /\ MergesTo(OfNode(n), T, b, clock + 1)
         /\ TakenMark(n, b) # {} => /\ \A g \in Nat : clock + 1 <= g => (MainOn(T, g) <=> ShowsNode(b, n))
                                    /\ \E e \in Added(b) \cup Removed(b) : e.node = n
         /\ TakenMark(n, b) = {} => /\ \A g \in Nat : clock + 1 <= g => (MainOn(T, g) <=> ShowsNode(Main, n))
                                    /\ Opened(OfNode(n), b) # {} => ~ ShowsNode(b, n) /\ ~ ShowsNode(Main, n)
  <1> DEFINE S == OfNode(n)
             s == clock + 1
  <1>0. b # Main /\ clock \in Nat /\ s \in Nat /\ s \in Time /\ clock < s
    <2>1. clock \in Nat /\ s \in Time
      BY MergeTimes, TimeFacts
    <2>. QED BY <2>1, BranchAssumption
  <1>1. /\ S \in SUBSET MarkSet /\ InOrder(S) /\ Twin(rels)
        /\ \A k \in S : k.from < s /\ k.from <= clock /\ k.from \in Nat
    <2>1. Twin(rels) /\ InOrder(S)
      BY DEF Quiet, NodeSound
    <2>2. S \in SUBSET MarkSet
      BY OfNodeFacts
    <2>3. \A k \in S : k.from <= clock
      BY <2>1, MarksStamped
    <2>4. \A k \in S : k.from \in Nat
      BY <2>2, MarkFacts
    <2> HIDE DEF S
    <2>. QED BY <2>1, <2>2, <2>3, <2>4, <1>0
  <1>2. /\ \A p \in TakenMark(n, b) :
             /\ T = Shut(S, {p} \cup OnMain(n, p), s) \cup {mark(Main, p.status, s)}
             /\ \E e \in Added(b) \cup Removed(b) : e.node = n
        /\ TakenMark(n, b) = {} => T = S
    BY MergedNodeMarks
  <1>3. /\ \A f, t : Shown(S, b, f, t) <=> (\E k \in Opened(S, b) : k.status = "active") \/ (Opened(S, b) = {} /\ MainOn(S, f))
        /\ ShowsNode(b, n) <=> Shown(S, b, From(b), clock)
        /\ ShowsNode(Main, n) <=> MainOn(S, clock)
    BY <1>0 DEF Shown, ShowsNode
  <1>4. \A p : p \in TakenMark(n, b) <=> p \in Opened(S, b) /\ (p.status = "active" \/ ShowsNode(Main, n))
    BY DEF TakenMark
  <1>5. \A k \in Opened(S, b) : k \in S /\ k.br = b /\ k.to = Null /\ (k.status = "active" \/ k.status = "deleted")
    BY <1>1, MarkFacts DEF Opened
  <1>6. \A k, l \in Opened(S, b) : k = l
    BY <1>0, <1>1, <1>5 DEF InOrder, OneOpened
  <1>14. ASSUME NEW p, NEW k \in OnMain(n, p)
        PROVE  k \in S /\ k.br = Main /\ k.status = "active" /\ p.status = "deleted" /\ MainOn(S, s)
    <2>1. k \in S /\ Visible(k, View(Main), s) /\ k.status = "active" /\ p.status = "deleted"
          /\ k \in Best(S, View(Main), s)
      BY DEF OnMain, Best
    <2>2. k.br = Main
      BY <2>1, ViewOfMain DEF Visible
    <2>3. MainOn(S, s)
      <3> HIDE DEF S, s
      <3>. QED BY <2>1, <1>0, <1>1, ViewOfMain, ReadMain
    <2>. QED BY <2>1, <2>2, <2>3
  <1> HIDE DEF S, s
  <1>7. ASSUME NEW p \in TakenMark(n, b)
        PROVE  /\ MergesTo(S, T, b, s)
               /\ \A g \in Nat : s <= g => (MainOn(T, g) <=> ShowsNode(b, n))
               /\ \E e \in Added(b) \cup Removed(b) : e.node = n
    <2> DEFINE Y == OnMain(n, p)
    <2>0. p \in S /\ p.br = b /\ p.to = Null /\ p \in Opened(S, b) /\ p \in MarkSet
      BY <1>1, <1>4, <1>5, <1>7
    <2>1. Y \in SUBSET S
      BY <1>14
    <2>2. MayMerge(S, b, s, p, Y)
      <3>1. p.status = "active" => ~ \E k \in S : k.br = Main /\ k.status = "deleted"
        BY <2>0, <1>0, <1>1 DEF InOrder, Sole
      <3>2. \A k \in Y : \A e \in S : ~ (e.br = Main /\ e.status = "deleted")
        BY <1>0, <1>1, <1>14 DEF MainOn
      <3>3. \A k \in Opened(S, b) : k = p
        BY <2>0, <1>6
      <3>. QED BY <2>0, <3>1, <3>2, <3>3, <1>1, <1>14 DEF MayMerge
    <2> HIDE DEF Y
    <2> DEFINE X == {p} \cup Y
               N == {mark(Main, p.status, s)}
    <2>3. X \in SUBSET S /\ N \in SUBSET MarkSet
      BY <2>0, <2>1, <1>0, NewMark, MarkFacts DEF AnyBranch, Status
    <2> HIDE DEF X, N
    <2>4. Closed(S, X, s, N, T)
      <3>1. T = Shut(S, X, s) \cup N
        BY <1>2, <1>7 DEF X, N, Y
      <3>. QED BY <2>3, <3>1, <1>0, <1>1, ShutFacts
    <2>5. TakesTo(S, T, b, s, p)
      <3>1. X = {p} \cup Y /\ N = {mark(Main, p.status, s)} /\ S \in SUBSET MarkSet
        BY <1>1 DEF X, N
      <3>. QED BY ONLY <3>1, <2>0, <2>1, <2>2, <2>4, <1>0, TakenItem, b \in Branch
    <2>6. ShowsNode(b, n) <=> p.status = "active"
      BY <2>0, <1>3, <1>6
    <2>. QED BY <2>5, <2>6, <1>2 DEF TakesTo
  <1>8. ASSUME TakenMark(n, b) = {}
        PROVE  /\ MergesTo(S, T, b, s)
               /\ \A g \in Nat : s <= g => (MainOn(T, g) <=> ShowsNode(Main, n))
               /\ Opened(S, b) # {} => ~ ShowsNode(b, n) /\ ~ ShowsNode(Main, n)
    <2>1. Opened(S, b) # {} => ~ MainOn(S, clock) /\ \A k \in Opened(S, b) : k.status = "deleted"
      BY <1>3, <1>4, <1>5, <1>8
    <2>2. /\ MergesTo(S, S, b, s)
          /\ \A g \in Nat : s <= g => (MainOn(S, g) <=> MainOn(S, clock))
      BY <2>1, <1>0, <1>1, KeptItem
    <2>3. T = S
      BY <1>2, <1>8
    <2>4. Opened(S, b) # {} => ~ ShowsNode(b, n) /\ ~ ShowsNode(Main, n)
      <3>1. "active" # "deleted"
        OBVIOUS
      <3>. QED BY <2>1, <1>3, <3>1
    <2>. QED BY <2>2, <2>3, <2>4, <1>3
  <1>. QED BY <1>7, <1>8 DEF S, s

LEMMA MergedRel ==
  ASSUME TypeOK, Quiet, Times, NEW b \in Branch, clock + 1 < MaxTime, NEW r \in Rel, NEW e, Takes(e, r, b),
         \A k \in OfRel(r) : k.br = Main => k.from <= From(b), NEW s, s = clock + 1, NEW T, T = TakenRel(e, r, s)
  PROVE  /\ MergesTo(OfRel(r), T, b, s)
         /\ \A g \in Nat : s <= g => (MainOn(T, g) <=> ShowsRel(b, r)) /\ Agreed(T, b, g)
         /\ \A l \in T : l.br = Main /\ l.from = s => (l.status = "active" => ShowsRel(b, r))
  <1> DEFINE S == OfRel(r)
             p == MarkOf(e.child)
  <1>0. b # Main /\ clock \in Nat /\ s \in Nat /\ s \in Time /\ clock < s /\ From(b) \in Nat
    <2>1. clock \in Nat /\ s \in Time
      BY MergeTimes, TimeFacts
    <2>2. From(b) \in Nat
      BY DEF TypeOK, From
    <2>. QED BY <2>1, <2>2, BranchAssumption
  <1>1. /\ S \in SUBSET MarkSet /\ InOrder(S) /\ Tracked(S) /\ Twin(rels) /\ Agreed(S, b, From(b))
        /\ \A k \in S : k.from < s /\ k.from <= clock /\ k.from \in Nat
    <2>1. Twin(rels) /\ InOrder(S) /\ Tracked(S) /\ Agreed(S, b, From(b))
      BY DEF Quiet, RelSound
    <2>2. S \in SUBSET MarkSet
      BY <2>1, OfRelFacts
    <2>3. \A k \in S : k.from <= clock
      BY <2>1, MarksStamped
    <2>4. \A k \in S : k.from \in Nat
      BY <2>2, MarkFacts
    <2> HIDE DEF S
    <2>. QED BY <2>1, <2>2, <2>3, <2>4, <1>0
  <1>2. /\ p \in S /\ p.br = b /\ LatestOf(S, p) /\ (\A k \in S : k.br = Main => k.from <= From(b))
        /\ T = Shut(S, {p}, s) \cup {mark(Main, p.status, s)}
    BY DEF Takes, TakenRel
  <1>3. /\ Shown(S, b, From(b), clock) <=> (\E k \in Opened(S, b) : k.status = "active") \/ (Opened(S, b) = {} /\ MainOn(S, From(b)))
        /\ ShowsRel(b, r) <=> Shown(S, b, From(b), clock)
    BY <1>0 DEF Shown, ShowsRel
  <1> HIDE DEF S, p
  <1>4. \A k \in Opened(S, b) : k = p
    <2> SUFFICES ASSUME NEW k \in Opened(S, b) PROVE k = p
      OBVIOUS
    <2>1. k \in S /\ k.br = b /\ k.to = Null
      BY DEF Opened
    <2>2. p.from <= k.from /\ k.from <= p.from
      BY <2>1, <1>0, <1>1, <1>2 DEF Tracked, LastOpen, LatestOf
    <2>. QED BY <2>1, <2>2, <1>1, <1>2 DEF Tracked, OneFrom
  <1>5. ShowsRel(b, r) <=> p.status = "active"
    <2>1. CASE p.to = Null
      <3>1. p \in Opened(S, b)
        BY <2>1, <1>2 DEF Opened
      <3>. QED BY <3>1, <1>3, <1>4
    <2>2. CASE p.to # Null
      <3>1. Opened(S, b) = {}
        BY <2>2, <1>4 DEF Opened
      <3>2. p.status = "active" <=> MainOn(S, From(b))
        BY <2>2, <1>1, <1>2 DEF Agreed
      <3>. QED BY <3>1, <3>2, <1>3
    <2>. QED BY <2>1, <2>2
  <1>6. p.status = "active" => ~ \E k \in S : k.br = Main /\ k.status = "deleted"
    <2>1. CASE p.to = Null
      BY <2>1, <1>0, <1>1, <1>2 DEF InOrder, Sole
    <2>2. CASE p.to # Null
      <3>1. p.status = "active" <=> MainOn(S, From(b))
        BY <2>2, <1>1, <1>2 DEF Agreed
      <3>. QED BY <3>1, <1>2 DEF MainOn
    <2>. QED BY <2>1, <2>2
  <1> DEFINE Y == {}
  <1>7. Y \in SUBSET S /\ {p} \cup Y = {p} /\ MayMerge(S, b, s, p, Y)
    BY <1>1, <1>2, <1>4, <1>6 DEF MayMerge
  <1> HIDE DEF Y
  <1> DEFINE X == {p}
             N == {mark(Main, p.status, s)}
  <1>8. X \in SUBSET S /\ N \in SUBSET MarkSet
    BY <1>0, <1>1, <1>2, NewMark, MarkFacts DEF AnyBranch, Status
  <1> HIDE DEF X, N
  <1>9. Closed(S, X, s, N, T)
    <2>1. T = Shut(S, X, s) \cup N
      BY <1>2 DEF X, N
    <2>. QED BY ONLY <2>1, <1>0, <1>1, <1>8, ShutFacts
  <1>10. TakesTo(S, T, b, s, p)
    <2>1. X = {p} \cup Y /\ N = {mark(Main, p.status, s)} /\ S \in SUBSET MarkSet
      BY <1>1, <1>7 DEF X, N
    <2>. QED BY ONLY <2>1, <1>0, <1>1, <1>2, <1>7, <1>9, TakenItem, b \in Branch
  <1>. QED BY <1>1, <1>2, <1>5, <1>10 DEF S, TakesTo

(* A merge of branch b that takes all the relationships of its diff, R, along *)
(* the paths pick, when main did not touch the same nodes.                    *)
MergeShape(b, R, pick) ==
  /\ clock + 1 < MaxTime /\ clock' = clock + 2
  /\ nodes' = Stepped(nodes, Closing(b), clock + 1, NewOnMain(b))
  /\ branch' = [branch EXCEPT ![b].branched_from = clock + 2]
  /\ R = MergedOf(b) /\ Joining(b, R) \cap TouchedInMain(b) = {}
  /\ \A r \in R : /\ pick[r].child.rel = r
                  /\ \E x \in R : pick[r] \in DiffPaths(x, b, branch[b].created_at, clock + 1)
  /\ rels' = Stepped(rels, Picked(pick, R), clock + 1, MergedRels(pick, R, clock + 1))

(* What it leaves: main shows what the branch changed and otherwise what it  *)
(* showed before, and the branch shows the same.  The nodes B that it touches *)
(* are as they were when it was branched.                                    *)
RelMerged(r, b, R, B, s) ==
  /\ r \in R <=> \E k \in OfRel(r) : k.br = b
  /\ MergesTo(OfRel(r), OfRel(r)', b, s)
  /\ r \in R => /\ r.child \in B /\ r.parent \in B
                /\ ShowsRel(Main, r)' <=> ShowsRel(b, r)
                /\ \A g \in Nat : s <= g => Agreed(OfRel(r)', b, g)
                /\ \A l \in OfRel(r)' : l.br = Main /\ l.from = s /\ l.status = "active" => ShowsRel(b, r)
  /\ r \notin R => /\ OfRel(r)' = OfRel(r) /\ Opened(OfRel(r), b) = {} /\ \A g : Agreed(OfRel(r), b, g)
                   /\ ShowsRel(Main, r)' <=> ShowsRel(Main, r)
  /\ r.child \in B \/ r.parent \in B => (MainOn(OfRel(r), clock) <=> MainOn(OfRel(r), From(b)))
  /\ ShowsRel(b, r)' <=> ShowsRel(Main, r)'
NodeMerged(n, b, B, s) ==
  /\ MergesTo(OfNode(n), OfNode(n)', b, s)
  /\ TakenMark(n, b) # {} => n \in B /\ (ShowsNode(Main, n)' <=> ShowsNode(b, n))
  /\ TakenMark(n, b) = {} => /\ ShowsNode(Main, n)' <=> ShowsNode(Main, n)
                             /\ Opened(OfNode(n), b) # {} => ~ ShowsNode(b, n) /\ ~ ShowsNode(Main, n)
  /\ n \in B => (MainOn(OfNode(n), clock) <=> MainOn(OfNode(n), From(b)))
  /\ ShowsNode(b, n)' <=> ShowsNode(Main, n)'

(* Every mark is older than the merge.                                       *)
LEMMA MarksHere ==
  ASSUME TypeOK, Quiet, NEW s, s = clock + 1
  PROVE  /\ \A r \in Rel : /\ OfRel(r) \in SUBSET MarkSet /\ InOrder(OfRel(r)) /\ Tracked(OfRel(r))
                            /\ \A k \in OfRel(r) : k.from <= clock /\ k.from \in Nat /\ k.from < s /\ k.br \in AnyBranch
         /\ \A n \in Node : /\ OfNode(n) \in SUBSET MarkSet
                             /\ \A k \in OfNode(n) : k.from <= clock /\ k.from \in Nat /\ k.from < s
  <1>1. Twin(rels) /\ (\A r \in Rel : InOrder(OfRel(r)) /\ Tracked(OfRel(r))) /\ clock \in Nat
    BY TimeFacts DEF Quiet, RelSound, TypeOK
  <1>2. ASSUME NEW r \in Rel
        PROVE  /\ OfRel(r) \in SUBSET MarkSet
               /\ \A k \in OfRel(r) : k.from <= clock /\ k.from \in Nat /\ k.from < s /\ k.br \in AnyBranch
    <2>1. OfRel(r) \in SUBSET MarkSet
      BY <1>1, OfRelFacts
    <2>2. \A k \in OfRel(r) : k.from <= clock /\ k.from \in Nat /\ k.br \in AnyBranch
      BY <1>1, <2>1, MarksStamped, MarkFacts
    <2>. QED BY <2>1, <2>2, <1>1
  <1>3. ASSUME NEW n \in Node
        PROVE  /\ OfNode(n) \in SUBSET MarkSet
               /\ \A k \in OfNode(n) : k.from <= clock /\ k.from \in Nat /\ k.from < s
    <2>1. OfNode(n) \in SUBSET MarkSet
      BY OfNodeFacts
    <2>2. \A k \in OfNode(n) : k.from <= clock /\ k.from \in Nat
      BY <1>1, <2>1, MarksStamped, MarkFacts
    <2>. QED BY <2>1, <2>2, <1>1
  <1>. QED BY <1>1, <1>2, <1>3

(* A merge that crosses nothing leaves of every item what is described       *)
(* above.                                                                    *)
LEMMA MergeShows ==
  ASSUME TypeOK, SinceCreation, Quiet, Times, NEW b \in Branch, NEW R, NEW pick, MergeShape(b, R, pick),
         NEW s, s = clock + 1, NEW B, B = Joining(b, R)
  PROVE  /\ Twin(rels)'
         /\ \A r \in Rel : RelMerged(r, b, R, B, s)
         /\ \A n \in Node : NodeMerged(n, b, B, s)
  <1> DEFINE u == clock + 2
  <1>h1. /\ clock + 1 < MaxTime /\ clock' = u
         /\ nodes' = Stepped(nodes, Closing(b), s, NewOnMain(b))
         /\ branch' = [branch EXCEPT ![b].branched_from = u]
    BY DEF MergeShape
  <1>h2. clock \in Nat /\ s \in Nat /\ u \in Nat /\ s \in Time /\ u \in Time /\ clock < s /\ s < u /\ clock < u /\ b # Main
    <2>1. clock \in Nat /\ s \in Time /\ u \in Time
      BY <1>h1, MergeTimes, TimeFacts
    <2>. QED BY <2>1, TimeFacts, BranchAssumption
  <1>h3. From(b)' = u
    BY <1>h1 DEF TypeOK, From
  <1>h4. \A c \in Branch : From(c) \in Nat /\ From(c) <= clock
    BY DEF Times, TypeOK, From
  <1>h6. /\ \A r \in R : /\ pick[r].child.rel = r
                         /\ \E x \in R : pick[r] \in DiffPaths(x, b, branch[b].created_at, s)
         /\ rels' = Stepped(rels, Picked(pick, R), s, MergedRels(pick, R, s))
    BY DEF MergeShape
  <1>h10. R = MergedOf(b) /\ Joining(b, R) \cap TouchedInMain(b) = {}
    BY DEF MergeShape
  <1>h8. R \subseteq Rel
    BY <1>h10, TypeParts DEF MergedOf, DiffRels, Known, RelEdge
  <1> HIDE DEF u
  <1>1. Twin(rels) /\ (\A r \in Rel : RelSound(r) /\ ChildFirst(r)) /\ (\A n \in Node : NodeSound(n))
        /\ (\A c \in AnyBranch : Exists(c) => JoinedOn(c)) /\ Times
    BY DEF Quiet
  <1>2. \A r \in Rel : r \in R <=> \E k \in OfRel(r) : k.br = b
    BY <1>1, <1>h10, DiffMarks
  <1>3. \A r \in R : Takes(pick[r], r, b)
    <2> TAKE r \in R
    <2>1. PICK x \in R : pick[r] \in DiffPaths(x, b, branch[b].created_at, s)
      BY <1>h6
    <2>2. Takes(pick[r], x, b)
      BY <2>1, <1>1, <1>h8, DiffMarks
    <2>. QED BY <2>2, <1>h6 DEF Takes
  <1>4. \A r \in Rel, x \in End : /\ r \in R => RelMarks(rels', r, x) = TakenRel(pick[r], r, s)
                                  /\ r \notin R => RelMarks(rels', r, x) = OfRel(r)
    <2> TAKE r \in Rel, x \in End
    <2>1. rels' = Stepped(rels, Picked(pick, R), s, MergedRels(pick, R, s)) /\ Twin(rels) /\ R \in SUBSET Rel
      BY <1>1, <1>h6, <1>h8
    <2> DEFINE E == rels'
    <2>3. E = Stepped(rels, Picked(pick, R), s, MergedRels(pick, R, s))
      BY <2>1
    <2>4. s \in Time
      BY <1>h2
    <2> HIDE DEF E
    <2>2. /\ r \in R => RelMarks(E, r, x) = TakenRel(pick[r], r, s)
          /\ r \notin R => RelMarks(E, r, x) = OfRel(r)
      BY ONLY TypeOK, r \in Rel, x \in End, <2>4, <2>1, <2>3, <1>3, MergedRelMarks
    <2>. QED BY <2>2 DEF E
  <1>5. (\A r \in Rel : /\ r \in R => OfRel(r)' = TakenRel(pick[r], r, s)
                        /\ r \notin R => OfRel(r)' = OfRel(r)) /\ Twin(rels)'
    <2>1. \A r \in Rel : OfRel(r)' = RelMarks(rels', r, "child")
      BY DEF OfRel
    <2>2. "child" \in End /\ "parent" \in End
      BY DEF End
    <2>3. \A r \in Rel : RelMarks(rels', r, "child") = RelMarks(rels', r, "parent")
      BY <2>2, <1>4
    <2>. QED BY <2>1, <2>2, <2>3, <1>4 DEF Twin
  <1>6. \A r \in R : r.child \in B /\ r.parent \in B
    <2> TAKE r \in R
    <2>1. pick[r].child \in rels /\ pick[r].child.rel = r /\ pick[r].child.br = b
      BY <1>3, MarkOfFacts, TypeParts DEF Takes
    <2>. QED BY <2>1 DEF Joining, Touched
  <1>7. \A n \in Node : (\E e \in Added(b) \cup Removed(b) : e.node = n) => n \in B
    BY DEF Joining, Touched
  <1>8. /\ \A n \in Node : n \in B => \A k \in OfNode(n) : k.br = Main => k.from <= From(b)
        /\ \A r \in Rel : r.child \in B \/ r.parent \in B => \A k \in OfRel(r) : k.br = Main => k.from <= From(b)
    <2>1. \A n \in Node : n \in B => n \notin TouchedInMain(b)
      BY <1>h10
    <2>2. \A r \in Rel : r.child \in Node /\ r.parent \in Node
      BY DEF Rel, Node
    <2>. QED BY <2>1, <2>2, <1>1, TouchedMarks
  <1>9. \A r \in Rel : /\ OfRel(r) \in SUBSET MarkSet /\ InOrder(OfRel(r)) /\ Tracked(OfRel(r))
                       /\ \A k \in OfRel(r) : k.from <= clock /\ k.from \in Nat /\ k.from < s /\ k.br \in AnyBranch
    BY MarksHere
  <1>10. \A n \in Node : /\ OfNode(n) \in SUBSET MarkSet
                         /\ \A k \in OfNode(n) : k.from <= clock /\ k.from \in Nat /\ k.from < s
    BY MarksHere
  <1>11. \A r \in R : /\ MergesTo(OfRel(r), OfRel(r)', b, s)
                      /\ \A g \in Nat : s <= g => (MainOn(OfRel(r)', g) <=> ShowsRel(b, r)) /\ Agreed(OfRel(r)', b, g)
                      /\ \A l \in OfRel(r)' : l.br = Main /\ l.from = s => (l.status = "active" => ShowsRel(b, r))
    <2> TAKE r \in R
    <2> DEFINE T == TakenRel(pick[r], r, s)
               e == pick[r]
    <2>1. r \in Rel /\ Takes(e, r, b) /\ T = TakenRel(e, r, s)
      BY <1>3, <1>h8
    <2>2. \A k \in OfRel(r) : k.br = Main => k.from <= From(b)
      BY <2>1, <1>6, <1>8
    <2>3. Quiet /\ Times /\ clock + 1 < MaxTime /\ s = clock + 1
      BY <1>1, <1>h1, <1>h10
    <2> HIDE DEF T, e
    <2>4. /\ MergesTo(OfRel(r), T, b, s)
          /\ \A g \in Nat : s <= g => (MainOn(T, g) <=> ShowsRel(b, r)) /\ Agreed(T, b, g)
          /\ \A l \in T : l.br = Main /\ l.from = s => (l.status = "active" => ShowsRel(b, r))
      BY <2>1, <2>2, <2>3, MergedRel
    <2>5. OfRel(r)' = T
      BY <2>1, <1>5 DEF T
    <2>. QED BY <2>4, <2>5
  <1>12. \A r \in Rel : r \notin R =>
                      /\ OfRel(r)' = OfRel(r) /\ Opened(OfRel(r), b) = {} /\ (\A g : Agreed(OfRel(r), b, g))
                      /\ MergesTo(OfRel(r), OfRel(r)', b, s)
                      /\ \A g \in Nat : s <= g => (MainOn(OfRel(r)', g) <=> ShowsRel(Main, r))
    <2> SUFFICES ASSUME NEW r \in Rel, r \notin R
                 PROVE  /\ OfRel(r)' = OfRel(r) /\ Opened(OfRel(r), b) = {} /\ (\A g : Agreed(OfRel(r), b, g))
                        /\ MergesTo(OfRel(r), OfRel(r)', b, s)
                        /\ \A g \in Nat : s <= g => (MainOn(OfRel(r)', g) <=> ShowsRel(Main, r))
      OBVIOUS
    <2> DEFINE S == OfRel(r)
    <2>1. S \in SUBSET MarkSet /\ InOrder(S) /\ \A k \in S : k.from < s /\ k.from <= clock
      BY <1>9
    <2>2. Opened(S, b) = {} /\ \A g : Agreed(S, b, g)
      BY <1>2 DEF Opened, Agreed
    <2>3. ShowsRel(Main, r) <=> MainOn(S, clock)
      BY DEF ShowsRel, Shown
    <2>4. OfRel(r)' = S
      BY <1>5
    <2> HIDE DEF S
    <2>5. /\ MergesTo(S, S, b, s)
          /\ \A g \in Nat : s <= g => (MainOn(S, g) <=> MainOn(S, clock))
      BY <2>1, <2>2, <1>h2, KeptItem
    <2>. QED BY <2>2, <2>3, <2>4, <2>5 DEF S
  <1>13. \A n \in Node :
           /\ MergesTo(OfNode(n), OfNode(n)', b, s)
           /\ TakenMark(n, b) # {} => /\ \A g \in Nat : s <= g => (MainOn(OfNode(n)', g) <=> ShowsNode(b, n))
                                      /\ n \in B
           /\ TakenMark(n, b) = {} => /\ \A g \in Nat : s <= g => (MainOn(OfNode(n)', g) <=> ShowsNode(Main, n))
                                      /\ Opened(OfNode(n), b) # {} => ~ ShowsNode(b, n) /\ ~ ShowsNode(Main, n)
    <2> TAKE n \in Node
    <2> DEFINE T == OfNode(n)'
    <2>1. T = NodeMarks(Stepped(nodes, Closing(b), clock + 1, NewOnMain(b)), n)
      BY <1>h1 DEF OfNode
    <2> HIDE DEF T
    <2>2. /\ MergesTo(OfNode(n), T, b, clock + 1)
          /\ TakenMark(n, b) # {} => /\ \A g \in Nat : clock + 1 <= g => (MainOn(T, g) <=> ShowsNode(b, n))
                                     /\ \E e \in Added(b) \cup Removed(b) : e.node = n
          /\ TakenMark(n, b) = {} => /\ \A g \in Nat : clock + 1 <= g => (MainOn(T, g) <=> ShowsNode(Main, n))
                                     /\ Opened(OfNode(n), b) # {} => ~ ShowsNode(b, n) /\ ~ ShowsNode(Main, n)
      BY <2>1, <1>1, <1>h1, <1>h10, MergedNode
    <2>. QED BY <2>2, <1>7 DEF T
  <1>14. \A r \in Rel : MergesTo(OfRel(r), OfRel(r)', b, s)
    BY <1>11, <1>12
  <1>15. \A r \in Rel : ShowsRel(Main, r)' <=> MainOn(OfRel(r)', u)
    BY <1>h1 DEF ShowsRel, Shown
  <1>16. \A n \in Node : ShowsNode(Main, n)' <=> MainOn(OfNode(n)', u)
    BY <1>h1 DEF ShowsNode, Shown
  <1>17. \A r \in Rel : ShowsRel(b, r)' <=> ShowsRel(Main, r)'
    <2> TAKE r \in Rel
    <2>1. ShowsRel(b, r)' <=> Shown(OfRel(r)', b, u, u)
      BY <1>h1, <1>h3 DEF ShowsRel
    <2>2. Shown(OfRel(r)', b, u, u) <=> MainOn(OfRel(r)', u)
      BY <1>14, <1>h2 DEF MergesTo
    <2>. QED BY <2>1, <2>2, <1>15
  <1>18. \A n \in Node : ShowsNode(b, n)' <=> ShowsNode(Main, n)'
    <2> TAKE n \in Node
    <2>1. ShowsNode(b, n)' <=> Shown(OfNode(n)', b, u, u)
      BY <1>h1, <1>h3 DEF ShowsNode
    <2>2. Shown(OfNode(n)', b, u, u) <=> MainOn(OfNode(n)', u)
      BY <1>13, <1>h2 DEF MergesTo
    <2>. QED BY <2>1, <2>2, <1>16
  <1>19. \A r \in Rel : /\ r \in R => (ShowsRel(Main, r)' <=> ShowsRel(b, r))
                        /\ r \notin R => (ShowsRel(Main, r)' <=> ShowsRel(Main, r))
    BY <1>11, <1>12, <1>15, <1>h2
  <1>20. \A n \in Node : /\ TakenMark(n, b) # {} => (ShowsNode(Main, n)' <=> ShowsNode(b, n))
                         /\ TakenMark(n, b) = {} => (ShowsNode(Main, n)' <=> ShowsNode(Main, n))
    BY <1>13, <1>16, <1>h2
  <1>21. \A r \in Rel : r.child \in B \/ r.parent \in B => (MainOn(OfRel(r), clock) <=> MainOn(OfRel(r), From(b)))
    BY <1>8, <1>9, <1>h2, <1>h4, MainUntouched
  <1>22. \A n \in Node : n \in B => (MainOn(OfNode(n), clock) <=> MainOn(OfNode(n), From(b)))
    BY <1>8, <1>10, <1>h2, <1>h4, MainUntouched
  <1>23. \A r \in Rel : RelMerged(r, b, R, B, s)
    BY <1>2, <1>6, <1>11, <1>12, <1>14, <1>17, <1>19, <1>21 DEF RelMerged
  <1>24. \A n \in Node : NodeMerged(n, b, B, s)
    BY <1>13, <1>18, <1>20, <1>22 DEF NodeMerged
  <1>. QED BY <1>5, <1>23, <1>24

(* Changes of the branch and of main fit together, unless they touch a node  *)
(* in common.                                                                *)
LEMMA MergeQuiet ==
  ASSUME TypeOK, TypeOK', Pending, SinceCreation, QInv, NEW b \in Branch, NEW resolved, NEW keep, Merge(b, resolved, keep)
  PROVE  QInv'
  <1> DEFINE s == clock + 1
             u == clock + 2
  <1>1. /\ clock + 1 < MaxTime /\ branch[b].open
        /\ nodes' = Stepped(nodes, Closing(b), s, NewOnMain(b))
        /\ clock' = u /\ branch' = [branch EXCEPT ![b].branched_from = u]
        /\ request' = request
    BY MergeFacts DEF Stepped
  <1>2. clock \in Nat /\ s \in Nat /\ u \in Nat /\ s \in Time /\ u \in Time /\ clock < s /\ s < u /\ clock < u /\ b # Main
    <2>1. clock \in Nat /\ s \in Time /\ u \in Time
      BY <1>1, MergeTimes, TimeFacts
    <2>. QED BY <2>1, TimeFacts, BranchAssumption
  <1>3. /\ From(b)' = u /\ branch'[b].open /\ branch'[b].created_at = branch[b].created_at
        /\ \A c \in Branch : c # b => branch'[c] = branch[c] /\ From(c)' = From(c)
        /\ \A c \in AnyBranch : Exists(c)' <=> Exists(c)
    BY <1>1 DEF TypeOK, From, Exists, AnyBranch
  <1>4. \A c \in Branch : From(c) \in Nat /\ From(c) <= clock /\ branch[c].created_at \in Nat
    BY DEF QInv, Times, TypeOK, From
  <1>5. PICK R \in SUBSET MergedOf(b) : \E pick : MergeOf(b, resolved = keep, R, pick)
    BY MergeParts
  <1>6. PICK pick :
           /\ resolved = keep => R = MergedOf(b)
           /\ \A r \in R : /\ pick[r].child.rel = r
                           /\ \E x \in R : pick[r] \in DiffPaths(x, b, branch[b].created_at, s)
           /\ rels' = Stepped(rels, Picked(pick, R), s, MergedRels(pick, R, s))
           /\ incidents' = incidents \cup {i \in {"crossed"} : resolved # keep \/ Joining(b, R) \cap TouchedInMain(b) # {}}
    BY <1>5 DEF MergeOf
  <1> HIDE DEF s, u
  <1>7. Times'
    <2> SUFFICES ASSUME NEW c \in Branch PROVE From(c)' <= clock' /\ (branch'[c].open => branch'[c].created_at <= From(c)')
      BY DEF Times
    <2>1. CASE c = b
      <3>1. branch[b].created_at <= From(b)
        BY <1>1 DEF QInv, Times
      <3>. QED BY <2>1, <3>1, <1>1, <1>2, <1>3, <1>4
    <2>2. CASE c # b
      BY <2>2, <1>1, <1>2, <1>3, <1>4 DEF QInv, Times
    <2>. QED BY <2>1, <2>2
  <1>8. R \subseteq Rel
    BY TypeParts DEF MergedOf, DiffRels, Known, RelEdge
  <1>9. Waits'
    <2> DEFINE U == {s, u}
    <2>1. \A o \in Request : request'[o] # Idle => request'[o] = request[o] /\ request[o].at \notin U /\ request[o].at # Null
      BY <1>1, <1>2, RequestTimes DEF QInv
    <2>2. \A c \in Branch : From(c)' \in U \/ From(c)' = From(c)
      BY <1>3
    <2>3. s \in U
      OBVIOUS
    <2> HIDE DEF U
    <2>4. nodes \subseteq NodeEdge /\ rels \subseteq RelEdge
      BY TypeParts
    <2>5. Closing(b) \in SUBSET nodes /\ \A e \in NewOnMain(b) : e.from \in U /\ e.to = Null
      BY <2>3, <1>1, ClosingFacts, NewOnMainFacts DEF s
    <2>6. \A e \in nodes' : /\ e.from \in U \/ \E d \in nodes : e.from = d.from
                            /\ e.to \in U \/ e.to = Null \/ \E d \in nodes : e.to = d.to
      <3>1. \A e \in (nodes \ Closing(b)) \cup Close(Closing(b), s) \cup NewOnMain(b) :
                            /\ e.from \in U \/ \E d \in nodes : e.from = d.from
                            /\ e.to \in U \/ e.to = Null \/ \E d \in nodes : e.to = d.to
        BY <2>3, <2>4, <2>5, <1>2, ClosedStamps
      <3>. QED BY <3>1, <1>1 DEF Stepped
    <2>7. \A r \in R : pick[r].child \in rels /\ pick[r].parent \in rels /\ pick[r].child.status \in Status /\ r \in Rel
      BY <1>6, <1>8, DiffPathEdges
    <2>8. Picked(pick, R) \in SUBSET rels
      BY <2>7 DEF Picked
    <2>9. \A e \in MergedRels(pick, R, s) : e.from \in U /\ e.to = Null
      BY <2>3, <2>7, <1>2, NewRelEdges DEF MergedRels, AnyBranch
    <2>10. \A e \in rels' : /\ e.from \in U \/ \E d \in rels : e.from = d.from
                            /\ e.to \in U \/ e.to = Null \/ \E d \in rels : e.to = d.to
      <3>1. \A e \in (rels \ Picked(pick, R)) \cup Close(Picked(pick, R), s) \cup MergedRels(pick, R, s) :
                            /\ e.from \in U \/ \E d \in rels : e.from = d.from
                            /\ e.to \in U \/ e.to = Null \/ \E d \in rels : e.to = d.to
        BY <2>3, <2>4, <2>8, <2>9, <1>2, ClosedStamps
      <3>. QED BY <3>1, <1>6 DEF Stepped
    <2>11. \A e \in nodes' \cup rels' : /\ e.from \in U \/ \E d \in nodes \cup rels : e.from = d.from
                                        /\ e.to \in U \/ e.to = Null \/ \E d \in nodes \cup rels : e.to = d.to
      BY <2>6, <2>10
    <2>. QED BY <2>1, <2>2, <2>11, WaitsStep DEF QInv
  <1>10. ASSUME Quiet, R = MergedOf(b), Joining(b, R) \cap TouchedInMain(b) = {} PROVE Quiet'
    <2> DEFINE B == Joining(b, R)
    <2>1. Twin(rels) /\ (\A r \in Rel : RelSound(r) /\ ChildFirst(r)) /\ (\A n \in Node : NodeSound(n))
          /\ (\A c \in AnyBranch : Exists(c) => JoinedOn(c)) /\ Times
      BY <1>10 DEF Quiet, QInv
    <2>2. MergeShape(b, R, pick) /\ s = clock + 1
      BY <1>1, <1>6, <1>10 DEF MergeShape, s, u
    <2> HIDE DEF B
    <2>3. /\ Twin(rels)'
          /\ \A r \in Rel : RelMerged(r, b, R, B, s)
          /\ \A n \in Node : NodeMerged(n, b, B, s)
      BY <2>1, <2>2, <1>10, MergeShows DEF B
    <2>9. \A r \in Rel : /\ OfRel(r) \in SUBSET MarkSet /\ InOrder(OfRel(r)) /\ Tracked(OfRel(r))
                         /\ \A k \in OfRel(r) : k.from <= clock /\ k.from \in Nat /\ k.from < s /\ k.br \in AnyBranch
      BY <2>2, <1>10, MarksHere
    <2>10. \A n \in Node : /\ OfNode(n) \in SUBSET MarkSet
                           /\ \A k \in OfNode(n) : k.from <= clock /\ k.from \in Nat /\ k.from < s
      BY <2>2, <1>10, MarksHere
    <2>14. (\A r \in Rel : MergesTo(OfRel(r), OfRel(r)', b, s)) /\ (\A n \in Node : MergesTo(OfNode(n), OfNode(n)', b, s))
      BY <2>3 DEF RelMerged, NodeMerged
    <2>17. (\A r \in Rel : ShowsRel(b, r)' <=> ShowsRel(Main, r)') /\ (\A n \in Node : ShowsNode(b, n)' <=> ShowsNode(Main, n)')
      BY <2>3 DEF RelMerged, NodeMerged
    <2>21. \A r \in Rel : r \notin R /\ (r.child \in B \/ r.parent \in B) => (ShowsRel(Main, r) <=> ShowsRel(b, r))
      <3> SUFFICES ASSUME NEW r \in Rel, r \notin R, r.child \in B \/ r.parent \in B PROVE ShowsRel(Main, r) <=> ShowsRel(b, r)
        OBVIOUS
      <3>1. (MainOn(OfRel(r), clock) <=> MainOn(OfRel(r), From(b))) /\ Opened(OfRel(r), b) = {}
        BY <2>3 DEF RelMerged
      <3>. QED BY <3>1, <1>2 DEF ShowsRel, Shown
    <2>22. \A n \in Node : TakenMark(n, b) = {} /\ n \in B => (ShowsNode(Main, n) <=> ShowsNode(b, n))
      <3> SUFFICES ASSUME NEW n \in Node, TakenMark(n, b) = {}, n \in B PROVE ShowsNode(Main, n) <=> ShowsNode(b, n)
        OBVIOUS
      <3>1. /\ MainOn(OfNode(n), clock) <=> MainOn(OfNode(n), From(b))
            /\ Opened(OfNode(n), b) # {} => ~ ShowsNode(b, n) /\ ~ ShowsNode(Main, n)
        BY <2>3 DEF NodeMerged
      <3>2. CASE Opened(OfNode(n), b) = {}
        BY <3>1, <3>2, <1>2 DEF ShowsNode, Shown
      <3>. QED BY <3>1, <3>2
    <2>23. JoinedOn(Main)'
      <3>1. JoinedOn(b) /\ JoinedOn(Main)
        BY <2>1, <1>1 DEF Exists, AnyBranch
      <3>2. /\ \A n \in Node : n \in B => (ShowsNode(Main, n)' <=> ShowsNode(b, n))
            /\ \A n \in Node : n \notin B => (ShowsNode(Main, n)' <=> ShowsNode(Main, n))
        BY <2>3, <2>22 DEF NodeMerged
      <3>3. /\ \A r \in Rel : r.child \in B \/ r.parent \in B => (ShowsRel(Main, r)' <=> ShowsRel(b, r))
            /\ \A r \in Rel : r.child \notin B \/ r.parent \notin B => (ShowsRel(Main, r)' <=> ShowsRel(Main, r))
        BY <2>3, <2>21 DEF RelMerged
      <3>. QED BY <3>1, <3>2, <3>3, JoinedMix
    <2>24. JoinedOn(b)'
      <3>1. \A r \in Rel : r.child \in Node /\ r.parent \in Node
        BY DEF Rel, Node
      <3>2. \A c \in Child : c \in Node
        BY DEF Node
      <3>. QED BY <3>1, <3>2, <2>17, <2>23 DEF JoinedOn
    <2>25. ASSUME NEW c \in Branch, c # b, Exists(c) PROVE JoinedOn(c)'
      <3>0. From(c) \in Nat /\ From(c) < s /\ From(c)' = From(c) /\ c \in AnyBranch
        BY <2>25, <1>2, <1>3, <1>4 DEF AnyBranch
      <3>1. \A r \in Rel : ShowsRel(c, r)' <=> ShowsRel(c, r)
        <4> TAKE r \in Rel
        <4>1. Shown(OfRel(r)', c, From(c), clock') <=> Shown(OfRel(r), c, From(c), clock)
          BY <3>0, <2>14, <2>25 DEF MergesTo
        <4>2. ShowsRel(c, r)' <=> Shown(OfRel(r)', c, From(c), clock')
          BY <3>0 DEF ShowsRel
        <4>. QED BY <4>1, <4>2 DEF ShowsRel
      <3>2. \A n \in Node : ShowsNode(c, n)' <=> ShowsNode(c, n)
        <4> TAKE n \in Node
        <4>1. Shown(OfNode(n)', c, From(c), clock') <=> Shown(OfNode(n), c, From(c), clock)
          BY <3>0, <2>14, <2>25 DEF MergesTo
        <4>2. ShowsNode(c, n)' <=> Shown(OfNode(n)', c, From(c), clock')
          BY <3>0 DEF ShowsNode
        <4>. QED BY <4>1, <4>2 DEF ShowsNode
      <3>. QED BY <3>0, <3>1, <3>2, <2>1, <2>25, JoinedSame
    <2>26. \A c \in AnyBranch : Exists(c)' => JoinedOn(c)'
      BY <2>23, <2>24, <2>25, <1>3 DEF AnyBranch
    <2>27. ASSUME NEW r \in Rel PROVE RelSound(r)'
      <3> DEFINE S == OfRel(r)
                 T == OfRel(r)'
      <3>1. Tracked(S) /\ (\A k \in S : r.born <= k.from) /\ BranchMarks(S) /\ MainBirths(S, r.born)
            /\ \A c \in Branch : Agreed(S, c, From(c))
        BY <2>1 DEF RelSound
      <3>2. MergesTo(S, T, b, s) /\ \A k \in S : k.from <= clock /\ k.from \in Nat /\ k.br \in AnyBranch
        BY <2>9, <2>14
      <3>3. r.born \in Nat
        BY TimeFacts DEF Rel
      <3>4. (r \in R => Agreed(T, b, u) /\ S # {}) /\ (r \notin R => T = S /\ Agreed(T, b, u))
        BY <2>3, <1>2 DEF RelMerged
      <3> HIDE DEF S, T
      <3>5. \A l \in T : (l.br = Main /\ l.from = s /\ S # {}) \/ \E k \in S : k.br = l.br /\ k.status = l.status /\ k.from = l.from
        BY <3>2, <3>4 DEF MergesTo, Follows
      <3>6. \A k \in T : r.born <= k.from
        BY <3>1, <3>2, <3>3, <3>5, <1>2
      <3>7. BranchMarks(OfRel(r))'
        <4>1. ASSUME NEW l \in T, l.br # Main PROVE branch'[l.br].open /\ branch'[l.br].created_at <= l.from
          <5>1. PICK k \in S : k.br = l.br /\ k.from = l.from
            BY <4>1, <3>5
          <5>2. branch[l.br].open /\ branch[l.br].created_at <= l.from /\ l.br \in Branch
            BY <4>1, <5>1, <3>1, <3>2 DEF BranchMarks, AnyBranch
          <5>. QED BY <5>2, <1>3
        <4>. QED BY <4>1 DEF BranchMarks, T
      <3>8. MainBirths(OfRel(r), r.born)'
        <4>1. ASSUME NEW l \in T, l.br = Main, l.status = "active" PROVE l.from = r.born \/ \E c \in Branch : From(c)' > l.from
          <5>1. CASE l.from = s
            BY <5>1, <1>2, <1>3
          <5>2. CASE l.from # s
            <6>1. PICK k \in S : k.br = Main /\ k.status = "active" /\ k.from = l.from
              BY <4>1, <5>2, <3>5
            <6>2. CASE \E c \in Branch : From(c) > k.from
              <7>1. PICK c \in Branch : From(c) > k.from
                BY <6>2
              <7>2. From(c)' \in Nat /\ From(c)' >= From(c)
                BY <1>2, <1>3, <1>4
              <7>. QED BY <7>1, <7>2, <6>1, <3>2, <1>4
            <6>. QED BY <6>1, <6>2, <3>1 DEF MainBirths
          <5>. QED BY <5>1, <5>2
        <4>. QED BY <4>1 DEF MainBirths, T
      <3>9. \A c \in Branch : Agreed(T, c, From(c)')
        <4> TAKE c \in Branch
        <4>1. CASE c = b
          BY <4>1, <3>4, <1>3
        <4>2. CASE c # b
          <5>1. From(c)' = From(c) /\ From(c) \in Nat /\ From(c) < s
            BY <4>2, <1>2, <1>3, <1>4
          <5>. QED BY <4>2, <5>1, <3>1, <3>2 DEF MergesTo
        <4>. QED BY <4>1, <4>2
      <3>10. InOrder(T) /\ Tracked(T)
        BY <3>1, <3>2 DEF MergesTo
      <3>. QED BY <3>6, <3>7, <3>8, <3>9, <3>10 DEF RelSound, T
    <2>28. ASSUME NEW n \in Node PROVE NodeSound(n)'
      <3> DEFINE S == OfNode(n)
                 T == OfNode(n)'
      <3>1. MergesTo(S, T, b, s) /\ \A k \in S : k.br # Main /\ k.status = "active" => n \in Child
        BY <2>1, <2>14 DEF NodeSound
      <3> HIDE DEF S, T
      <3>2. InOrder(T) /\ \A k \in T : k.br # Main /\ k.status = "active" => n \in Child
        BY <3>1 DEF MergesTo, Follows
      <3>. QED BY <3>2 DEF NodeSound, T
    <2>29. ASSUME NEW r \in Rel PROVE ChildFirst(r)'
      <3> DEFINE S == OfRel(r)
                 T == OfRel(r)'
                 M == OfNode(r.child)
                 N == OfNode(r.child)'
      <3>0. r.child \in Node
        BY DEF Rel, Node
      <3>1. /\ S # {} => M # {}
            /\ \A k \in S : k.status = "active" =>
                 IF k.br = Main THEN \E g \in M : g.br = Main /\ g.status = "active" /\ g.from <= k.from
                 ELSE \A g \in M : g.br = k.br /\ g.status = "active" => g.from <= k.from
        BY <2>1 DEF ChildFirst
      <3>2. Follows(S, T, s) /\ Follows(M, N, s) /\ \A k \in M : k.from < s /\ k.from \in Nat
        BY <3>0, <2>10, <2>14 DEF MergesTo
      <3>3. (r \in R => S # {}) /\ (r \notin R => T = S)
        BY <2>3 DEF RelMerged
      <3>4. \A l \in T : l.br = Main /\ l.from = s /\ l.status = "active" /\ r \in R => MainOn(N, u)
        <4> SUFFICES ASSUME NEW l \in T, l.br = Main, l.from = s, l.status = "active", r \in R PROVE MainOn(N, u)
          OBVIOUS
        <4>1. ShowsRel(Main, r)'
          BY <2>3 DEF RelMerged
        <4>2. ShowsNode(Main, r.child)'
          BY <4>1, <2>23 DEF JoinedOn
        <4>. QED BY <4>2, <1>1 DEF ShowsNode, Shown
      <3>5. \A k \in S : k.from # s
        BY <2>9, <1>2
      <3> HIDE DEF S, T, M, N
      <3>6. T # {} => N # {}
        <4>1. T # {} => S # {}
          BY <3>3
        <4>. QED BY <4>1, <3>1, <3>2 DEF Follows
      <3>7. ASSUME NEW l \in T, l.status = "active"
            PROVE  IF l.br = Main THEN \E g \in N : g.br = Main /\ g.status = "active" /\ g.from <= l.from
                   ELSE \A g \in N : g.br = l.br /\ g.status = "active" => g.from <= l.from
        <4>1. CASE l.br = Main /\ l.from = s
          <5>1. r \in R
            BY <4>1, <3>3, <3>5
          <5>2. MainOn(N, u)
            BY <4>1, <5>1, <3>4, <3>7
          <5>3. PICK g \in N : g.br = Main /\ g.status = "active"
            BY <5>2 DEF MainOn
          <5>4. g.from <= s
            BY <5>3, <3>2, <1>2 DEF Follows
          <5>. QED BY <4>1, <5>3, <5>4
        <4>2. CASE ~ (l.br = Main /\ l.from = s)
          <5>1. PICK k \in S : k.br = l.br /\ k.status = "active" /\ k.from = l.from
            BY <4>2, <3>2, <3>7 DEF Follows
          <5>2. CASE l.br = Main
            <6>1. PICK g \in M : g.br = Main /\ g.status = "active" /\ g.from <= l.from
              BY <5>1, <5>2, <3>1
            <6>2. PICK h \in N : h.br = g.br /\ h.status = g.status /\ h.from = g.from
              BY <6>1, <3>2 DEF Follows
            <6>. QED BY <5>2, <6>1, <6>2
          <5>3. CASE l.br # Main
            <6>1. \A g \in M : g.br = l.br /\ g.status = "active" => g.from <= l.from
              BY <5>1, <5>3, <3>1
            <6>2. \A h \in N : h.br # Main => \E g \in M : g.br = h.br /\ g.status = h.status /\ g.from = h.from
              BY <3>2 DEF Follows
            <6>. QED BY <5>3, <6>1, <6>2
          <5>. QED BY <5>2, <5>3
        <4>. QED BY <4>1, <4>2
      <3>. QED BY <3>6, <3>7 DEF ChildFirst, T, N
    <2>. QED BY <2>3, <2>26, <2>27, <2>28, <2>29 DEF Quiet
  <1>11. incidents' = {} => Quiet'
    <2> HAVE incidents' = {}
    <2>1. incidents = {} /\ resolved = keep /\ Joining(b, R) \cap TouchedInMain(b) = {}
      BY <1>6
    <2>. QED BY <2>1, <1>6, <1>10 DEF QInv
  <1>. QED BY <1>7, <1>9, <1>11 DEF QInv

(* Every step keeps what Quiet asks, or an incident is recorded.             *)
LEMMA NextQuiet == IInv /\ QInv /\ [Next]_vars => QInv'
  <1> SUFFICES ASSUME IInv, QInv, [Next]_vars PROVE QInv'
    OBVIOUS
  <1>0. IInv'
    BY NextInv
  <1>1. TypeOK /\ TypeOK' /\ OneActive /\ SinceCreation /\ Kept /\ Pending
    BY <1>0 DEF IInv
  <1>2. ASSUME NEW q \in Request, NEW b \in AnyBranch, NEW n \in Node, NEW p \in Parent,
               NEW op \in {"create", "update", "delete"}, Begin(q, op, b, n, p)
        PROVE  QInv'
    BY <1>1, <1>2, BeginQuiet
  <1>3. ASSUME NEW q \in Request, CommitCreate(q) PROVE QInv'
    BY <1>1, <1>3, CreateQuiet
  <1>4. ASSUME NEW q \in Request, CommitUpdate(q) PROVE QInv'
    BY <1>1, <1>4, UpdateQuiet
  <1>5. ASSUME NEW q \in Request, CommitDelete(q) PROVE QInv'
    BY <1>1, <1>5, DeleteQuiet
  <1>6. ASSUME NEW q \in Request, Abort(q) PROVE QInv'
    BY <1>1, <1>6, AbortQuiet
  <1>7. ASSUME NEW b \in Branch, CreateBranch(b) PROVE QInv'
    BY <1>1, <1>7, CreateBranchQuiet
  <1>8. ASSUME NEW b \in Branch, Rebase(b) PROVE QInv'
    BY <1>1, <1>8, RebaseQuiet
  <1>9. ASSUME NEW b \in Branch, NEW resolved, NEW keep, Merge(b, resolved, keep) PROVE QInv'
    BY <1>1, <1>9, MergeQuiet
  <1>10. CASE UNCHANGED vars
    <2>1. nodes' = nodes /\ rels' = rels /\ branch' = branch /\ clock' = clock /\ request' = request /\ incidents' = incidents
      BY <1>10 DEF vars
    <2>2. clock <= clock'
      BY <1>1, <2>1, TimeFacts DEF TypeOK
    <2>3. Quiet => Quiet'
      BY <1>1, <2>1, <2>2, QuietLater
    <2>4. Times' /\ Waits'
      BY <2>1 DEF QInv, Times, Waits, NotYet, From
    <2>. QED BY <2>1, <2>3, <2>4 DEF QInv
  <1>. QED BY <1>2, <1>3, <1>4, <1>5, <1>6, <1>7, <1>8, <1>9, <1>10 DEF Next

LEMMA QuietAlways == Spec => [](IInv /\ QInv)
  BY InitInv, NextInv, InitQuiet, NextQuiet, PTL DEF Spec

(* Unless an incident happens (a request acts on what it no longer finds, a  *)
(* rebase or merge crosses main, a delete is dated back or misdirected),     *)
(* main and every branch stay connected, whatever the order of the requests, *)
(* rebases and merges: no read shows a relationship to a node that is gone,  *)
(* a child without its parent or with two, or a peer that depends on ties    *)
(* (Node._create, RelationshipManager.update, NodeManager.delete,            *)
(* rebase_graph, merge_graph).                                               *)
THEOREM NoDanglingAlways == Spec => []NoDangling
  <1>1. IInv /\ QInv => NoDangling
    BY QuietConnects DEF IInv
  <1>. QED BY <1>1, QuietAlways, PTL

(* Only a merge draws two timestamps, and it changes the edges of no other   *)
(* branch than its own and main.                                             *)
LEMMA OnlyMerge ==
  ASSUME TypeOK, [Next]_vars, clock' = clock + 2
  PROVE  \E b \in Branch : \E resolved, keep : Merge(b, resolved, keep)
  <1>1. clock \in Nat
    BY TimeFacts DEF TypeOK
  <1>2. clock' # clock /\ clock' # clock + 1
    BY <1>1
  <1>3. ~ UNCHANGED vars
    BY <1>2 DEF vars
  <1>4. \A q \in Request : ~ CommitCreate(q) /\ ~ CommitUpdate(q) /\ ~ CommitDelete(q) /\ ~ Abort(q)
    <2>1. \A q \in Request : \A op : ~ Commits(q, op)
      BY <1>2 DEF Commits, Now
    <2>2. \A q \in Request : ~ Abort(q)
      BY <1>2 DEF Abort
    <2>. QED BY <2>1, <2>2 DEF CommitCreate, CommitUpdate, CommitDelete
  <1>5. \A q, op, b, n, p : ~ Begin(q, op, b, n, p)
    BY <1>2 DEF Begin
  <1>6. \A b \in Branch : ~ CreateBranch(b) /\ ~ Rebase(b)
    BY <1>2 DEF CreateBranch, Rebase
  <1>. QED BY <1>3, <1>4, <1>5, <1>6 DEF Next

LEMMA ClosedBranch ==
  ASSUME NEW e, e \in NodeEdge \/ e \in RelEdge, NEW at \in Time
  PROVE  [e EXCEPT !.to = at].br = e.br
  BY DEF NodeEdge, RelEdge

LEMMA OthersStay ==
  ASSUME NEW E, E \subseteq NodeEdge \/ E \subseteq RelEdge, NEW Z \in SUBSET E, NEW N, NEW at \in Time, NEW b,
         \A e \in Z \cup N : e.br # b
  PROVE  \A e : e.br = b => (e \in Stepped(E, Z, at, N) <=> e \in E)
  <1>1. ASSUME NEW e \in Close(Z, at) PROVE e.br # b
    <2>1. PICK d \in Z : e = [d EXCEPT !.to = at]
      BY DEF Close
    <2>2. d \in E /\ d.br # b /\ (d \in NodeEdge \/ d \in RelEdge)
      OBVIOUS
    <2>3. e.br = d.br
      BY <2>1, <2>2, ClosedBranch
    <2>. QED BY <2>2, <2>3
  <1>. QED BY <1>1 DEF Stepped

LEMMA OthersKept ==
  ASSUME TypeOK, NEW b \in Branch, NEW c \in Branch, b # c, NEW resolved, NEW keep, Merge(c, resolved, keep)
  PROVE  OwnEdges(b)' = OwnEdges(b)
  <1> DEFINE s == clock + 1
  <1>1. clock + 1 < MaxTime /\ nodes' = Stepped(nodes, Closing(c), s, NewOnMain(c))
    BY MergeFacts DEF Stepped
  <1>2. s \in Time /\ b # Main /\ nodes \subseteq NodeEdge /\ rels \subseteq RelEdge
    BY <1>1, MergeTimes, TypeParts, BranchAssumption
  <1>3. PICK R \in SUBSET MergedOf(c) : \E pick : MergeOf(c, resolved = keep, R, pick)
    BY MergeParts
  <1>4. PICK pick : /\ \A r \in R : \E x \in R : pick[r] \in DiffPaths(x, c, branch[c].created_at, s)
                    /\ rels' = Stepped(rels, Picked(pick, R), s, MergedRels(pick, R, s))
    BY <1>3 DEF MergeOf
  <1>5. \A e \in Closing(c) \cup NewOnMain(c) : e.br # b
    BY <1>1, <1>2, ClosingFacts, NewOnMainFacts DEF Closing
  <1>6. Closing(c) \in SUBSET nodes
    BY <1>1, ClosingFacts
  <1>7. \A e \in Picked(pick, R) : e \in rels /\ e.br = c
    <2>1. \A r \in R : /\ pick[r].child \in rels /\ pick[r].parent \in rels
                       /\ pick[r].parent = [pick[r].child EXCEPT !.end = "parent"] /\ pick[r].child.br = c
      BY <1>4 DEF DiffPaths
    <2>2. \A e \in RelEdge : [e EXCEPT !.end = "parent"].br = e.br
      BY DEF RelEdge
    <2>3. \A r \in R : pick[r].parent.br = c
      BY <2>1, <2>2, <1>2
    <2>4. ASSUME NEW e \in Picked(pick, R) PROVE e \in rels /\ e.br = c
      <3>1. PICK r \in R : e \in {pick[r].child, pick[r].parent}
        BY DEF Picked
      <3>. QED BY <3>1, <2>1, <2>3
    <2>. QED BY <2>4
  <1>8. \A e \in MergedRels(pick, R, s) : e.br = Main
    BY DEF MergedRels, rel_edges
  <1>9. Picked(pick, R) \in SUBSET rels /\ \A e \in Picked(pick, R) \cup MergedRels(pick, R, s) : e.br # b
    BY <1>2, <1>7, <1>8
  <1> DEFINE N == nodes'
             L == rels'
  <1>10. N = Stepped(nodes, Closing(c), s, NewOnMain(c)) /\ L = Stepped(rels, Picked(pick, R), s, MergedRels(pick, R, s))
    BY <1>1, <1>4
  <1> HIDE DEF N, L, s
  <1>11. \A e : e.br = b => (e \in N <=> e \in nodes)
    BY <1>2, <1>5, <1>6, <1>10, OthersStay
  <1>12. \A e : e.br = b => (e \in L <=> e \in rels)
    BY <1>2, <1>9, <1>10, OthersStay
  <1>13. OwnEdges(b)' = {e \in N \cup L : e.br = b}
    BY DEF OwnEdges, N, L
  <1>. QED BY <1>11, <1>12, <1>13 DEF OwnEdges

-----------------------------------------------------------------------------
(* What a read at the present time finds.  Edges of the present may be closed *)
(* then, so that it is certain only for main, for what a branch has an open  *)
(* edge of, and right after a merge, which draws a time of its own to end.   *)
ReadsRel(b, r) == r \in MaySee(View(b), clock) <=> ShowsRel(b, r)
ReadsNode(b, n) == NodeActive(View(b), n, clock) <=> ShowsNode(b, n)
Reads(b) ==
  /\ \A r \in Rel : ReadsRel(b, r)
  /\ \A n \in Node : ReadsNode(b, n)
  /\ MaySee(View(b), clock) \subseteq Rel
ReadsAtEnd == TypeOK /\ Quiet /\ Times /\ Stamped(clock) => \A b \in AnyBranch : Reads(b)

LEMMA EndReads == ReadsAtEnd
  <1> SUFFICES ASSUME TypeOK, Quiet, Times, Stamped(clock), NEW b \in AnyBranch PROVE Reads(b)
    BY DEF ReadsAtEnd
  <1>1. clock \in Nat /\ clock <= clock
    BY TimeFacts DEF TypeOK
  <1>. QED BY <1>1, ReadsNow DEF Reads, ReadsRel, ReadsNode

(* A branch owns what it has an open mark of.                                *)
LEMMA OwnsMarks ==
  ASSUME TypeOK, Twin(rels), NEW b
  PROVE  /\ \A r \in Rel : OwnsRel(b, r) <=> Opened(OfRel(r), b) # {}
         /\ \A n : OwnsNode(b, n) <=> Opened(OfNode(n), b) # {}
  <1>1. \A e \in nodes \cup rels : MarkOf(e).br = e.br /\ MarkOf(e).to = e.to
    BY MarkOfFacts, TypeParts
  <1>2. \A r \in Rel : /\ \A e \in rels : e.rel = r => MarkOf(e) \in OfRel(r)
                       /\ \A k \in OfRel(r) : \E e \in rels : e.rel = r /\ k = MarkOf(e)
    <2>1. \A r, e : e \in rels => e.end \in End
      BY TypeParts DEF RelEdge
    <2>. QED BY <2>1, OfRelFacts DEF End
  <1>3. \A n : /\ \A e \in nodes : e.node = n => MarkOf(e) \in OfNode(n)
               /\ \A k \in OfNode(n) : \E e \in nodes : e.node = n /\ k = MarkOf(e)
    BY OfNodeFacts
  <1>. QED BY <1>1, <1>2, <1>3 DEF OwnsRel, OwnsNode, Opened

LEMMA PresentReads ==
  ASSUME TypeOK, Quiet, Times, NEW b \in AnyBranch
  PROVE  /\ \A r \in Rel : b = Main \/ OwnsRel(b, r) => ReadsRel(b, r)
         /\ \A n \in Node : b = Main \/ OwnsNode(b, n) => ReadsNode(b, n)
         /\ MaySee(View(b), clock) \subseteq Rel
  <1>1. /\ View(b).name = b
        /\ b # Main => b \in Branch /\ View(b).branched_from = From(b) /\ From(b) \in Nat /\ From(b) <= clock
        /\ clock \in Nat
    BY ViewFacts
  <1>2. Twin(rels) /\ (\A r \in Rel : InOrder(OfRel(r)) /\ OneFrom(OfRel(r))) /\ \A n \in Node : InOrder(OfNode(n))
    BY DEF Quiet, RelSound, NodeSound, Tracked
  <1>3. /\ \A r \in Rel : r \in MaySee(View(b), clock) <=> \E k \in Best(OfRel(r), View(b), clock) : k.status = "active"
        /\ MaySee(View(b), clock) \subseteq Rel
    BY <1>1, <1>2, SeenIs
  <1>4. ASSUME NEW S \in SUBSET MarkSet, InOrder(S), \A k \in S : k.from <= clock, b = Main \/ Opened(S, b) # {}
        PROVE  (\E k \in Best(S, View(b), clock) : k.status = "active") <=> Shown(S, b, From(b), clock)
    <2>1. CASE b = Main
      BY <1>1, <1>4, <2>1, ReadMain DEF Shown
    <2>2. CASE b # Main
      BY <1>1, <1>4, <2>2, ReadBranch
    <2>. QED BY <2>1, <2>2
  <1>5. ASSUME NEW r \in Rel, b = Main \/ OwnsRel(b, r) PROVE ReadsRel(b, r)
    <2>1. OfRel(r) \in SUBSET MarkSet /\ \A k \in OfRel(r) : k.from <= clock
      BY <1>2, OfRelFacts, MarksStamped
    <2>2. b = Main \/ Opened(OfRel(r), b) # {}
      BY <1>2, <1>5, OwnsMarks
    <2>. QED BY <2>1, <2>2, <1>2, <1>3, <1>4 DEF ReadsRel, ShowsRel
  <1>6. ASSUME NEW n \in Node, b = Main \/ OwnsNode(b, n) PROVE ReadsNode(b, n)
    <2>1. OfNode(n) \in SUBSET MarkSet /\ \A k \in OfNode(n) : k.from <= clock
      BY <1>2, OfNodeFacts, MarksStamped
    <2>2. b = Main \/ Opened(OfNode(n), b) # {}
      BY <1>2, <1>6, OwnsMarks
    <2>3. (\E k \in Best(OfNode(n), View(b), clock) : k.status = "active") <=> ShowsNode(b, n)
      BY <2>1, <2>2, <1>2, <1>4 DEF ShowsNode
    <2>. QED BY <2>3, NodeBest DEF ReadsNode
  <1>. QED BY <1>3, <1>5, <1>6

(* What main and the branch show after a merge of it. *)
ConvergedRels(b) ==
  /\ MaySee(View(Main), clock)' = MaySee(View(b), clock)'
  /\ MaySee(View(Main), clock)' =
       {r \in Known : r \in MaySee(View(IF OwnsRel(b, r) THEN b ELSE Main), clock)}
ConvergedNodes(b) ==
  \A n \in Node :
    /\ NodeActive(View(Main), n, clock)' = NodeActive(View(b), n, clock)'
    /\ NodeActive(View(Main), n, clock)' =
         NodeActive(View(IF OwnsNode(b, n) THEN b ELSE Main), n, clock)

(* Relationship by relationship, and node by node: an item of the branch is  *)
(* shown on main as the branch showed it; another is shown as before.        *)
LEMMA RelsConverge ==
  ASSUME TypeOK, Quiet, Times, NEW b \in Branch, NEW R, NEW B, NEW s,
         \A r \in Rel : RelMerged(r, b, R, B, s), Reads(Main)', Reads(b)'
  PROVE  ConvergedRels(b)
  <1> DEFINE V == MaySee(View(Main), clock)'
             W == MaySee(View(b), clock)'
             M == MaySee(View(Main), clock)
             O == MaySee(View(b), clock)
             X == {r \in Known : r \in MaySee(View(IF OwnsRel(b, r) THEN b ELSE Main), clock)}
  <1>0. b # Main /\ b \in AnyBranch /\ Main \in AnyBranch /\ Known \subseteq Rel
    BY BranchAssumption, TypeParts DEF AnyBranch, Known, RelEdge
  <1>1. /\ V \subseteq Rel /\ W \subseteq Rel
        /\ \A r \in Rel : /\ r \in V <=> ShowsRel(Main, r)'
                          /\ r \in W <=> ShowsRel(b, r)'
    BY DEF Reads, ReadsRel
  <1>2. /\ M \subseteq Rel /\ O \subseteq Rel
        /\ \A r \in Rel : /\ r \in M <=> ShowsRel(Main, r)
                          /\ OwnsRel(b, r) => (r \in O <=> ShowsRel(b, r))
    BY <1>0, PresentReads DEF ReadsRel
  <1>3. \A r \in Rel : OwnsRel(b, r) <=> Opened(OfRel(r), b) # {}
    BY OwnsMarks DEF Quiet
  <1>4. \A r : r \in X <=> IF OwnsRel(b, r) THEN r \in O ELSE r \in M
    <2>1. M \subseteq Known /\ O \subseteq Known
      BY DEF MaySee
    <2>. QED BY <2>1
  <1> HIDE DEF V, W, M, O, X
  <1>5. ASSUME NEW r \in Rel PROVE (r \in V <=> r \in X) /\ (r \in V <=> r \in W)
    <2> DEFINE S == OfRel(r)
    <2>1. /\ r \in R <=> \E k \in S : k.br = b
          /\ r \in R => /\ r.child \in B
                        /\ ShowsRel(Main, r)' <=> ShowsRel(b, r)
          /\ r \notin R => Opened(S, b) = {} /\ (ShowsRel(Main, r)' <=> ShowsRel(Main, r))
          /\ r.child \in B => (MainOn(S, clock) <=> MainOn(S, From(b)))
          /\ ShowsRel(b, r)' <=> ShowsRel(Main, r)'
      BY DEF RelMerged
    <2>5. (r \in V <=> ShowsRel(Main, r)') /\ (r \in W <=> ShowsRel(b, r)') /\ (r \in M <=> ShowsRel(Main, r))
      BY <1>1, <1>2
    <2>2. r \in V <=> r \in W
      BY <2>1, <2>5, Zenon
    <2>3. CASE OwnsRel(b, r)
      <3>1. r \in R
        BY <2>1, <2>3, <1>3
      <3>2. r \in V <=> ShowsRel(b, r)
        BY <3>1, <2>1, <2>5, Zenon
      <3>3. r \in X <=> ShowsRel(b, r)
        BY <2>3, <1>2, <1>4
      <3>. QED BY <3>2, <3>3, <2>2, Zenon
    <2>4. CASE ~ OwnsRel(b, r)
      <3>1. Opened(S, b) = {}
        BY <2>4, <1>3
      <3>2. r \in R => (ShowsRel(b, r) <=> ShowsRel(Main, r))
        BY <3>1, <2>1, <1>0 DEF ShowsRel, Shown
      <3>3. r \in V <=> r \in M
        BY <3>2, <2>1, <2>5, Zenon
      <3>. QED BY <3>3, <2>2, <2>4, <1>4
    <2>. QED BY <2>3, <2>4
  <1>6. X \subseteq Rel
    BY <1>2, <1>4
  <1>7. V = W /\ V = X
    BY <1>1, <1>5, <1>6
  <1>. QED BY <1>7 DEF ConvergedRels, V, W, X

LEMMA NodesConverge ==
  ASSUME TypeOK, Quiet, Times, NEW b \in Branch, NEW B, NEW s,
         \A n \in Node : NodeMerged(n, b, B, s), Reads(Main)', Reads(b)'
  PROVE  ConvergedNodes(b)
  <1> SUFFICES ASSUME NEW n \in Node
               PROVE  /\ NodeActive(View(Main), n, clock)' <=> NodeActive(View(b), n, clock)'
                      /\ NodeActive(View(Main), n, clock)' <=>
                           NodeActive(View(IF OwnsNode(b, n) THEN b ELSE Main), n, clock)
    BY DEF ConvergedNodes, NodeActive
  <1>0. b # Main /\ b \in AnyBranch /\ Main \in AnyBranch
    BY BranchAssumption DEF AnyBranch
  <1>1. /\ NodeActive(View(Main), n, clock)' <=> ShowsNode(Main, n)'
        /\ NodeActive(View(b), n, clock)' <=> ShowsNode(b, n)'
    BY DEF Reads, ReadsNode
  <1>2. /\ NodeActive(View(Main), n, clock) <=> ShowsNode(Main, n)
        /\ OwnsNode(b, n) => (NodeActive(View(b), n, clock) <=> ShowsNode(b, n))
    BY <1>0, PresentReads DEF ReadsNode
  <1>3. OwnsNode(b, n) <=> Opened(OfNode(n), b) # {}
    BY OwnsMarks DEF Quiet
  <1>4. /\ TakenMark(n, b) # {} => (ShowsNode(Main, n)' <=> ShowsNode(b, n))
        /\ TakenMark(n, b) = {} => /\ ShowsNode(Main, n)' <=> ShowsNode(Main, n)
                                   /\ Opened(OfNode(n), b) # {} => ~ ShowsNode(b, n) /\ ~ ShowsNode(Main, n)
        /\ ShowsNode(b, n)' <=> ShowsNode(Main, n)'
    BY DEF NodeMerged
  <1>5. TakenMark(n, b) # {} => Opened(OfNode(n), b) # {}
    BY DEF TakenMark
  <1>6. OwnsNode(b, n) => (ShowsNode(Main, n)' <=> ShowsNode(b, n))
    BY <1>3, <1>4
  <1>7. ~ OwnsNode(b, n) => (ShowsNode(Main, n)' <=> ShowsNode(Main, n))
    BY <1>3, <1>4, <1>5
  <1>8. CASE OwnsNode(b, n)
    BY <1>1, <1>2, <1>4, <1>6, <1>8
  <1>9. CASE ~ OwnsNode(b, n)
    BY <1>1, <1>2, <1>4, <1>7, <1>9
  <1>. QED BY <1>8, <1>9

(* Every edge is older than the end of a merge. *)
LEMMA MergeStamped ==
  ASSUME TypeOK, NEW b \in Branch, NEW R, NEW pick, MergeShape(b, R, pick), R \subseteq Rel,
         \A r \in R : pick[r].child \in rels /\ pick[r].parent \in rels
  PROVE  Stamped(clock)'
  <1> DEFINE s == clock + 1
             U == {s}
  <1>1. clock + 1 < MaxTime /\ clock' = clock + 2 /\ nodes' = Stepped(nodes, Closing(b), s, NewOnMain(b))
        /\ rels' = Stepped(rels, Picked(pick, R), s, MergedRels(pick, R, s))
    BY DEF MergeShape
  <1>2. clock \in Nat /\ s \in Time /\ s \in Nat /\ s \in U /\ Null = 0
    BY <1>1, MergeTimes, TimeFacts
  <1>3. nodes \subseteq NodeEdge /\ rels \subseteq RelEdge
    BY TypeParts
  <1>4. Closing(b) \in SUBSET nodes /\ \A e \in NewOnMain(b) : e.from \in U /\ e.to = Null
    BY <1>1, ClosingFacts, NewOnMainFacts
  <1>5. Picked(pick, R) \in SUBSET rels /\ \A e \in MergedRels(pick, R, s) : e.from \in U /\ e.to = Null
    BY DEF Picked, MergedRels, rel_edges
  <1>6. \A e \in nodes \cup rels : e.from <= clock /\ e.to <= clock /\ e.from \in Nat /\ e.to \in Nat
    BY TimeAssumption DEF TypeOK, NodeEdge, RelEdge, Time, Null
  <1> HIDE DEF U
  <1>7. \A e \in Stepped(nodes, Closing(b), s, NewOnMain(b)) :
                          /\ e.from \in U \/ \E d \in nodes : e.from = d.from
                          /\ e.to \in U \/ e.to = Null \/ \E d \in nodes : e.to = d.to
    BY <1>2, <1>3, <1>4, ClosedStamps DEF Stepped
  <1>8. \A e \in Stepped(rels, Picked(pick, R), s, MergedRels(pick, R, s)) :
                          /\ e.from \in U \/ \E d \in rels : e.from = d.from
                          /\ e.to \in U \/ e.to = Null \/ \E d \in rels : e.to = d.to
    BY <1>2, <1>3, <1>5, ClosedStamps DEF Stepped
  <1>9. \A x : x \in U \/ x = Null \/ (x \in Nat /\ x <= clock) => x < clock + 2
    BY <1>2 DEF U
  <1>10. \A e \in nodes' \cup rels' : e.from < clock + 2 /\ e.to < clock + 2
    <2>1. \A e \in nodes' : e.from < clock + 2 /\ e.to < clock + 2
      BY <1>1, <1>6, <1>7, <1>9
    <2>2. \A e \in rels' : e.from < clock + 2 /\ e.to < clock + 2
      BY <1>1, <1>6, <1>8, <1>9
    <2>. QED BY <2>1, <2>2
  <1>. QED BY <1>1, <1>10 DEF Stamped

(* A merge without incident is of a branch whose changes touch nothing that  *)
(* main changed.                                                             *)
LEMMA MergeConverged ==
  ASSUME IInv, QInv, [Next]_vars, NEW b \in Branch, MergeStep(b), incidents' = {}
  PROVE  ConvergedRels(b) /\ ConvergedNodes(b)
  <1>1. TypeOK /\ TypeOK' /\ SinceCreation /\ Times /\ QInv'
    BY NextInv, NextQuiet DEF IInv, QInv
  <1>2. PICK c \in Branch : \E resolved, keep : Merge(c, resolved, keep)
    BY <1>1, OnlyMerge DEF MergeStep
  <1>3. PICK resolved, keep : Merge(c, resolved, keep)
    BY <1>2
  <1>4. c = b
    BY <1>1, <1>3, OthersKept DEF MergeStep
  <1>5. PICK R \in SUBSET MergedOf(b) : \E pick : MergeOf(b, resolved = keep, R, pick)
    BY <1>3, <1>4, MergeParts
  <1>6. PICK pick : MergeOf(b, resolved = keep, R, pick)
    BY <1>5
  <1>7. incidents = {} /\ MergeShape(b, R, pick)
    <2>1. incidents = {} /\ resolved = keep /\ Joining(b, R) \cap TouchedInMain(b) = {}
      BY <1>6 DEF MergeOf
    <2>2. /\ clock + 1 < MaxTime /\ clock' = clock + 2
          /\ nodes' = Stepped(nodes, Closing(b), clock + 1, NewOnMain(b))
          /\ branch' = [branch EXCEPT ![b].branched_from = clock + 2]
      BY <1>1, <1>3, <1>4, MergeFacts DEF Stepped
    <2>. QED BY <2>1, <2>2, <1>6 DEF MergeOf, MergeShape
  <1>8. Quiet /\ Quiet' /\ Times'
    BY <1>1, <1>7 DEF QInv
  <1> DEFINE s == clock + 1
             B == Joining(b, R)
  <1>9. s = clock + 1 /\ B = Joining(b, R)
    OBVIOUS
  <1> HIDE DEF s, B
  <1>10. (\A r \in Rel : RelMerged(r, b, R, B, s)) /\ (\A n \in Node : NodeMerged(n, b, B, s))
    BY <1>1, <1>7, <1>8, <1>9, MergeShows
  <1>11. R \subseteq Rel
    BY <1>1, TypeParts DEF MergedOf, DiffRels, Known, RelEdge
  <1>12. \A r \in R : pick[r].child \in rels /\ pick[r].parent \in rels
    BY <1>1, <1>7, DiffPathEdges DEF MergeShape
  <1>13. Stamped(clock)'
    BY <1>1, <1>7, <1>11, <1>12, MergeStamped
  <1>14. ReadsAtEnd'
    BY EndReads, PTL
  <1>15. Reads(Main)' /\ Reads(b)'
    BY <1>1, <1>8, <1>13, <1>14 DEF ReadsAtEnd, AnyBranch
  <1>. QED BY <1>1, <1>8, <1>10, <1>15, RelsConverge, NodesConverge

(* A merge that conflicts with nothing that main changed in the meantime    *)
(* (BranchMerger.merge, merge_graph) converges: main shows what the branch  *)
(* had changed and for the rest what it showed before, and the branch reads *)
(* the same as main from then on, whatever the requests, rebases and other  *)
(* merges before it.                                                        *)
THEOREM MergeConvergesAlways == Spec => MergeConverges
  <1> DEFINE Step == \A b \in Branch : MergeStep(b) /\ incidents' = {} => ConvergedRels(b) /\ ConvergedNodes(b)
  <1>1. IInv /\ QInv /\ [Next]_vars => Step
    BY MergeConverged
  <1>2. Step <=> \A b \in Branch : MergeStep(b) /\ incidents' = {} =>
       /\ MaySee(View(Main), clock)' = MaySee(View(b), clock)'
       /\ MaySee(View(Main), clock)' =
            {r \in Known : r \in MaySee(View(IF OwnsRel(b, r) THEN b ELSE Main), clock)}
       /\ \A n \in Node :
            /\ NodeActive(View(Main), n, clock)' = NodeActive(View(b), n, clock)'
            /\ NodeActive(View(Main), n, clock)' =
                 NodeActive(View(IF OwnsNode(b, n) THEN b ELSE Main), n, clock)
    BY DEF ConvergedRels, ConvergedNodes
  <1> HIDE DEF Step
  <1>. QED BY <1>1, <1>2, QuietAlways, PTL DEF Spec, MergeConverges
=============================================================================
