----------------------------- MODULE NodeGraph ------------------------------
(***************************************************************************)
(* Nodes and relationships in the versioned graph.  A child has a mandatory *)
(* relationship of cardinality one to its parent; the parent sees the other *)
(* end, of cardinality many, with or without cascading deletes.             *)
(*                                                                          *)
(* A node is there while its latest visible IS_PART_OF edge is active.  A   *)
(* relationship is a vertex with an IS_RELATED edge to each of its ends and *)
(* is there while its latest visible path is active.  Deleting adds edges   *)
(* of status deleted and closes those of the same branch.                   *)
(*                                                                          *)
(* A GraphQL mutation draws its time when it begins, reads everything as of *)
(* that time and writes in one transaction later.  Attributes, and what     *)
(* happens between the diff and the commit of a merge, are in BranchGraph.  *)
(***************************************************************************)
EXTENDS Naturals, FiniteSets

CONSTANTS
  Parent, Child,  \* ids of nodes of the two kinds
  Main,           \* registry.default_branch
  Branch,         \* names of user branches
  Cascading,      \* children of the kinds that are deleted with their parent
  Request,        \* concurrent mutations
  MaxTime         \* bound: clock ticks

ASSUME KindAssumption == Parent \cap Child = {}
ASSUME BranchAssumption == Main \notin Branch
ASSUME CascadeAssumption == Cascading \subseteq Child
ASSUME TimeAssumption == MaxTime \in Nat \ {0}

VARIABLES
  nodes,       \* IS_PART_OF edges
  rels,        \* IS_RELATED edges, two for each path through a relationship
  branch,      \* the Branch nodes
  clock,       \* the last timestamp drawn
  request,     \* per request: the mutation between its first read and its transaction
  incidents    \* history: the hazards met so far

vars == <<nodes, rels, branch, clock, request, incidents>>

-----------------------------------------------------------------------------
Null == 0
Time == 1..MaxTime
Node == Parent \cup Child
AnyBranch == Branch \cup {Main}
Status == {"active", "deleted"}
End == {"child", "parent"}

(* The uuid of a Relationship vertex: its ends and when it was created. *)
Rel == [child : Child, parent : Parent, born : Time]

NodeEdge == [node : Node, br : AnyBranch, status : Status, from : Time, to : {Null} \cup Time]
RelEdge == [rel : Rel, end : End, br : AnyBranch, status : Status, from : Time, to : {Null} \cup Time]

node_edge(n, b, s, at) == [node |-> n, br |-> b, status |-> s, from |-> at, to |-> Null]

(* Both IS_RELATED edges of a relationship are created by one query. *)
rel_edges(r, b, s, at) ==
  {[rel |-> r, end |-> x, br |-> b, status |-> s, from |-> at, to |-> Null] : x \in End}

(* NodeDeleteQuery, RelationshipDeleteQuery and RelationshipDataDeleteQuery   *)
(* add edges that say that what they lead to is gone.                        *)
deleted_node(n, b, at) == node_edge(n, b, "deleted", at)
deleted_rels(R, b, at) == UNION {rel_edges(r, b, "deleted", at) : r \in R}
deleted_rels_data(R, b, at) == UNION {rel_edges(r, b, "deleted", at) : r \in R}

(* The Branch object a request works with. *)
BranchView == [name : AnyBranch, branched_from : 0..MaxTime]
View(b) == [name |-> b, branched_from |-> IF b = Main THEN 0 ELSE branch[b].branched_from]

NoBranch == [open |-> FALSE, created_at |-> 0, branched_from |-> 0]
Idle == [op |-> "none"]
Incident == {"stale", "backdated", "misdirected", "crossed"}
Mutation == [op : {"create", "update", "delete"}, view : BranchView, node : Node,
             peer : Parent, at : Time]

Init ==
  /\ nodes = {node_edge(p, Main, "active", 1) : p \in Parent}
  /\ rels = {}
  /\ branch = [b \in Branch |-> NoBranch]
  /\ clock = 1
  /\ request = [q \in Request |-> Idle]
  /\ incidents = {}

-----------------------------------------------------------------------------
(* Reading.                                                                 *)

ValidAt(e, t) == e.from <= t /\ (e.to = Null \/ e.to >= t)

(* get_query_filter_path: main is read as of branched_from by a branch. *)
Visible(e, v, at) ==
  \/ e.br = v.name /\ ValidAt(e, at)
  \/ v.name # Main /\ e.br = Main
     /\ ValidAt(e, IF at > v.branched_from THEN v.branched_from ELSE at)

level(e) == IF e.br = Main THEN 1 ELSE 2

(* NodeListGetInfoQuery: ORDER BY branch_level DESC, from DESC LIMIT 1. *)
CurrentNodeEdges(v, n, at) ==
  LET S == {e \in nodes : e.node = n /\ Visible(e, v, at)}
  IN {e \in S : \A f \in S : level(f) < level(e) \/ (level(f) = level(e) /\ f.from <= e.from)}

NodeActive(v, n, at) == \E e \in CurrentNodeEdges(v, n, at) : e.status = "active"

(* A path goes through both ends of a relationship. *)
Paths(r, v, at) ==
  {p \in [child : {e \in rels : e.end = "child"}, parent : {e \in rels : e.end = "parent"}] :
     /\ p.child.rel = r /\ p.parent.rel = r
     /\ Visible(p.child, v, at) /\ Visible(p.parent, v, at)}

score(p) == level(p.child) + level(p.parent)

(* RelationshipGetPeerQuery: ORDER BY branch_level DESC, froms DESC LIMIT 1. *)
Ahead(p, o) ==
  \/ score(p) > score(o)
  \/ score(p) = score(o) /\ p.parent.from > o.parent.from
  \/ score(p) = score(o) /\ p.parent.from = o.parent.from /\ p.child.from > o.child.from

First(r, v, at) == LET S == Paths(r, v, at) IN {p \in S : \A o \in S : ~ Ahead(o, p)}

Live(p) == p.child.status = "active" /\ p.parent.status = "active"

Known == {e.rel : e \in rels}

(* Paths of equal rank come in no particular order. *)
MaySee(v, at) == {r \in Known : \E p \in First(r, v, at) : Live(p)}
MustSee(v, at) == {r \in MaySee(v, at) : \A p \in First(r, v, at) : Live(p)}

(* get_peers keeps one relationship per peer. *)
OnePerPeer(S) == {T \in SUBSET S : \A r \in S : Cardinality({t \in T : t.child = r.child /\ t.parent = r.parent}) = 1}

Readings(v, at) ==
  UNION {OnePerPeer(S) : S \in {T \in SUBSET MaySee(v, at) : MustSee(v, at) \subseteq T}}

ParentsOf(S, c) == {r.parent : r \in {x \in S : x.child = c}}
ChildrenOf(S, p) == {r.child : r \in {x \in S : x.parent = p}}

-----------------------------------------------------------------------------
(* Mutations.                                                               *)

Close(S, at) == {[e EXCEPT !.to = at] : e \in S}

Exists(b) == b # Main => branch[b].open

(* Mutant: only nodes that are there count. *)
NeverUsed_active(n) == ~ NodeActive(View(Main), n, clock)

(* Node.new, NodeCheckIDQuery: the id of a created node; no two requests at   *)
(* the same time ask for the same one.                                       *)
NeverUsed(n) == \A e \in nodes : e.node # n

(* The request is received: mutate_update and mutate_delete look the node up. *)
Begin(q, op, b, n, p) ==
  /\ request[q] = Idle
  /\ clock < MaxTime
  /\ Exists(b)
  /\ clock' = clock + 1
  /\ IF op = "create"
     THEN /\ n \in Child /\ NeverUsed(n)
          /\ \A o \in Request : request[o] # Idle => request[o].op # "create" \/ request[o].node # n
     ELSE NodeActive(View(b), n, clock + 1)
  /\ op = "update" => n \in Child
  /\ request' = [request EXCEPT ![q] =
                   [op |-> op, view |-> View(b), node |-> n, peer |-> p, at |-> clock + 1]]
  /\ UNCHANGED <<nodes, rels, branch, incidents>>

(* When the transaction runs; other operations may have come in between. *)
Now(q) == IF clock = request[q].at THEN clock ELSE clock + 1
Commits(q, op) ==
  /\ request[q] # Idle /\ request[q].op = op
  /\ Now(q) <= MaxTime
  /\ clock' = Now(q)
  /\ request' = [request EXCEPT ![q] = Idle]

(* Any exception rolls the transaction back. *)
Abort(q) ==
  /\ request[q] # Idle
  /\ request' = [request EXCEPT ![q] = Idle]
  /\ UNCHANGED <<nodes, rels, branch, clock, incidents>>

(* History: what the request read no longer holds on the branch as it is now. *)
Stale(m, t) ==
  LET v == View(m.view.name)
  IN {i \in {"stale"} :
        ~ /\ MaySee(v, t) = MaySee(m.view, m.at) /\ MustSee(v, t) = MaySee(m.view, m.at)
          /\ m.op # "create" => NodeActive(v, m.node, t)
          /\ m.op # "delete" => NodeActive(v, m.peer, t)}

(* History: main changes at a time before the one at which a branch reads it. *)
Backdated(m) ==
  {i \in {"backdated"} : m.view.name = Main /\ \E b \in Branch : branch[b].branched_from > m.at}

(* RelationshipValidatorList: a list of more than one peer is refused. *)
ValidList(c, seen) == Cardinality(ParentsOf(seen, c)) <= 1

(* Relationship.resolve: the peer must exist as of the time of the request. *)
Resolved(m) == NodeActive(m.view, m.peer, m.at)

(* The relationship that connects a child to its parent from now on. *)
Connects(m, at) == rel_edges([child |-> m.node, parent |-> m.peer, born |-> at], m.view.name, "active", at)

(* RelationshipManager.update: nothing is done for the peer that is there. *)
PeerChanges(m, seen) == m.peer \notin ParentsOf(seen, m.node)

(* Node._create *)
CommitCreate(q) ==
  LET m == request[q]
      now == Now(q)
      b == m.view.name
  IN /\ Commits(q, "create")
     /\ Resolved(m)
     /\ nodes' = nodes \cup {node_edge(m.node, b, "active", now)}
     /\ rels' = rels \cup Connects(m, now)
     /\ incidents' = incidents \cup Stale(m, now)
     /\ UNCHANGED branch

(* Node._update of the child's relationship: RelationshipManager.update and  *)
(* save remove the old peer and create the relationship to the new one.      *)
CommitUpdate(q) ==
  LET m == request[q]
      now == Now(q)
      b == m.view.name
  IN /\ Commits(q, "update")
     /\ \E seen \in Readings(m.view, m.at) :
          LET old == {r \in seen : r.child = m.node}
              gone == UNION {{p.child, p.parent} : p \in UNION {First(r, m.view, m.at) : r \in old}}
              own == {e \in gone : e.br = b}
          IN /\ ValidList(m.node, seen)
             /\ PeerChanges(m, seen)
             /\ Resolved(m)
             /\ rels' = (rels \ own) \cup Close(own, now)
                        \cup deleted_rels_data(old, b, now) \cup Connects(m, now)
     /\ incidents' = incidents \cup Stale(m, now)
     /\ UNCHANGED <<nodes, branch>>

(* Relationship.delete looks for the path to close with RelationshipGetQuery, *)
(* which matches every relationship between the two nodes whatever its        *)
(* status; get_result returns the one listed first when exactly one of them   *)
(* is active, otherwise one of the highest branch level.                     *)
PathToClose(r, v, at) ==
  LET all == UNION {Paths(s, v, at) : s \in {x \in Known : x.child = r.child /\ x.parent = r.parent}}
  IN IF Cardinality({p \in all : Live(p)}) = 1 THEN all
     ELSE {p \in all : \A o \in all : score(o) <= score(p)}

(* NodeDeleteValidator: children go with their parent, or prevent it.        *)
ids_to_delete(n, seen) == {n} \cup (ChildrenOf(seen, n) \cap Cascading)
(* Mutant: mandatory relationships of others do not count. *)
dependents_none(n, seen) == {}

dependents(n, seen) == ChildrenOf(seen, n) \ ids_to_delete(n, seen)

(* NodeManager.delete, stamped with the time of the request. *)
CommitDelete(q) ==
  LET m == request[q]
      b == m.view.name
  IN /\ Commits(q, "delete")
     /\ \E seen \in Readings(m.view, m.at) :
          LET D == {n \in ids_to_delete(m.node, seen) : n = m.node \/ NodeActive(m.view, n, m.at)}
              old == {r \in seen : r.child \in D \/ r.parent \in D}
              part == {e \in UNION {CurrentNodeEdges(m.view, n, m.at) : n \in D} :
                         e.status = "active" /\ e.br = b}
          IN /\ dependents(m.node, seen) = {}
             /\ \A c \in D \cap Child : ValidList(c, seen)
             /\ \A r \in old : NodeActive(m.view, r.child, m.at) /\ NodeActive(m.view, r.parent, m.at)
             /\ \E pick \in [old -> UNION {PathToClose(r, m.view, m.at) : r \in old}] :
                  LET own == {e \in UNION {{pick[r].child, pick[r].parent} : r \in old} : e.br = b}
                  IN /\ \A r \in old : pick[r] \in PathToClose(r, m.view, m.at)
                     /\ rels' = (rels \ own) \cup Close(own, m.at)
                                \cup deleted_rels(old, b, m.at)
                     /\ incidents' = incidents \cup Stale(m, Now(q)) \cup Backdated(m)
                          \cup {i \in {"misdirected"} : \E r \in old : pick[r] \notin First(r, m.view, m.at)}
             /\ nodes' = (nodes \ part) \cup Close(part, m.at)
                         \cup {deleted_node(n, b, m.at) : n \in D}
     /\ UNCHANGED branch

-----------------------------------------------------------------------------
(* Branches.                                                                *)

CreateBranch(b) ==
  /\ clock < MaxTime
  /\ ~ branch[b].open
  /\ clock' = clock + 1
  /\ branch' = [branch EXCEPT ![b] = [open |-> TRUE, created_at |-> clock + 1,
                                      branched_from |-> clock + 1]]
  /\ UNCHANGED <<nodes, rels, request, incidents>>

(* Ends of edges that began or ended after a time. *)
Since(e, t) == e.from > t \/ e.to > t
Touched(N, R) == {e.node : e \in N} \cup {e.rel.child : e \in R} \cup {e.rel.parent : e \in R}
TouchedInMain(b) ==
  Touched({e \in nodes : e.br = Main /\ Since(e, branch[b].branched_from)},
          {e \in rels : e.br = Main /\ Since(e, branch[b].branched_from)})

(* Mutant: edges closed in the past are kept as well. *)
Rebased_all(S, b, at) ==
  {e \in S : e.br # b} \cup {[e EXCEPT !.from = at] : e \in {f \in S : f.br = b}}

(* rebase_graph: the edges of the branch that are not closed are moved up. *)
Rebased(S, b, at) ==
  {e \in S : e.br # b}
  \cup {[e EXCEPT !.from = at] : e \in {f \in S : f.br = b /\ (f.to = Null \/ f.to >= at)}}

Rebase(b) ==
  LET at == clock + 1
      N == {e \in nodes : e.br = b /\ e.to = Null}
      R == {e \in rels : e.br = b /\ e.to = Null}
  IN /\ clock < MaxTime
     /\ branch[b].open
     /\ clock' = at
     /\ nodes' = Rebased(nodes, b, at)
     /\ rels' = Rebased(rels, b, at)
     /\ branch' = [branch EXCEPT ![b].branched_from = at]
     /\ incidents' = incidents \cup {i \in {"crossed"} : Touched(N, R) \cap TouchedInMain(b) # {}}
     /\ UNCHANGED request

(* DiffNodeQuery and _calculate_diff_nodes: edges of the branch that are not *)
(* closed before diff_to.                                                    *)
DiffNodes(b, t) ==
  {e \in nodes : e.br = b /\ e.from >= branch[b].created_at /\ e.from <= t
                 /\ (e.to = Null \/ e.to >= t)}

(* DiffRelationshipQuery: of the paths whose edges were added together on a   *)
(* branch since start, closed ones included, the latest.                     *)
DiffPaths(r, b, start, t) ==
  LET S == {p \in [child : {e \in rels : e.end = "child"}, parent : {e \in rels : e.end = "parent"}] :
              /\ p.child.rel = r /\ p.parent = [p.child EXCEPT !.end = "parent"]
              /\ p.child.br = b /\ p.child.from >= start /\ p.child.from <= t
              /\ (p.child.to = Null \/ (p.child.to >= start /\ p.child.to <= t))}
  IN {p \in S : \A o \in S : o.child.from <= p.child.from}

DiffRels(b, start, t) == {r \in Known : DiffPaths(r, b, start, t) # {}}

(* get_modified_paths_graph: the peer of a relationship of cardinality one   *)
(* that changed on both sides.                                               *)
Conflicts(b, t) ==
  {r.child : r \in DiffRels(b, branch[b].created_at, t)}
  \cap {r.child : r \in DiffRels(Main, branch[b].created_at, t)}

(* Mutant: the branch goes on reading main as it was. *)
MovedOn_not(b, t) == branch

(* The end of merge_graph: the branch reads main from now on. *)
MovedOn(b, t) == [branch EXCEPT ![b].branched_from = t]

(* BranchMerger.merge: resolved holds the children whose conflict has a       *)
(* resolution, keep those of which the branch's side is kept.                *)
Merge(b, resolved, keep) ==
  LET at == clock + 1
      added == {e \in DiffNodes(b, at) : e.status = "active"}
      removed == {e \in DiffNodes(b, at) : e.status = "deleted" /\ NodeActive(View(Main), e.node, at)}
      origin == {e \in UNION {CurrentNodeEdges(View(Main), d.node, at) : d \in removed} : e.status = "active"}
      R == {r \in DiffRels(b, branch[b].created_at, at) : r.child \notin resolved \/ r.child \in keep}
  IN /\ clock + 1 < MaxTime
     /\ branch[b].open
     /\ IF resolved = {} THEN Conflicts(b, at) = {} ELSE Conflicts(b, at) \subseteq resolved
     /\ added \cup removed # {} \/ R # {}
     /\ \E pick \in [R -> UNION {DiffPaths(r, b, branch[b].created_at, at) : r \in R}] :
          LET own == UNION {{pick[r].child, pick[r].parent} : r \in R}
          IN /\ \A r \in R : pick[r].child.rel = r
             /\ rels' = (rels \ own) \cup Close(own, at)
                        \cup UNION {rel_edges(r, Main, pick[r].child.status, at) : r \in R}
     /\ nodes' = (nodes \ (added \cup removed \cup origin)) \cup Close(added \cup removed \cup origin, at)
                 \cup {node_edge(e.node, Main, "active", at) : e \in added}
                 \cup {node_edge(e.node, Main, "deleted", at) : e \in removed}
     /\ clock' = clock + 2
     /\ branch' = MovedOn(b, clock + 2)
     /\ incidents' = incidents \cup {i \in {"crossed"} :
          \/ resolved # keep
          \/ Touched(added \cup removed, {e \in rels : e.rel \in R /\ e.br = b}) \cap TouchedInMain(b) # {}}
     /\ UNCHANGED request

-----------------------------------------------------------------------------
Next ==
  \/ \E q \in Request :
       \/ \E b \in AnyBranch, n \in Node, p \in Parent, op \in {"create", "update", "delete"} :
            Begin(q, op, b, n, p)
       \/ CommitCreate(q) \/ CommitUpdate(q) \/ CommitDelete(q) \/ Abort(q)
  \/ \E b \in Branch :
       \/ CreateBranch(b) \/ Rebase(b)
       \/ \E resolved, keep \in SUBSET Child : keep \subseteq resolved /\ Merge(b, resolved, keep)

Spec == Init /\ [][Next]_vars

-----------------------------------------------------------------------------
(* Types; no edge begins in the future or ends before it begins, whatever the *)
(* order in which requests, rebases and merges stamp and close edges.        *)
TypeOK ==
  /\ nodes \subseteq NodeEdge
  /\ rels \subseteq RelEdge
  /\ \A e \in nodes \cup rels : e.from <= clock /\ e.to <= clock /\ (e.to = Null \/ e.from <= e.to)
  /\ branch \in [Branch -> [open : BOOLEAN, created_at : 0..MaxTime, branched_from : 0..MaxTime]]
  /\ clock \in Time
  /\ request \in [Request -> Mutation \cup {Idle}]
  /\ incidents \subseteq Incident

(* What a branch shows: every relationship joins two nodes that are there,   *)
(* every child has one parent, and no read depends on the order of ties.     *)
Connected(v, t) ==
  /\ \A r \in MaySee(v, t) : NodeActive(v, r.child, t) /\ NodeActive(v, r.parent, t)
  /\ \A c \in Child : NodeActive(v, c, t) => Cardinality({r \in MaySee(v, t) : r.child = c}) = 1
  /\ MaySee(v, t) = MustSee(v, t)

(* Main and every branch stay connected, unless a mutation commits on stale  *)
(* reads or in the past, a delete closes the wrong path, or a merge or a     *)
(* rebase joins changes of both sides to the same node.                      *)
NoDangling ==
  incidents = {} => \A b \in AnyBranch : Exists(b) => Connected(View(b), clock + 1)

(* A node deleted on main does not come back: no mutation, merge or repeated *)
(* merge shows it again, whatever raced.                                     *)
NoResurrection ==
  \A e \in nodes : e.br = Main /\ e.status = "deleted" => ~ NodeActive(View(Main), e.node, clock + 1)

OwnEdges(b) == {e \in nodes \cup rels : e.br = b}

(* Only a merge draws two timestamps. *)
MergeStep(b) == clock' = clock + 2 /\ OwnEdges(b)' # OwnEdges(b)

OwnsNode(b, n) == \E e \in nodes : e.br = b /\ e.node = n /\ e.to = Null
OwnsRel(b, r) == \E e \in rels : e.br = b /\ e.rel = r /\ e.to = Null

(* After a merge main shows what the branch changed and, for the rest, what  *)
(* it showed before; and the branch shows the same as main.                  *)
MergeConverges ==
  [][\A b \in Branch : MergeStep(b) /\ incidents' = {} =>
       /\ MaySee(View(Main), clock)' = MaySee(View(b), clock)'
       /\ MaySee(View(Main), clock)' =
            {r \in Known : r \in MaySee(View(IF OwnsRel(b, r) THEN b ELSE Main), clock)}
       /\ \A n \in Node :
            /\ NodeActive(View(Main), n, clock)' = NodeActive(View(b), n, clock)'
            /\ NodeActive(View(Main), n, clock)' =
                 NodeActive(View(IF OwnsNode(b, n) THEN b ELSE Main), n, clock)]_vars
=============================================================================
