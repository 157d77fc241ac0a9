---------------------------- MODULE SchemaUpdate ----------------------------
(***************************************************************************)
(* A change of the schema while there are data: the validators that accept *)
(* or refuse it, the migrations that adapt the data, and the requests that  *)
(* write data meanwhile under the schema their worker has in memory.        *)
(*                                                                          *)
(* One load of the schema changes one thing, given by change.  It touches   *)
(* one kind K: its attribute "a", its relationship to the peers, its place  *)
(* in the hierarchy, or the kind itself; requests write only that part.     *)
(* The graph is kept as the database has it, so that a query is written as  *)
(* the path it matches, the order it sorts by and what it then filters.     *)
(***************************************************************************)
EXTENDS Naturals, FiniteSets, Sequences

CONSTANTS
  Node,        \* ids of nodes of the kind that the load changes
  Peer,        \* ids of nodes they may be related to
  Foreign,     \* peers of a kind that the new schema does not allow
  Main,        \* registry.default_branch
  Branch,      \* the user branch
  Changes,     \* constraint and migration names the load may stand for
  MaxTime,     \* bound: clock ticks
  MaxPending   \* bound: requests between their check and their transaction

ASSUME PeerAssumption == Foreign \subseteq Peer
ASSUME BranchAssumption == Main # Branch
ASSUME BoundAssumption == MaxTime \in Nat /\ MaxPending \in Nat

VARIABLES
  edges,       \* the relationships of the graph database
  branched,    \* branched_from of the user branch, Null before it exists
  clock,       \* the last timestamp drawn
  change,      \* what the load changes
  load,        \* the load that has the schema lock: its branch and how far it is
  updated,     \* branches whose schema in the database is the new one
  stale,       \* branches of which another worker still has the schema of before
  pending,     \* writes whose constraints have been checked
  incidents    \* history: the races met so far

vars == <<edges, branched, clock, change, load, updated, stale, pending, incidents>>

-----------------------------------------------------------------------------
(* Constraint names of CONSTRAINT_VALIDATOR_MAP and names of MIGRATION_MAP. *)
AttributeConstraints ==
  {"attribute.regex.update", "attribute.enum.update", "attribute.choices.update", "attribute.kind.update",
   "attribute.max_length.update", "attribute.optional.update", "attribute.unique.update"}
UniqueConstraints == {"attribute.unique.update", "node.uniqueness_constraints.update"}
RelationshipConstraints ==
  {"relationship.peer.update", "relationship.cardinality.update", "relationship.min_count.update",
   "relationship.optional.update", "node.parent.update"}
Migrations ==
  {"node.attribute.add", "node.attribute.remove", "attribute.name.update", "node.remove", "node.name.update"}

ASSUME ChangesAssumption ==
  Changes \subseteq AttributeConstraints \cup UniqueConstraints \cup RelationshipConstraints
                    \cup Migrations \cup {"node.generate_profile.update"}

Null == 0
Time == 1..MaxTime
NULL_VALUE == "NULL"
AnyBranch == {Main, Branch}
Schema == {"old", "new"}

(* Values that tell the constraints apart: "good" satisfies each of them,   *)
(* "odd" none, "part" starts as the new regex asks and goes on differently. *)
Value ==
  CASE change = "attribute.regex.update" -> {"good", "part", "odd"}
    [] change \in {"attribute.max_length.update", "attribute.optional.update", "node.attribute.add"} ->
         {"good", "odd", NULL_VALUE}
    [] OTHER -> {"good", "odd"}

(* What is stored of an attribute: a value, and whether it is the default    *)
(* because none was given.  Only the uniqueness of an attribute tells a       *)
(* default from the same value that was given.                                *)
Content ==
  {<<v, FALSE>> : v \in Value}
  \cup (IF change = "attribute.unique.update" THEN {<<"good", TRUE>>} ELSE {})

-----------------------------------------------------------------------------
(* Vertices of the graph, and edges with the properties every edge has. *)
Root == <<"Root">>
NodeVertex(n, kind) == <<"Node", n, kind>>
Attribute(n, name, at) == <<"Attribute", n, name, at>>
AttributeValue(x) == <<"AttributeValue", x[1], x[2]>>
Relationship(n, p, at) == <<"Relationship", n, p, at>>

Edge(type, src, dst, b, status, at) ==
  [type |-> type, src |-> src, dst |-> dst, br |-> b, status |-> status, from |-> at, to |-> Null]

Now == clock + 1
level(e) == IF e.br = Main THEN 1 ELSE 2
ValidAt(e, at) == e.from <= at /\ (e.to = Null \/ e.to >= at)

(* A branch shows main as of branched_from; queries made with             *)
(* is_isolated=False see main as it is now.                                *)
Visible(b, isolated) ==
  {e \in edges :
     \/ e.br = b /\ ValidAt(e, Now)
     \/ b # Main /\ e.br = Main /\ ValidAt(e, IF isolated THEN branched ELSE Now)}

(* ORDER BY the elements of key, each DESC, LIMIT 1.  Rows that tie are all *)
(* kept: the database may return any of them.                               *)
Above(k, l) == \E i \in 1..Len(k) : k[i] > l[i] /\ \A j \in 1..(i - 1) : k[j] = l[j]
Top(rows, key(_)) == {p \in rows : \A q \in rows : ~Above(key(q), key(p))}
Active(path) == \A i \in 1..Len(path) : path[i].status = "active"

EdgeKey(p) == <<level(p[1]), p[1].from>>
Latest(S) == {p[1] : p \in Top({<<e>> : e \in S}, EdgeKey)}
IsLive(S) == \E e \in Latest(S) : e.status = "active"

NodeVertices == {e.src : e \in {d \in edges : d.type = "IS_PART_OF"}}
OfKind(kind) == {v \in NodeVertices : v[3] = kind}
PartOf(v, S) == {e \in S : e.type = "IS_PART_OF" /\ e.src = v}

(* The nodes of a kind whose latest visible IS_PART_OF edge is active. *)
ActiveNodes(kind, S) == {v \in OfKind(kind) : IsLive(PartOf(v, S))}

-----------------------------------------------------------------------------
(* The new constraints.  re.match looks at the start of a value only; the  *)
(* =~ of the database matches the whole of it.  The database keeps no null: *)
(* a missing value is the string "NULL", of four characters.                *)
Matches(v) == v \in {"good", "part"}
FullMatch(v) == v = "good"
Allowed(v) == v \in {"good", "part"}
MaxLength == 3
size(v) == CASE v = NULL_VALUE -> 4 [] v = "odd" -> 5 [] OTHER -> 3

(* BaseAttribute.validate under the schema s of the worker that writes. *)
validate(s, v) ==
  \/ s = "old"
  \/ v = NULL_VALUE /\ change # "attribute.optional.update"
  \/ /\ v # NULL_VALUE
     /\ CASE change = "attribute.regex.update" -> Matches(v)
          [] change = "attribute.max_length.update" -> size(v) <= MaxLength
          [] change \in {"attribute.enum.update", "attribute.choices.update", "attribute.kind.update"} -> Allowed(v)
          [] OTHER -> TRUE

OfType(type, S) == {e \in S : e.type = type}
AttributesFrom(v, name, S) == {e \in OfType("HAS_ATTRIBUTE", S) : e.src = v /\ e.dst[3] = name}
AttributePaths(v, S) ==
  {p \in PartOf(v, S) \X AttributesFrom(v, "a", S) \X OfType("HAS_VALUE", S) : p[3].src = p[2].dst}
AttributeKey(p) == <<level(p[3]), level(p[2]), level(p[1]), p[3].from, p[2].from, p[1].from>>

(* Mutant: main is read as it is now, as the relationship validators do. *)
AttributeRows_main_now(b) ==
  LET S == Visible(b, FALSE) IN
  UNION {{<<v, p[3].dst[2]>> : p \in {q \in Top(AttributePaths(v, S), AttributeKey) : Active(q)}} : v \in OfKind("K")}

(* What the attribute validators select: per node the first path, if it is active. *)
AttributeRows(b) ==
  LET S == Visible(b, TRUE) IN
  UNION {{<<v, p[3].dst[2]>> : p \in {q \in Top(AttributePaths(v, S), AttributeKey) : Active(q)}} : v \in OfKind("K")}

Offending(b, Bad(_)) == {row[1] : row \in {r \in AttributeRows(b) : Bad(r[2])}}

regex_checker(b) == Offending(b, LAMBDA v : v # NULL_VALUE /\ ~FullMatch(v))
enum_checker(b) == Offending(b, LAMBDA v : v # NULL_VALUE /\ ~Allowed(v))
choices_checker(b) == Offending(b, LAMBDA v : v # NULL_VALUE /\ ~Allowed(v))
kind_checker(b) == Offending(b, LAMBDA v : v # NULL_VALUE /\ ~validate("new", v))
length_checker(b) == Offending(b, LAMBDA v : size(v) > MaxLength)
optional_checker(b) == Offending(b, LAMBDA v : v = NULL_VALUE)

(* The queries on uniqueness follow the attribute only, whatever became of the node. *)
ValuePaths(v, S) == {p \in AttributesFrom(v, "a", S) \X OfType("HAS_VALUE", S) : p[2].src = p[1].dst}
ValueKey(p) == <<level(p[1]) + level(p[2]), p[2].from, p[1].from>>
Held(v, S) == {p[2].dst : p \in {q \in Top(ValuePaths(v, S), ValueKey) : Active(q)}}
Duplicates(held) == {v \in OfKind("K") : \E w \in OfKind("K") \ {v} : held[v] \cap held[w] # {}}

(* Grouped by vertex: a default and the same value given are two vertices.    *)
unique_checker(b) ==
  LET S == Visible(b, TRUE) IN Duplicates([v \in OfKind("K") |-> Held(v, S)])
uniqueness_checker(b) ==
  LET S == Visible(b, FALSE) IN Duplicates([v \in OfKind("K") |-> {x[2] : x \in Held(v, S)}])

(* The checks made for one node before it is saved: the value is part of the *)
(* match, so the first path is the first among those with this value.        *)
Taken(n, x, S) ==
  \E v \in OfKind("K") : v[2] # n /\
    \E p \in Top({q \in ValuePaths(v, S) : q[2].dst[2] = x}, ValueKey) : Active(p)
node_attribute_uniqueness(b, n, x) == ~Taken(n, x, Visible(b, TRUE))
node_grouped_uniqueness(b, n, x) == ~Taken(n, x, Visible(b, FALSE))

-----------------------------------------------------------------------------
(* Relationships: node -> Relationship -> peer. *)
RelationshipPaths(v, p, S) ==
  LET related == OfType("IS_RELATED", S) IN
  {q \in {e \in related : e.src = v} \X {e \in related : e.dst = NodeVertex(p, "P")} : q[2].src = q[1].dst}
RelationshipKey(p) ==
  <<level(p[1]) + level(p[2]), p[2].from, p[1].from, Cardinality({i \in 1..2 : p[i].status = "active"})>>
HasPath(v, S) == \E p \in Peer : RelationshipPaths(v, p, S) # {}
Related(v, S) == {p \in Peer : \E q \in Top(RelationshipPaths(v, p, S), RelationshipKey) : Active(q)}

(* Only nodes with some path have a row to count. *)
count_checker(b, min, max) ==
  LET S == Visible(b, FALSE) IN
  {v \in ActiveNodes("K", S) : HasPath(v, S) /\ (Cardinality(Related(v, S)) < min \/ Cardinality(Related(v, S)) > max)}

(* A node without an active edge is reported if it has no edge at all, in any branch and at any time. *)
relationship_optional_checker(b) ==
  LET S == Visible(b, FALSE)
      Rels(v, T) == {e \in T : e.type = "IS_RELATED" /\ e.src = v} IN
  {v \in ActiveNodes("K", S) : ~IsLive(Rels(v, S)) /\ Rels(v, edges) = {}}

peer_checker(b) ==
  LET S == Visible(b, FALSE) IN {v \in ActiveNodes("K", S) : Related(v, S) \cap Foreign # {}}

(* The parent of a node is at the far end of the same directed path. *)
hierarchy_checker(b) ==
  LET S == Visible(b, FALSE) IN {v \in ActiveNodes("K", S) : Related(v, S) \cap Foreign # {}}

generate_profile_checker(b) == ActiveNodes("ProfileK", Visible(b, TRUE))

(* CONSTRAINT_VALIDATOR_MAP: the nodes that do not allow the change. *)
Violations(b) ==
  CASE change = "attribute.regex.update" -> regex_checker(b)
    [] change = "attribute.enum.update" -> enum_checker(b)
    [] change = "attribute.choices.update" -> choices_checker(b)
    [] change = "attribute.kind.update" -> kind_checker(b)
    [] change = "attribute.max_length.update" -> length_checker(b)
    [] change = "attribute.optional.update" -> optional_checker(b)
    [] change = "attribute.unique.update" -> unique_checker(b)
    [] change = "node.uniqueness_constraints.update" -> uniqueness_checker(b)
    [] change = "relationship.cardinality.update" -> count_checker(b, 0, 1)
    [] change = "relationship.min_count.update" -> count_checker(b, 1, Cardinality(Peer))
    [] change = "relationship.optional.update" -> relationship_optional_checker(b)
    [] change = "relationship.peer.update" -> peer_checker(b)
    [] change = "node.parent.update" -> hierarchy_checker(b)
    [] change = "node.generate_profile.update" -> generate_profile_checker(b)
    [] OTHER -> {}

-----------------------------------------------------------------------------
(* What a branch shows. *)
Shown(b) == Visible(b, TRUE)
Vertices(n) == {v \in NodeVertices : v[2] = n}
There(n, b) == \E v \in Vertices(n) : IsLive(PartOf(v, Shown(b)))

(* NodeListGetAttributeQuery: the pairs of edges of a node to its values,  *)
(* each the latest between its two vertices, both active.                   *)
ReadPaths(n, name, b) ==
  LET S == Shown(b) IN
  {p \in (UNION {AttributesFrom(v, name, S) : v \in Vertices(n)}) \X OfType("HAS_VALUE", S) :
     /\ p[2].src = p[1].dst /\ Active(p)
     /\ \A i \in 1..2 : p[i] \in Latest({e \in S : e.src = p[i].src /\ e.dst = p[i].dst})}

(* get_results_group_by: of these the one with the highest scores. *)
time_score(e) == IF e.to = Null THEN 2 ELSE 1
ScoreKey(p) == <<level(p[1]) + level(p[2]), time_score(p[1]) + time_score(p[2])>>
Current(n, name, b) == Top(ReadPaths(n, name, b), ScoreKey)

(* The values a read may return: none if the node has no such attribute, *)
(* several if the rows tie.                                               *)
Reads(n, name, b) == {p[2].dst[2] : p \in Current(n, name, b)}
ReadVertices(n, name, b) == {p[2].dst : p \in Current(n, name, b)}
PeersOf(n, b) == UNION {Related(v, Shown(b)) : v \in Vertices(n)}

-----------------------------------------------------------------------------
(* The schema in the memory of a worker: "old" until the load commits, and  *)
(* on the other workers until they refresh it.                               *)
Known(s, b) == IF b \in updated THEN s = "new" \/ b \in stale ELSE s = "old"

KindOf(s) ==
  CASE change = "node.generate_profile.update" -> "ProfileK"
    [] change = "node.name.update" /\ s = "new" -> "K2"
    [] OTHER -> "K"
HasKind(s) == s = "old" \/ change \notin {"node.remove", "node.generate_profile.update"}
AttributesOf(s) ==
  CASE change \in RelationshipConstraints \cup {"node.generate_profile.update"} -> {}
    [] change = "node.attribute.add" /\ s = "old" -> {}
    [] change = "node.attribute.remove" /\ s = "new" -> {}
    [] change = "attribute.name.update" /\ s = "new" -> {"b"}
    [] OTHER -> {"a"}

(* NodeConstraintRunner.check asks the graph before the transaction begins. *)
constraint_runner(s, b, n, v) ==
  \/ s = "old"
  \/ change = "attribute.unique.update" /\ node_attribute_uniqueness(b, n, v)
  \/ change = "node.uniqueness_constraints.update" /\ node_grouped_uniqueness(b, n, v)
  \/ change \notin UniqueConstraints

(* Bound: these changes are followed one tick and one load further. *)
Deep == {"node.attribute.add", "node.attribute.remove", "attribute.name.update"}
MaxLoads == IF change \in Deep THEN 2 ELSE 1

Exists(b) == b = Main \/ branched # Null
(* Mutant: edges are closed at a time before the request. *)
Closed_earlier(S) == {[e EXCEPT !.to = Now - 2] : e \in S}
Closed(S) == {[e EXCEPT !.to = Now] : e \in S}
Apply(close, add) == edges' = (edges \ close) \cup Closed(close) \cup add
Tick == Now <= MaxTime - (IF change \in Deep THEN 0 ELSE 1) /\ clock' = Now

(* Writes that the load cannot have seen: under the old schema after its    *)
(* validators ran, or in main once the branch of the load has left it.      *)
Unseen(b) == b \in updated \/ load = [phase |-> "accepted", branch |-> b]
Moved(b) == IF b = Main /\ branched # Null THEN {<<"main moved", Branch>>} ELSE {}
Races(s, b) == Moved(b) \cup (IF s = "old" /\ Unseen(b) THEN {<<"stale schema", b>>} ELSE {})

(* Bound: a branch that may not conform already is written no more. *)
Spent(b) == change \in UniqueConstraints \cup RelationshipConstraints /\ incidents \cap {<<"unmet", b>>, <<"stale schema", b>>} # {}

(* Node.save of a new node: its attributes with it.  A node that must have *)
(* a peer is created with one, which adds no case of its own here.          *)
Mandatory == {"relationship.min_count.update", "relationship.optional.update"}
SaveNew(s, b, n, x) ==
  LET v == NodeVertex(n, KindOf(s)) IN
  /\ Vertices(n) = {}
  /\ ~(s = "new" /\ change \in Mandatory)
  /\ Apply({}, {Edge("IS_PART_OF", v, Root, b, "active", Now)}
       \cup UNION {{Edge("HAS_ATTRIBUTE", v, Attribute(n, a, Now), b, "active", Now),
                     Edge("HAS_VALUE", Attribute(n, a, Now), AttributeValue(x), b, "active", Now)} : a \in AttributesOf(s)})

(* BaseAttribute._update: nothing unless the content differs; a default stays *)
(* one if the same value is given; the edge that is replaced is closed if it  *)
(* is of the same branch.                                                     *)
SaveValue(s, b, n, x) ==
  /\ There(n, b)
  /\ \E a \in AttributesOf(s) : \E p \in Current(n, a, b) :
       /\ p[2].dst # AttributeValue(x) /\ (x[2] \/ p[2].dst[2] # x[1])
       /\ Apply({e \in {p[2]} : e.br = b}, {Edge("HAS_VALUE", p[1].dst, AttributeValue(x), b, "active", Now)})

Save(s, b, n, x) == SaveNew(s, b, n, x) \/ SaveValue(s, b, n, x)

(* A request between its check and its transaction. *)
Open(r) ==
  /\ Cardinality(pending) < MaxPending
  /\ pending' = pending \cup {r}
  /\ UNCHANGED <<edges, branched, clock, change, load, updated, stale, incidents>>

(* A mutation of an attribute under schema s.  Where uniqueness is at stake  *)
(* the checks and the transaction are two steps; one request per node is      *)
(* under way at most.                                                         *)
Check(b, n, x) ==
  /\ change \in UniqueConstraints
  /\ Known("new", b) /\ x \in Content /\ ~Spent(b)
  /\ \A q \in pending : q.node # n
  /\ constraint_runner("new", b, n, x[1])
  /\ \/ Vertices(n) = {}
     \/ There(n, b) /\ x[1] \notin Reads(n, "a", b)
  /\ Open([op |-> "save", br |-> b, node |-> n, content |-> x])

SaveChecked(r) ==
  /\ Tick /\ r \in pending /\ r.op = "save" /\ ~Spent(r.br)
  /\ Save("new", r.br, r.node, r.content)
  /\ pending' = pending \ {r}
  /\ incidents' = incidents \cup Races("new", r.br)
       \cup (IF constraint_runner("new", r.br, r.node, r.content[1]) THEN {} ELSE {<<"unmet", r.br>>})
  /\ UNCHANGED <<branched, change, load, updated, stale>>

Write(s, b, n, x) ==
  /\ Tick /\ Known(s, b) /\ Exists(b) /\ HasKind(s) /\ x \in Content /\ ~Spent(b)
  /\ ~(s = "new" /\ change \in UniqueConstraints)
  /\ validate(s, x[1])
  /\ Save(s, b, n, x)
  /\ incidents' = incidents \cup Races(s, b)
  /\ UNCHANGED <<branched, change, load, updated, stale, pending>>

-----------------------------------------------------------------------------
(* Mutations of the peers of a node. *)
count_per_node(n, b) ==
  LET S == Shown(b) IN
  Cardinality({e.dst : e \in {d \in S : /\ d.type = "IS_RELATED" /\ d.src \in Vertices(n) /\ d.status = "active"
                                        /\ d \in Latest({c \in S : c.src = d.src /\ c.dst = d.dst})}})

(* Under the new schema one more peer must be of a kind it allows, and must  *)
(* be the only one of a relationship that has become of cardinality one.     *)
MayAdd(b, n, p) ==
  /\ change \in {"relationship.peer.update", "node.parent.update"} => p \notin Foreign
  /\ change = "relationship.cardinality.update" => count_per_node(n, b) + 1 <= 1

(* RelationshipCountConstraint and RelationshipValidatorList: an update of    *)
(* the node or of the peer leaves the peers that it must have.                *)
MayRemove(b, n) == change \in Mandatory => count_per_node(n, b) - 1 >= 1

(* Relationship.save. *)
Relate(v, b, p) ==
  LET r == Relationship(v[2], p, Now) IN
  Apply({}, {Edge("IS_RELATED", v, r, b, "active", Now),
             Edge("IS_RELATED", r, NodeVertex(p, "P"), b, "active", Now)})

(* Relationship.delete: both edges again with status deleted, the active *)
(* ones closed where they are of the same branch.                         *)
PathsOf(n, P, b) ==
  {q \in UNION {Top(RelationshipPaths(v, p, Shown(b)), RelationshipKey) : v \in Vertices(n), p \in P} : Active(q)}
EdgesOf(paths) == UNION {{q[i] : i \in 1..Len(q)} : q \in paths}
Deleted(S, b) == {Edge(e.type, e.src, e.dst, b, "deleted", Now) : e \in S}
OfBranch(S, b) == {e \in S : e.br = b}

Unrelate(b, n, p) ==
  LET gone == EdgesOf(PathsOf(n, {p}, b)) IN Apply(OfBranch(gone, b), Deleted(gone, b))

(* Where a node is looked up, and whether it has a peer. *)
LiveVertices(n, b) == {v \in Vertices(n) : IsLive(PartOf(v, Shown(b)))}

(* Mutations that no constraint of the new schema is about. *)
Unbound(s) == s = "old" \/ change \notin RelationshipConstraints
ChangePeers(s, b) ==
  /\ Tick /\ Known(s, b) /\ Exists(b) /\ HasKind(s) /\ ~Spent(b)
  /\ incidents' = incidents \cup Races(s, b)
  /\ UNCHANGED <<branched, change, load, updated, stale, pending>>

AddPeer(s, b, n, p) ==
  /\ change \in RelationshipConstraints \cup {"node.name.update", "node.remove"}
  /\ Unbound(s) /\ ChangePeers(s, b)
  /\ p \notin PeersOf(n, b) /\ \E v \in LiveVertices(n, b) : Relate(v, b, p)
RemovePeer(s, b, n, p) ==
  /\ Unbound(s) /\ ChangePeers(s, b)
  /\ There(n, b) /\ p \in PeersOf(n, b) /\ Unrelate(b, n, p)

(* The others check before they write (NodeConstraintRunner.check, and        *)
(* RelationshipAdd and RelationshipRemove before their transaction).          *)
CheckAdd(b, n, p) ==
  /\ change \in RelationshipConstraints /\ Known("new", b) /\ ~Spent(b)
  /\ There(n, b) /\ p \notin PeersOf(n, b) /\ MayAdd(b, n, p)
  /\ Open([op |-> "add", br |-> b, node |-> n, peer |-> p])

(* RelationshipRemove checks no counts. *)
CheckRemove(b, n, p, counted) ==
  /\ change \in RelationshipConstraints /\ Known("new", b) /\ ~Spent(b)
  /\ There(n, b) /\ p \in PeersOf(n, b) /\ (counted => MayRemove(b, n))
  /\ Open([op |-> "remove", br |-> b, node |-> n, peer |-> p])

(* The transaction looks at neither again; a relationship that is gone is not *)
(* found.                                                                     *)
SaveAdd(r) ==
  /\ Tick /\ r \in pending /\ r.op = "add" /\ ~Spent(r.br)
  /\ Relate(NodeVertex(r.node, "K"), r.br, r.peer)
  /\ pending' = pending \ {r}
  /\ incidents' = incidents \cup Moved(r.br)
       \cup (IF MayAdd(r.br, r.node, r.peer) THEN {} ELSE {<<"unmet", r.br>>})
  /\ UNCHANGED <<branched, change, load, updated, stale>>

SaveRemove(r) ==
  /\ Tick /\ r \in pending /\ r.op = "remove" /\ ~Spent(r.br)
  /\ Unrelate(r.br, r.node, r.peer)
  /\ pending' = pending \ {r}
  /\ incidents' = incidents \cup Moved(r.br)
       \cup (IF r.peer \in PeersOf(r.node, r.br) /\ ~MayRemove(r.br, r.node) THEN {<<"unmet", r.br>>} ELSE {})
  /\ UNCHANGED <<branched, change, load, updated, stale>>

(* Node.delete: BaseAttribute.delete takes every visible edge of the        *)
(* attribute, then the relationships, then the node itself.                  *)
AttributeEdges(n, b) ==
  {e \in Shown(b) : e.type = "HAS_VALUE" /\ \E a \in {"a", "b"} : \E p \in Current(n, a, b) : e.src = p[1].dst}
DeleteNode(b, n) ==
  LET S == Shown(b)
      values == AttributeEdges(n, b)
      attrs == {p[1] : p \in UNION {Current(n, a, b) : a \in {"a", "b"}}}
      rels == EdgesOf(PathsOf(n, Peer, b))
      nodes == UNION {Latest(PartOf(v, S)) : v \in {w \in Vertices(n) : IsLive(PartOf(w, S))}}
      deleted == {Edge("IS_PART_OF", v, Root, b, "deleted", Now) : v \in Vertices(n)} IN
  /\ Tick /\ Exists(b) /\ There(n, b) /\ ~Spent(b)
  /\ Apply(OfBranch(values \cup rels \cup nodes, b), Deleted(values \cup attrs \cup rels, b) \cup deleted)
  /\ incidents' = incidents \cup Moved(b)
  /\ UNCHANGED <<branched, change, load, updated, stale, pending>>

(* create_branch, under the lock of the schema: the branch starts with the *)
(* data and the schema of main.                                              *)
CreateBranch ==
  /\ Tick /\ branched = Null /\ load.phase = "idle"
  /\ branched' = Now
  /\ updated' = updated \cup {b \in {Branch} : Main \in updated}
  /\ stale' = stale \cup {b \in {Branch} : Main \in stale}
  /\ incidents' = incidents \cup {<<i[1], Branch>> : i \in incidents}
  /\ UNCHANGED <<edges, change, load, pending>>

-----------------------------------------------------------------------------
(* The migrations: what a query adds, and what it closes. *)
Between(x, y, S) == {e \in S : {e.src, e.dst} = {x, y}}
AttributeOf(v, name, S) ==
  {e \in Latest({d \in S : d.type = "HAS_ATTRIBUTE" /\ d.src = v /\ d.dst[3] = name}) : e.status = "active"}
(* (attr)-[r]-(peer) and (node)-[r]->(peer): the latest edge to each peer, if active. *)
EdgesAround(x, S) ==
  {e \in S : x \in {e.src, e.dst} /\ e.status = "active" /\ e \in Latest(Between(e.src, e.dst, S))}
EdgesOut(v, S) == {e \in EdgesAround(v, S) : e.src = v}
Moving(e, x, y, b) ==
  Edge(e.type, IF e.src = x THEN y ELSE e.src, IF e.dst = x THEN y ELSE e.dst, b, "active", Now)

DefaultValue == NULL_VALUE

node_attribute_add(b) ==
  LET nodes == {v \in ActiveNodes("K", Visible(b, TRUE)) : ~\E e \in edges : e.type = "HAS_ATTRIBUTE" /\ e.src = v} IN
  Apply({}, UNION {{Edge("HAS_ATTRIBUTE", v, Attribute(v[2], "a", Now), b, "active", Now),
                    Edge("HAS_VALUE", Attribute(v[2], "a", Now), AttributeValue(<<DefaultValue, TRUE>>), b, "active", Now)} : v \in nodes})

(* Mutant: edges are closed whatever their branch is. *)
node_attribute_remove_everywhere(b) ==
  LET S == Visible(b, TRUE)
      gone == UNION {EdgesAround(ra.dst, S) : ra \in UNION {AttributeOf(v, "a", S) : v \in ActiveNodes("K", S)}} IN
  Apply(gone, Deleted(gone, b))

node_attribute_remove(b) ==
  LET S == Visible(b, TRUE)
      gone == UNION {EdgesAround(ra.dst, S) : ra \in UNION {AttributeOf(v, "a", S) : v \in ActiveNodes("K", S)}} IN
  Apply(OfBranch(gone, b), Deleted(gone, b))

(* The edges are copied to a new Attribute; in main the previous ones are  *)
(* closed, in a branch they are marked deleted and stay open.               *)
attribute_name_update(b) ==
  LET S == Visible(b, TRUE)
      attrs == {ra.dst : ra \in UNION {AttributeOf(v, "a", S) : v \in ActiveNodes("K", S)}}
      gone == UNION {EdgesAround(a, S) : a \in attrs}
      copies == UNION {{Moving(e, a, Attribute(a[2], "b", Now), b) : e \in EdgesAround(a, S)} : a \in attrs} IN
  IF b = Main THEN Apply(OfBranch(gone, b), copies) ELSE Apply({}, copies \cup Deleted(gone, b))

node_remove(b) ==
  LET S == Visible(b, TRUE)
      gone == UNION {EdgesOut(v, S) : v \in ActiveNodes("K", S)} IN
  Apply(OfBranch(gone, b), Deleted(gone, b))

node_kind_update(b) ==
  LET S == Visible(b, TRUE)
      nodes == ActiveNodes("K", S)
      gone == UNION {EdgesOut(v, S) : v \in nodes}
      copies == UNION {{Moving(e, v, NodeVertex(v[2], "K2"), b) : e \in EdgesOut(v, S)} : v \in nodes} IN
  Apply(OfBranch(gone, b), Deleted(gone, b) \cup copies)

(* MIGRATION_MAP. *)
Migration(b) ==
  \/ change = "node.attribute.add" /\ node_attribute_add(b)
  \/ change = "node.attribute.remove" /\ node_attribute_remove(b)
  \/ change = "attribute.name.update" /\ attribute_name_update(b)
  \/ change = "node.remove" /\ node_remove(b)
  \/ change = "node.name.update" /\ node_kind_update(b)

-----------------------------------------------------------------------------
(* The load: validators, the new schema in one transaction, migrations, all *)
(* under the lock of the schema.  A load that changes nothing returns.       *)
Idle == [phase |-> "idle", branch |-> Main]

(* The constraint checkers and the lock that is taken for them.  A load that *)
(* is refused leaves everything as it was.                                    *)
Begin(b) ==
  /\ load = Idle /\ Exists(b) /\ b \notin updated /\ Cardinality(updated) < MaxLoads
  /\ Violations(b) = {}
  /\ load' = [phase |-> "accepted", branch |-> b]
  /\ UNCHANGED <<edges, branched, clock, change, updated, stale, pending, incidents>>

(* A load without migrations is over once it is committed. *)
Commit ==
  /\ load.phase = "accepted"
  /\ load' = IF change \in Migrations THEN [load EXCEPT !.phase = "committed"] ELSE Idle
  /\ updated' = updated \cup {load.branch}
  /\ stale' = stale \cup {load.branch}
  /\ UNCHANGED <<edges, branched, clock, change, pending, incidents>>

Migrate ==
  /\ Tick /\ load.phase = "committed"
  /\ Migration(load.branch)
  /\ load' = Idle
  /\ UNCHANGED <<branched, change, updated, stale, pending, incidents>>

(* The server stops, or a migration fails: what was committed stays.  The    *)
(* same load again finds no difference with the schema and returns.          *)
Interrupt ==
  /\ load # Idle
  /\ load' = Idle
  /\ UNCHANGED <<edges, branched, clock, change, updated, stale, pending, incidents>>

Refresh(b) ==
  /\ b \in stale
  /\ stale' = stale \ {b}
  /\ UNCHANGED <<edges, branched, clock, change, load, updated, pending, incidents>>

-----------------------------------------------------------------------------
(* The peers are in main from the start, and a node of the kind may be.     *)
(* Nodes meet in the uniqueness constraints only: for the others one will do. *)
(* Uniqueness only compares values, so that it is the same which comes first. *)
Nodes == IF change \in UniqueConstraints THEN Node ELSE {CHOOSE n \in Node : TRUE}

Init ==
  /\ change \in Changes
  /\ \/ edges = {}
     \/ \E c \in {d \in Content : change \in UniqueConstraints => d[1] = "good"} :
          LET n == CHOOSE n \in Node : TRUE
              x == NodeVertex(n, KindOf("old")) IN
          edges = {Edge("IS_PART_OF", x, Root, Main, "active", 1)}
                  \cup UNION {{Edge("HAS_ATTRIBUTE", x, Attribute(n, a, 1), Main, "active", 1),
                                Edge("HAS_VALUE", Attribute(n, a, 1), AttributeValue(c), Main, "active", 1)} : a \in AttributesOf("old")}
  /\ branched = Null /\ clock = 1
  /\ load = Idle /\ updated = {} /\ stale = {} /\ pending = {} /\ incidents = {}

Next ==
  \/ CreateBranch \/ Commit \/ Migrate \/ Interrupt
  \/ \E b \in AnyBranch : Begin(b) \/ Refresh(b)
  \/ \E b \in AnyBranch, n \in Nodes : DeleteNode(b, n)
  \/ \E s \in Schema, b \in AnyBranch, n \in Nodes : \E x \in Content : Write(s, b, n, x)
  \/ \E b \in AnyBranch, n \in Nodes : \E x \in Content : Check(b, n, x)
  \/ \E s \in Schema, b \in AnyBranch, n \in Nodes, p \in Peer : AddPeer(s, b, n, p) \/ RemovePeer(s, b, n, p)
  \/ \E b \in AnyBranch, n \in Nodes, p \in Peer :
       CheckAdd(b, n, p) \/ \E counted \in BOOLEAN : CheckRemove(b, n, p, counted)
  \/ \E r \in pending : SaveChecked(r) \/ SaveAdd(r) \/ SaveRemove(r)

Spec == Init /\ [][Next]_vars

-----------------------------------------------------------------------------
(* Every edge is of a known type, begins before it ends, and none begins in *)
(* the future.                                                               *)
TypeOK ==
  /\ \A e \in edges :
       /\ e.type \in {"IS_PART_OF", "HAS_ATTRIBUTE", "HAS_VALUE", "IS_RELATED"}
       /\ e.br \in AnyBranch /\ e.status \in {"active", "deleted"}
       /\ e.from \in 1..clock /\ e.to \in {Null} \cup e.from..clock
  /\ branched \in {Null} \cup Time /\ clock \in Time /\ change \in Changes
  /\ updated \subseteq AnyBranch /\ stale \subseteq updated
  /\ load.phase \in {"idle", "accepted", "committed"} /\ load.branch \in AnyBranch
  /\ \A r \in pending : r.op \in {"save", "add", "remove"} /\ r.br \in AnyBranch /\ r.node \in Node
  /\ incidents \subseteq {"stale schema", "main moved", "unmet"} \X AnyBranch

(* What the new schema asks of a node as a branch shows it.  Three gaps of   *)
(* the validators are left out here: the one on unique attributes takes a    *)
(* default and the same value given for different, the one on min_count has  *)
(* no row for a node without any path to a peer, and the one on optional     *)
(* takes a node that ever had a peer for one that has.                        *)
Conforms(n, b) ==
  CASE change = "attribute.optional.update" -> NULL_VALUE \notin Reads(n, "a", b)
    [] change \in AttributeConstraints \ UniqueConstraints -> \A v \in Reads(n, "a", b) : validate("new", v)
    [] change = "attribute.unique.update" ->
         \A m \in Node \ {n} : There(m, b) => ReadVertices(n, "a", b) \cap ReadVertices(m, "a", b) = {}
    [] change = "node.uniqueness_constraints.update" ->
         \A m \in Node \ {n} : There(m, b) => Reads(n, "a", b) \cap Reads(m, "a", b) = {}
    [] change \in {"relationship.peer.update", "node.parent.update"} -> PeersOf(n, b) \cap Foreign = {}
    [] change = "relationship.cardinality.update" -> Cardinality(PeersOf(n, b)) <= 1
    [] change = "relationship.min_count.update" ->
         PeersOf(n, b) # {} \/ ~\E v \in Vertices(n) : HasPath(v, Visible(b, FALSE))
    [] change = "relationship.optional.update" ->
         PeersOf(n, b) # {} \/ \E e \in edges : e.type = "IS_RELATED" /\ e.src \in Vertices(n)
    [] change = "node.generate_profile.update" -> FALSE
    [] OTHER -> TRUE

(* "validations [...] to ensure the data currently in the database is        *)
(* compliant with the new schema": once a branch has the new schema, every   *)
(* node it shows satisfies it, whatever was written, deleted or overridden   *)
(* on main and on the branch before, and whatever the workers that know the  *)
(* new schema write after.  Three incidents are the only ways out: a write   *)
(* under the old schema after the validators ran; a write that the new schema *)
(* does not allow when it is made, because it was checked before another one  *)
(* or, by RelationshipRemove, not at all; and, for the validators that read   *)
(* main as it is now while the branch shows main as it was, a write in main   *)
(* since.                                                                     *)
AcceptedConforms ==
  \A b \in updated :
    /\ incidents \cap {<<"stale schema", b>>, <<"unmet", b>>} = {}
    /\ <<"main moved", b>> \in incidents =>
         change \notin RelationshipConstraints \cup {"node.uniqueness_constraints.update"}
    => \A n \in Node : There(n, b) => Conforms(n, b)

SameView(b) ==
  \A n \in Node :
    /\ There(n, b)' = There(n, b) /\ PeersOf(n, b)' = PeersOf(n, b)
    /\ \A a \in {"a", "b"} : Reads(n, a, b)' = Reads(n, a, b)

(* The values of main that a branch has replaced: their edges stay open. *)
Overridden(n, b) == {p[2].dst[2] : p \in {q \in ReadPaths(n, "a", b) : b # Main /\ q[2].br = Main}}

(* What the migration owes a node of its branch.  An attribute that another *)
(* branch has added already is not added, and a branch that has replaced a   *)
(* value of main reads either of the two under the new name.                 *)
Migrated(n, b) ==
  CASE change = "node.attribute.add" ->
         \/ Reads(n, "a", b)' # {}
         \/ \E e \in edges : e.type = "HAS_ATTRIBUTE" /\ e.src[2] = n /\ e.br # b
    [] change = "node.attribute.remove" -> Reads(n, "a", b)' = {}
    [] change = "attribute.name.update" ->
         /\ Reads(n, "a", b)' = {} /\ Reads(n, "a", b) \subseteq Reads(n, "b", b)'
         /\ Reads(n, "b", b)' \subseteq Reads(n, "a", b) \cup Reads(n, "b", b) \cup Overridden(n, b)
    [] change = "node.remove" -> ~There(n, b)'
    [] change = "node.name.update" ->
         /\ There(n, b)' /\ Reads(n, "a", b)' = Reads(n, "a", b) /\ PeersOf(n, b)' = PeersOf(n, b)
         /\ \A v \in Vertices(n)' : v[3] = "K" => ~IsLive(PartOf(v, Shown(b)))'
    [] OTHER -> TRUE

(* A migration leaves what the other branch shows as it was, and on its own *)
(* branch every node has the data of before in the form of the new schema,   *)
(* in spite of edges of main that it may not close and of the writes that    *)
(* other workers made under either schema before it ran.                     *)
MigrationMaps ==
  [][\A b \in AnyBranch :
       load = [phase |-> "committed", branch |-> b] /\ load' = Idle /\ clock' # clock
       => /\ \A c \in AnyBranch \ {b} : Exists(c) => SameView(c)
          /\ \A n \in Node : There(n, b) => Migrated(n, b)]_vars

=============================================================================
