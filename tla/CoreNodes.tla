------------------------------ MODULE CoreNodes ------------------------------
(***************************************************************************)
(* Nodes of the core kinds, and of kinds that users add, on the default     *)
(* branch: how the relationships of the schema decide what may be created,  *)
(* related and deleted.                                                     *)
(*                                                                          *)
(* NodeManager.delete asks an index of the schema for the relationships that *)
(* cascade and for those that other kinds cannot do without, and finds their *)
(* peers by one query on the exact kinds the index holds.  The mutations that *)
(* create a node and that change its peers check what they are asked, and    *)
(* write later: nothing is locked and nothing is checked again.              *)
(***************************************************************************)
EXTENDS Naturals, FiniteSets, CoreSchema

CONSTANTS
    Models,       \* the kinds that are loaded: those of core_models
    UserKinds,    \* and those that users have added
    Item,         \* the nodes that can be created
    KindOf,       \* the kind of each
    Scopes,       \* bound: the nodes that one behaviour is about
    MaxChanges    \* bound: mutations that change the peers of a node

ASSUME CoreAssumption ==
    /\ DOMAIN Models = DOMAIN core_models \cup UserKinds
    /\ DOMAIN core_models \cap UserKinds = {}
    /\ \A k \in DOMAIN core_models : Models[k] = core_models[k]
    /\ DOMAIN KindOf = Item
    /\ \A i \in Item : KindOf[i] \in DOMAIN Models /\ ~ Models[KindOf[i]].generic
    /\ \A s \in Scopes : s \subseteq Item
    /\ MaxChanges \in Nat

VARIABLES
    scope,    \* the nodes this behaviour is about
    made,     \* nodes that a request creates or has created
    exists,   \* those of them that are there
    links,    \* active relationships: their identifier and their two ends
    pending,  \* mutations between their checks and their commit
    changes,  \* mutations that changed the peers of a node so far
    raced     \* history: links that were written after what was checked had changed

coreVars == <<scope, made, exists, links, pending, changes, raced>>

-----------------------------------------------------------------------------
(* The schema.                                                              *)

Internal == {"InternalAccountToken", "InternalRefreshToken"}

(* add_groups: whatever is not a group may be in groups. *)
group_relationships ==
    {Many("member_of_groups", "CoreGroup", {"group_member"}),
     Many("subscriber_of_groups", "CoreGroup", {"group_subscriber"})}

(* process_inheritance: what the kind itself declares goes before what it    *)
(* inherits.                                                                *)
Relationships(k) ==
    LET m == Models[k]
        own == m.relationships
        inherited == UNION {Models[g].relationships : g \in m.inherit_from}
        groups == IF \/ k \in {"CoreGroup", "LineageOwner", "LineageSource"}
                     \/ "CoreGroup" \in m.inherit_from
                  THEN {} ELSE group_relationships
    IN  own \cup {r \in inherited \cup groups : \A o \in own : o.name # r.name}

(* A node is of its kind and of its generics; CoreNode is used by all kinds  *)
(* that inherit or that users have added.                                    *)
IsA(k, peer) ==
    \/ k = peer
    \/ peer \in Models[k].inherit_from
    \/ peer = "CoreNode" /\ (Models[k].inherit_from # {} \/ k \in UserKinds)

(* The relationships of each kind once the schema is processed. *)
Schema == [k \in DOMAIN Models |-> Relationships(k)]

Of(i) == Schema[KindOf[i]]

(* The side of a relationship that a node sees, if its kind declares it. *)
Sides(i, identifier) == {r \in Of(i) : r.identifier = identifier}

Link(identifier, i, j) == [identifier |-> identifier, ends |-> {i, j}]

PeersIn(L, i, identifier) ==
    {j \in Item \ {i} : Link(identifier, i, j) \in L}

Peers(i, identifier) == PeersIn(links, i, identifier)

(* What the declared peer of a relationship knows of it. *)
PeerSides(r) == {q \in Schema[r.peer] : q.identifier = r.identifier}

Valid(r, j) == j \in exists /\ IsA(KindOf[j], r.peer)

(* RelationshipCountConstraint: one more peer, or one less, on the other     *)
(* side.  Only a relationship of cardinality one has counts of its own       *)
(* (process_cardinality_counts).                                             *)
MayGain(r, j) == \A q \in PeerSides(r) : q.cardinality = "one" => Peers(j, r.identifier) = {}
MayLose(r, j) ==
    \A q \in PeerSides(r) : q.cardinality = "one" /\ ~ q.optional =>
        Cardinality(Peers(j, r.identifier)) > 1

-----------------------------------------------------------------------------
(* Mutations: a request names a peer for each of some relationships of a     *)
(* node, and knows the links that it takes away.                             *)

(* Mutant: the other peers of a peer are not looked at.                      *)
Unrelated_kind(i, r, j) == r.peer # "CoreNode" => IsA(KindOf[j], r.peer)

(* RelationshipAdd and RelationshipRemove: the peer has the right kind and,  *)
(* if it can have one only, no other.  The peers of a relationship to any    *)
(* node are not checked.                                                     *)
Unrelated(i, r, j) ==
    r.peer # "CoreNode" =>
        /\ IsA(KindOf[j], r.peer)
        /\ \A q \in Sides(j, r.identifier) :
              Sides(j, r.identifier) = {q} /\ q.cardinality = "one"
                => Peers(j, r.identifier) \subseteq {i}

LinksOf(i, r) == {Link(r.identifier, i, k) : k \in Peers(i, r.identifier)}

Added(c) ==
    IF c.op = "remove" THEN {}
    ELSE {Link(r.identifier, c.source, c.peers[r]) : r \in DOMAIN c.peers}

(* What a request has found to be so when it starts to write. *)
Checked(c) ==
    LET i == c.source
    IN  /\ c.op # "create" => i \in exists
        /\ \A r \in DOMAIN c.peers :
              LET j == c.peers[r]
              IN  IF c.op \in {"create", "update"}
                  THEN /\ Valid(r, j) /\ MayGain(r, j)
                       /\ c.drop = LinksOf(i, r)
                       /\ \A k \in Peers(i, r.identifier) : MayLose(r, k)
                  ELSE /\ j \in exists /\ Unrelated(i, r, j)
                       /\ j \in Peers(i, r.identifier) <=> c.op = "remove"

Start(c) == Checked(c) /\ pending' = pending \cup {c}

(* A new node and the peers it must have. *)
StartCreate(i) ==
    LET required == {r \in Of(i) : ~ r.optional}
    IN  /\ i \in scope \ made
        /\ \E peers \in [required -> exists] :
              Start([op |-> "create", source |-> i, peers |-> peers, drop |-> {}])
        /\ made' = made \cup {i}
        /\ UNCHANGED <<scope, exists, links, changes, raced>>

(* Another peer by a relationship of cardinality one. *)
StartUpdate(i) ==
    /\ \E r \in Of(i), j \in exists \ {i} :
          /\ r.cardinality = "one" /\ ~ r.read_only
          /\ j \notin Peers(i, r.identifier)
          /\ Start([op |-> "update", source |-> i, peers |-> [q \in {r} |-> j],
                    drop |-> LinksOf(i, r)])
    /\ changes < MaxChanges /\ changes' = changes + 1
    /\ UNCHANGED <<scope, made, exists, links, raced>>

(* RelationshipAdd and RelationshipRemove. *)
StartAdd(i) ==
    /\ \E r \in Of(i), j \in exists \ {i} :
          /\ r.cardinality = "many"
          /\ Start([op |-> "add", source |-> i, peers |-> [q \in {r} |-> j], drop |-> {}])
    /\ changes < MaxChanges /\ changes' = changes + 1
    /\ UNCHANGED <<scope, made, exists, links, raced>>

StartRemove(i) ==
    /\ \E r \in Of(i), j \in exists \ {i} :
          /\ r.cardinality = "many"
          /\ Start([op |-> "remove", source |-> i, peers |-> [q \in {r} |-> j],
                    drop |-> {Link(r.identifier, i, j)}])
    /\ changes < MaxChanges /\ changes' = changes + 1
    /\ UNCHANGED <<scope, made, exists, links, raced>>

(* The transaction: peers are looked up as of the time of the request, and   *)
(* links that are gone are closed again.                                     *)
Write(c) ==
    /\ c \in pending /\ pending' = pending \ {c}
    /\ links' = (links \ c.drop) \cup Added(c)
    /\ raced' = IF Checked(c) THEN raced \ Added(c) ELSE raced \cup Added(c)
    /\ UNCHANGED <<scope, made, changes>>

WriteCreate(c) == c.op = "create" /\ Write(c) /\ exists' = exists \cup {c.source}
WriteUpdate(c) == c.op = "update" /\ Write(c) /\ UNCHANGED exists
WriteAdd(c)    == c.op = "add" /\ Write(c) /\ UNCHANGED exists
WriteRemove(c) == c.op = "remove" /\ Write(c) /\ UNCHANGED exists

-----------------------------------------------------------------------------
(* NodeDeleteIndex.  An entry leads from a kind by an identifier to a kind;  *)
(* there is one for each kind and identifier of a type.                      *)

Entry(k, type, identifier, peer) ==
    [source |-> k, type |-> type, identifier |-> identifier, peer |-> peer]

cascading(k) == {r \in Schema[k] : r.on_delete = "cascade"}

(* Mutant: the components of components are not indexed.                     *)
CascadeKinds_start(start) == {start}

(* The kinds that cascading relationships lead to, generics included, of     *)
(* those that have cascading relationships themselves.                       *)
CascadePeers ==
    {k \in {r.peer : r \in UNION {cascading(m) : m \in DOMAIN Models}} : cascading(k) # {}}
CascadeKinds(start) ==
    {start} \cup {k \in CascadePeers : \A K \in SUBSET CascadePeers :
        (\A m \in K \cup {start} : \A r \in cascading(m) : cascading(r.peer) # {} => r.peer \in K)
            => k \in K}

_index_cascading_deletes(start) ==
    UNION {{Entry(k, "cascade", r.identifier, r.peer) : r \in cascading(k)} :
             k \in CascadeKinds(start)}

(* Kinds with a mandatory relationship to exactly this kind. *)
Dependent(start, identifier) ==
    {k \in DOMAIN Models : \E r \in Schema[k] :
        ~ r.optional /\ r.peer = start /\ r.identifier = identifier}

(* Of several kinds the last one that is looked at stays; generics come      *)
(* after nodes.                                                              *)
LastOf(K) == CHOOSE k \in K : (\E g \in K : Models[g].generic) => Models[k].generic

(* Mutant: only the kinds with an optional relationship are indexed.         *)
_index_dependent_schema_optional(start) ==
    {Entry(start, "dependent", r.identifier, k) :
       k \in DOMAIN Models, r \in {q \in UNION {Schema[k] : k \in DOMAIN Models} :
                                  q.optional /\ q.peer = start}}

_index_dependent_schema(start) ==
    {Entry(start, "dependent", id, LastOf(Dependent(start, id))) :
       id \in {r.identifier : r \in {q \in UNION {Schema[k] : k \in DOMAIN Models} :
                                     ~ q.optional /\ q.peer = start}}}

Index == [k \in {KindOf[i] : i \in Item} |->
            _index_cascading_deletes(k) \cup _index_dependent_schema(k)]

(* RelationshipGetByIdentifierQuery: the kinds of both ends are those of an  *)
(* entry.                                                                    *)
Matches(index, i, identifier, j) ==
    /\ {KindOf[i], KindOf[j]} \cap Internal = {}
    /\ \E e \in index : /\ e.source = KindOf[i] /\ e.identifier = identifier
                        /\ e.peer = KindOf[j]

(* _build_peer_data_map and get_relationship_types: the peers of a node by   *)
(* relationships of a type.  What was found in one direction also counts in  *)
(* the other.                                                                *)
PeersOfType(index, type) ==
    [i \in scope |->
       {j \in scope : \E l \in links :
          /\ l.ends = {i, j}
          /\ Matches(index, i, l.identifier, j) \/ Matches(index, j, l.identifier, i)
          /\ \E e \in index : /\ e.source = KindOf[i] /\ e.type = type
                              /\ e.identifier = l.identifier}]

(* All that is reached from a node by a function to sets of nodes. *)
ReachedBy(next, i) ==
    {j \in scope : \A S \in SUBSET scope :
        i \in S /\ (\A a \in S : next[a] \subseteq S) => j \in S}

(* The order in which a node and its components are deleted: each still      *)
(* finds the peers that it alone has declared a relationship to.             *)
Orderly(i, gone) ==
    \E rank \in [gone -> 1 .. Cardinality(gone)] :
        /\ \A a \in gone \ {i} : rank[i] < rank[a]
        /\ \A a, b \in gone : a # b =>
              /\ rank[a] # rank[b]
              /\ \A r \in Of(a) : /\ Link(r.identifier, a, b) \in links
                                  /\ Sides(b, r.identifier) = {}
                                  => rank[a] < rank[b]

(* NodeManager.delete and Node.delete: the relationships that its kind       *)
(* declares are deleted with a node.  A peer that is not found ends it all.  *)
DeleteItem(i) ==
    /\ i \in exists
    /\ \E index \in {Index[KindOf[i]]} : \E ids \in {ReachedBy(PeersOfType(index, "cascade"), i)} :
        LET dependents == UNION {PeersOfType(index, "dependent")[a] : a \in ids}
            gone == ids \cap exists
        IN  /\ dependents \subseteq ids
            /\ \A a \in gone : \A r \in Of(a) : Peers(a, r.identifier) \subseteq exists
            /\ Orderly(i, gone)
            /\ exists' = exists \ gone
            /\ links' = {l \in links : \A a \in l.ends \cap gone : Sides(a, l.identifier) = {}}
    /\ UNCHANGED <<scope, made, pending, changes, raced>>

-----------------------------------------------------------------------------

CoreInit ==
    /\ scope \in Scopes
    /\ made = {} /\ exists = {} /\ links = {} /\ pending = {}
    /\ changes = 0 /\ raced = {}

CoreNext ==
    \/ \E i \in scope : StartCreate(i) \/ StartUpdate(i) \/ StartAdd(i) \/ StartRemove(i)
                         \/ DeleteItem(i)
    \/ \E c \in pending : WriteCreate(c) \/ WriteUpdate(c) \/ WriteAdd(c) \/ WriteRemove(c)

CoreSpec == CoreInit /\ [][CoreNext]_coreVars

-----------------------------------------------------------------------------

(* Whether the schema agrees that a node can have one peer only by a         *)
(* relationship: its kind has no other relationship of the identifier        *)
(* (validate_identifiers), and those that may lead to it name a kind that    *)
(* has the limit as well.                                                    *)
Leads(r, j) == IsA(KindOf[j], r.peer) \/ r.peer = "CoreNode"
Agreed(i, r) ==
    \A j \in Item : \A q \in Of(j) : q.identifier = r.identifier =>
        /\ j = i => q = r
        /\ Leads(q, i) => q.peer # "CoreNode" /\ \E o \in PeerSides(q) : o.cardinality = "one"

(* The relationships by which each node can have one peer only. *)
Limits == [i \in Item |-> {r \in Of(i) : r.cardinality = "one" /\ Agreed(i, r)}]

(* By a relationship of cardinality one a node has one peer, from whichever  *)
(* side and by whichever mutations it was set, and any other peer was        *)
(* written by a request whose checks were outdated when it committed.        *)
SinglePeer ==
    \A i \in exists : \A r \in Limits[i] :
        Cardinality(PeersIn(links \ raced, i, r.identifier)) <= 1

Components(i, Declares(_, _)) ==
    ReachedBy([a \in scope |-> {b \in exists : \E r \in cascading(KindOf[a]) :
                 Declares(r, KindOf[b]) /\ Link(r.identifier, a, b) \in links}], i)

MustGo(i) == Components(i, LAMBDA r, k : r.peer = k /\ k \notin Internal)
MayGo(i)  == Components(i, LAMBDA r, k : IsA(k, r.peer))

(* A deletion takes with it every component of a node, of its components and *)
(* so on, as long as the relationship names their very kind, and nothing     *)
(* that is no component.  Components that are declared by a generic, like    *)
(* the threads and validations of a proposed change, may stay behind.        *)
CascadeDeletes ==
    [][exists' # exists /\ exists' \subseteq exists =>
         \E i \in exists \ exists' :
            MustGo(i) \subseteq exists \ exists' /\ exists \ exists' \subseteq MayGo(i)]_coreVars

(* Relationships that the index does not see: to a generic, inherited from   *)
(* one, or of internal kinds.                                                *)
Overlooked(i, r) ==
    \/ Models[r.peer].generic \/ KindOf[i] \in Internal
    \/ \E g \in Models[KindOf[i]].inherit_from : r \in Models[g].relationships

(* A deletion leaves no node without a peer that it must have: it is refused *)
(* if the node itself is such a peer, unless the relationship is overlooked. *)
(* The peers of its components are not asked for.                            *)
PeersKept ==
    [][\A i \in exists \cap exists' : \A r \in Of(i) :
         \A j \in Peers(i, r.identifier) \ exists' :
            ~ r.optional /\ j \in exists =>
               \/ Overlooked(i, r)
               \/ \E a \in exists \ exists' : a # j /\ j \in MayGo(a)]_coreVars

(* What DeletionExact asks of the schema.  A component, or a peer that is    *)
(* mandatory, has an identifier that its kind uses for nothing else, and the *)
(* kind that it leads to agrees with it: it has a mandatory relationship     *)
(* back only if it is the very kind that is named.                           *)
Separate ==
    /\ \A k \in DOMAIN Models : \A r \in cascading(k) : r.peer \in DOMAIN Models
    /\ \A i, j \in Item :
        /\ \A r, q \in Of(i) :
              (r.on_delete = "cascade" \/ ~ r.optional) /\ q.identifier = r.identifier => q = r
        /\ \A r \in cascading(KindOf[i]) :
              /\ KindOf[i] \notin Internal
              /\ Dependent(KindOf[i], r.identifier) # {} =>
                    (KindOf[j] = LastOf(Dependent(KindOf[i], r.identifier)) => r.peer = KindOf[j])
              /\ \A q \in cascading(KindOf[j]) :
                    q.identifier = r.identifier /\ q.peer = KindOf[i] => IsA(KindOf[j], r.peer)
        /\ \A r \in Of(i) : ~ r.optional /\ ~ Overlooked(i, r) =>
              /\ r.peer \notin Internal
              /\ Dependent(r.peer, r.identifier) = {KindOf[i]}
              /\ Leads(r, j) => KindOf[j] = r.peer
              /\ \A q \in Of(j) : q.identifier = r.identifier /\ Leads(q, i) => KindOf[j] = r.peer

(* A deletion takes what depends on the node and leaves what needs it alone. *)
DeletionExact == CascadeDeletes /\ PeersKept
=============================================================================
