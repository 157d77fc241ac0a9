---------------------------- MODULE SchemaBranch ----------------------------
(***************************************************************************)
(* The content of a schema: how a file is laid over the schema a worker    *)
(* has in memory, what `process' derives from it and refuses, what of the  *)
(* result is written to the database, and what other workers and workers   *)
(* that start read back (backend/infrahub/core/schema_manager.py, models.py*)
(* and core/schema/).  One branch; a load runs under the global schema     *)
(* lock, and how its news travels is in SchemaRegistry.                    *)
(*                                                                         *)
(* Attributes and relationships are the elements of a kind, by name.  What *)
(* is only displayed (labels, weights, colours, filters, menus) is left    *)
(* out, and so are renames, which give the id of an element in the file.   *)
(***************************************************************************)
EXTENDS Naturals, SequencesExt, TLC

CONSTANTS
    Worker,     \* API servers and git agents
    Files,      \* Files[i]: a schema file, items and extensions by kind
    MaxLoads,   \* bound: files that are loaded
    MaxFaults   \* bound: transactions that fail

None == "none"
NoId == <<>>
NoElements == <<>>

\* f overwritten by g; f itself, but evaluated once.
Over(f, g) == g @@ f
Once(f)    == f @@ <<>>

\* Elements and kinds as a file gives them when it says nothing more.
AttributeSchema ==
    [is |-> "attribute", id |-> NoId, state |-> "present", inherited |-> FALSE,
     allow_override |-> "any", branch |-> None, optional |-> FALSE, kind |-> "Text",
     default_value |-> FALSE, unique |-> FALSE, read_only |-> FALSE]

RelationshipSchema ==
    [is |-> "relationship", id |-> NoId, state |-> "present", inherited |-> FALSE,
     allow_override |-> "any", branch |-> None, optional |-> TRUE, kind |-> "Generic",
     peer |-> None, identifier |-> {}, cardinality |-> "many", min_count |-> 0,
     max_count |-> 0, direction |-> "bidirectional", on_delete |-> None]

NodeSchema ==
    [is |-> "node", id |-> NoId, state |-> "present", branch |-> "aware",
     display_labels |-> {}, human_friendly_id |-> {}, uniqueness_constraints |-> {},
     inherit_from |-> <<>>, generate_profile |-> TRUE, hierarchy |-> None,
     parent |-> None, children |-> None, elements |-> NoElements]

GenericSchema ==
    [is |-> "generic", id |-> NoId, state |-> "present", branch |-> "aware",
     display_labels |-> {}, human_friendly_id |-> {}, uniqueness_constraints |-> {},
     hierarchical |-> FALSE, used_by |-> {}, elements |-> NoElements]

\* An extension adds elements to a kind that exists.
NodeExtensionSchema == [is |-> "extension", elements |-> NoElements]

Nodes(s)    == {k \in DOMAIN s : s[k].is = "node"}
Generics(s) == {k \in DOMAIN s : s[k].is = "generic"}

AttributesOf(item) == {n \in DOMAIN item.elements : item.elements[n].is = "attribute"}
RelsOf(item)       == DOMAIN item.elements \ AttributesOf(item)
LocalOf(item)      == {n \in DOMAIN item.elements : ~ item.elements[n].inherited}

\* Elements added to those that are not there yet.
WithElements(item, new) == [item EXCEPT !.elements = Over(new, @)]

\* Apply F to every element of every kind.
MapElements(s, F(_, _)) ==
    Once([k \in DOMAIN s |->
             [s[k] EXCEPT !.elements = Once([n \in DOMAIN @ |-> F(k, @[n])])]])

-----------------------------------------------------------------------------
(* HashableModel.update and SchemaBranch.load_schema. *)

\* A field that the file does not give, and that keeps its value.
Unset(f, v) ==
    \/ f \in {"display_labels", "human_friendly_id", "uniqueness_constraints", "identifier"}
       /\ v = {}
    \/ f \in {"hierarchy", "parent", "children", "on_delete", "branch"} /\ v = None
    \/ f = "default_value" /\ ~ v

UpdatedElement(local, other) ==
    Once([f \in DOMAIN local |->
            IF f = "id" \/ Unset(f, other[f]) THEN local[f] ELSE other[f]])

\* update_list_hashable_model: elements are matched by name.
update_list(local, other) ==
    LET Absent(n) == n \in DOMAIN other /\ other[n].state = "absent" IN
    Once([n \in {x \in DOMAIN local \cup DOMAIN other : ~ Absent(x)} |->
            IF n \notin DOMAIN other THEN local[n]
            ELSE IF n \notin DOMAIN local THEN other[n]
            ELSE UpdatedElement(local[n], other[n])])

update(local, other) ==
    Once([f \in DOMAIN local |->
            IF f = "elements" THEN update_list(local.elements, other.elements)
            ELSE IF f \in {"id", "is"} \/ f \notin DOMAIN other \/ Unset(f, other[f])
            THEN local[f] ELSE other[f]])

\* A kind that is not known is taken as the file gives it.
load_schema(s, file) ==
    Over(Over(s, file), [k \in DOMAIN s \cap DOMAIN file |-> update(s[k], file[k])])

\* An extension needs its kind; one name is an attribute or a relationship.
Loadable(s, file) ==
    \A k \in DOMAIN file :
        /\ file[k].is = "extension" => k \in DOMAIN s
        /\ k \in DOMAIN s =>
              \A n \in DOMAIN file[k].elements \cap DOMAIN s[k].elements :
                  file[k].elements[n].is = s[k].elements[n].is

-----------------------------------------------------------------------------
(* SchemaBranch.process_pre_validation. *)

generate_identifiers(s) ==
    LET F(k, e) == IF e.is = "relationship" /\ e.identifier = {}
                   THEN [e EXCEPT !.identifier = {k, e.peer}] ELSE e
    IN  MapElements(s, F)

process_default_values(s) ==
    LET F(k, e) == IF e.is = "attribute" /\ e.default_value
                   THEN [e EXCEPT !.optional = TRUE] ELSE e
    IN  MapElements(s, F)

process_cardinality_counts(s) ==
    LET AtLeastOne(c) == IF c = 0 THEN 1 ELSE c
        F(k, e) ==
            IF e.is = "attribute" \/ e.cardinality # "one" THEN e
            ELSE IF e.optional THEN [e EXCEPT !.min_count = 0, !.max_count = 1]
            ELSE [e EXCEPT !.min_count = AtLeastOne(@), !.max_count = AtLeastOne(@)]
    IN  MapElements(s, F)

\* NodeSchema.validate_inheritance: nothing protected is overridden, and an
\* attribute has one kind.
validate_inheritance(node, interface) ==
    \A n \in DOMAIN node.elements \cap DOMAIN interface.elements :
        LET mine == node.elements[n]
            its  == interface.elements[n] IN
        mine.is = its.is =>
            /\ mine.inherited \/ its.allow_override # "none"
            /\ mine.is = "attribute" => mine.kind = its.kind

\* Mutant: a node that has inherited something inherits nothing more.
inherit_from_interface_First(node, interface) ==
    IF \E n \in DOMAIN node.elements : node.elements[n].inherited THEN node
    ELSE WithElements(node, [n \in DOMAIN interface.elements |->
                               [interface.elements[n] EXCEPT !.inherited = TRUE]])

\* NodeSchema.inherit_from_interface: what the node has, inherited before or
\* its own, stays as it is.
inherit_from_interface(node, interface) ==
    LET Inherit(mine, its) == IF mine = {} THEN its ELSE mine
        new == DOMAIN interface.elements \ DOMAIN node.elements IN
    [node EXCEPT
        !.display_labels         = Inherit(@, interface.display_labels),
        !.human_friendly_id      = Inherit(@, interface.human_friendly_id),
        !.uniqueness_constraints = Inherit(@, interface.uniqueness_constraints),
        !.elements = Over(@, [n \in new |-> [interface.elements[n] EXCEPT !.inherited = TRUE]])]

\* Node k after the first i of its generics.
InheritedUpTo(s, k, i) ==
    FoldLeft(LAMBDA node, g : inherit_from_interface(node, s[g]),
             s[k], SubSeq(s[k].inherit_from, 1, i))

Hierarchical(s, k) == {i \in DOMAIN s[k].inherit_from : s[s[k].inherit_from[i]].hierarchical}

process_inheritance(s) ==
    [k \in DOMAIN s |->
        IF s[k].is = "generic"
        THEN [s[k] EXCEPT !.used_by = {n \in Nodes(s) : Contains(s[n].inherit_from, k)}]
        ELSE LET node == InheritedUpTo(s, k, Len(s[k].inherit_from))
                 of   == Hierarchical(s, k) IN
             IF of # {} /\ node.hierarchy = None
             THEN [node EXCEPT !.hierarchy = s[k].inherit_from[CHOOSE i \in of : TRUE]]
             ELSE node]

CanInherit(s) ==
    \A k \in Nodes(s) :
        /\ Range(s[k].inherit_from) \subseteq Generics(s)
        /\ Cardinality(Hierarchical(s, k)) <= 1
        /\ \A i \in DOMAIN s[k].inherit_from :
              validate_inheritance(InheritedUpTo(s, k, i - 1), s[s[k].inherit_from[i]])

InHierarchy(item) == item.hierarchy # None \/ item.parent # None \/ item.children # None

\* Mutant: the generic is added whether or not it is there.
process_hierarchy_Again(s) ==
    [k \in DOMAIN s |->
        IF s[k].is = "generic" \/ ~ InHierarchy(s[k]) THEN s[k]
        ELSE [s[k] EXCEPT !.inherit_from = Append(@, s[k].hierarchy)]]

\* The generic of the hierarchy is added to inherit_from after inheritance.
process_hierarchy(s) ==
    LET Or(kind, default) == IF kind = None THEN default ELSE kind IN
    [k \in DOMAIN s |->
        IF s[k].is = "generic" \/ ~ InHierarchy(s[k]) THEN s[k]
        ELSE [s[k] EXCEPT
                !.inherit_from = IF Contains(@, s[k].hierarchy) THEN @
                                 ELSE Append(@, s[k].hierarchy),
                !.parent   = Or(@, s[k].hierarchy),
                !.children = Or(@, s[k].hierarchy)]]

HierarchyKnown(s) ==
    \A k \in Nodes(s) : InHierarchy(s[k]) =>
        /\ s[k].hierarchy \in Generics(s)
        /\ {s[k].parent, s[k].children} \subseteq DOMAIN s \cup {None}

\* Kinds of the core schema that relationships point to.
CorePeer == {"CoreGroup", "CoreProfile"}

process_branch_support(s) ==
    LET Of(peer) == IF peer \in DOMAIN s THEN s[peer].branch ELSE "aware"
        Rel(a, b) == IF a = b THEN a ELSE IF "local" \in {a, b} THEN "local" ELSE "aware"
        F(k, e) == IF e.branch # None THEN e
                   ELSE IF e.is = "attribute" THEN [e EXCEPT !.branch = s[k].branch]
                   ELSE [e EXCEPT !.branch = Rel(s[k].branch, Of(e.peer))]
    IN  MapElements(s, F)

PeerKnown(s, e) == e.peer \in DOMAIN s \cup CorePeer

BranchKnown(s) ==
    \A k \in DOMAIN s : \A n \in RelsOf(s[k]) :
        s[k].elements[n].branch = None => PeerKnown(s, s[k].elements[n])

\* generate_profile_from_node: the attributes that may be left to a profile.
generate_profile_from_node(node) ==
    LET own == {n \in AttributesOf(node) : node.elements[n].optional
                                           /\ ~ node.elements[n].read_only} IN
    Once([n \in own |-> node.elements[n].kind])

\* The profile of a kind that is gone stays.
manage_profile_schemas(s, profiles) ==
    LET gone == {k \in Nodes(s) : ~ s[k].generate_profile}
        with == Nodes(s) \ gone IN
    [k \in (DOMAIN profiles \cup with) \ gone |->
        IF k \in with THEN generate_profile_from_node(s[k]) ELSE profiles[k]]

ProfileRel ==
    [RelationshipSchema EXCEPT !.peer = "CoreProfile", !.identifier = {"node__profile"},
                               !.kind = "Profile", !.branch = "aware"]

Without(item, n) == [item EXCEPT !.elements = Once([x \in DOMAIN @ \ {n} |-> @[x]])]

add_profile_relationships(s) ==
    [k \in DOMAIN s |->
        IF s[k].is = "generic" THEN s[k]
        ELSE IF s[k].generate_profile THEN WithElements(s[k], [profiles |-> ProfileRel])
        ELSE Without(s[k], "profiles")]

-----------------------------------------------------------------------------
(* SchemaBranch.process_validate. *)

validate_kinds(s) ==
    \A k \in Nodes(s) :
        /\ Range(s[k].inherit_from) \subseteq Generics(s)
        /\ \A n \in RelsOf(s[k]) : PeerKnown(s, s[k].elements[n])

validate_count_against_cardinality(s) ==
    \A k \in DOMAIN s : \A n \in RelsOf(s[k]) :
        LET r == s[k].elements[n] IN
        IF r.cardinality = "one" THEN r.optional \/ (r.min_count = 1 /\ r.max_count = 1)
        ELSE r.max_count # 1 /\ (r.max_count = 0 \/ r.min_count <= r.max_count)

\* The relationships of kind k that use an identifier.
Using(s, k, id) ==
    IF k \in DOMAIN s THEN {n \in RelsOf(s[k]) : s[k].elements[n].identifier = id} ELSE {}

validate_identifiers(s) ==
    \A k \in DOMAIN s : \A n \in RelsOf(s[k]) :
        LET r == s[k].elements[n]
            same  == Using(s, k, r.identifier)
            peers == Using(s, r.peer, r.identifier)
            Direction(q, x) == s[q].elements[x].direction
            theirs == {Direction(r.peer, x) : x \in peers}
            alone == \A q \in DOMAIN s \ {k} : Using(s, q, r.identifier) = {} IN
        /\ \/ same = {n}
           \/ Cardinality(same) = 2 /\ {Direction(k, x) : x \in same} = {"inbound", "outbound"}
        /\ alone \/ Cardinality(peers) # 1
           \/ IF Cardinality(same) = 2 THEN theirs # {"bidirectional"}
              ELSE \/ r.direction = "bidirectional" /\ theirs = {"bidirectional"}
                   \/ theirs \cup {r.direction} = {"inbound", "outbound"}

\* parse_schema_path: <<attribute>>, <<relationship>> or <<relationship, attribute>>.
parse_schema_path(s, k, path) ==
    /\ path[1] \in DOMAIN s[k].elements
    /\ Len(path) = 2 =>
          /\ path[1] \in RelsOf(s[k])
          /\ s[k].elements[path[1]].peer \in DOMAIN s
          /\ path[2] \in AttributesOf(s[s[k].elements[path[1]].peer])

\* validate_schema_path for a path to an attribute of the kind itself ...
AttributePath(s, k, path) == parse_schema_path(s, k, path) /\ path[1] \in AttributesOf(s[k])
\* ... and for one to a mandatory relationship of cardinality one.
MandatoryOne(s, k, path) ==
    /\ parse_schema_path(s, k, path)
    /\ path[1] \in RelsOf(s[k])
    /\ s[k].elements[path[1]].cardinality = "one" /\ ~ s[k].elements[path[1]].optional

validate_display_labels(s) ==
    \A k \in DOMAIN s : \A path \in s[k].display_labels : AttributePath(s, k, path)

validate_uniqueness_constraints(s) ==
    \A k \in DOMAIN s : \A path \in s[k].uniqueness_constraints :
        AttributePath(s, k, path) \/ (Len(path) = 1 /\ MandatoryOne(s, k, path))

PathIsUnique(s, k, path) ==
    IF Len(path) = 1 THEN s[k].elements[path[1]].unique
    ELSE s[s[k].elements[path[1]].peer].elements[path[2]].unique

validate_human_friendly_id(s) ==
    \A k \in DOMAIN s : s[k].human_friendly_id # {} =>
        /\ \A path \in s[k].human_friendly_id :
              AttributePath(s, k, path) \/ (Len(path) = 2 /\ MandatoryOne(s, k, path))
        /\ \E path \in s[k].human_friendly_id : PathIsUnique(s, k, path)

\* Relationships to a parent, as <<kind, name>>: its own and those of its generics.
ParentRels(s, k) ==
    LET Of(q) == {n \in RelsOf(s[q]) : s[q].elements[n].kind = "Parent"}
        from == IF s[k].is = "node" THEN Range(s[k].inherit_from) ELSE {} IN
    {<<k, n>> : n \in Of(k) \cap LocalOf(s[k])} \cup UNION {{<<g, n>> : n \in Of(g)} : g \in from}

_validate_parents_one_schema(s, rels) ==
    /\ Cardinality(rels) <= 1
    /\ \A r \in rels : LET e == s[r[1]].elements[r[2]] IN e.cardinality = "one" /\ ~ e.optional

\* Every set of kinds has one that depends on no other of them.
validate_parent_component(s) ==
    LET HasParent(k, p) == \E r \in ParentRels(s, k) : s[r[1]].elements[r[2]].peer = p
        HasComponent(p, k) == \E n \in RelsOf(s[p]) : /\ s[p].elements[n].kind = "Component"
                                                      /\ s[p].elements[n].peer = k
        depends == {pk \in (DOMAIN s) \X (DOMAIN s) :
                       HasParent(pk[2], pk[1]) \/ HasComponent(pk[1], pk[2])} IN
    /\ \A k \in DOMAIN s : _validate_parents_one_schema(s, ParentRels(s, k))
    /\ \A loop \in SUBSET {pk[1] : pk \in depends} \ {{}} :
          \E k \in loop : \A p \in loop : <<p, k>> \notin depends

process_validate(s) ==
    /\ validate_kinds(s)
    /\ validate_count_against_cardinality(s)
    /\ validate_identifiers(s)
    /\ validate_uniqueness_constraints(s)
    /\ validate_display_labels(s)
    /\ validate_parent_component(s)
    /\ validate_human_friendly_id(s)
-----------------------------------------------------------------------------
(* SchemaBranch.process_post_validation. *)

GroupRel(identifier) ==
    [RelationshipSchema EXCEPT !.peer = "CoreGroup", !.identifier = {identifier},
                               !.kind = "Group", !.branch = "aware"]

add_groups(s) ==
    [k \in DOMAIN s |-> WithElements(s[k],
        [member_of_groups     |-> GroupRel("group_member"),
         subscriber_of_groups |-> GroupRel("group_subscriber")])]

HierarchyRels(parent, children) ==
    LET rel == [RelationshipSchema EXCEPT !.identifier = {"parent__child"},
                                          !.kind = "Hierarchy", !.branch = "aware"] IN
    [parent   |-> [rel EXCEPT !.peer = parent, !.cardinality = "one", !.max_count = 1,
                              !.direction = "outbound"],
     children |-> [rel EXCEPT !.peer = children, !.direction = "inbound"]]

add_hierarchy(s) ==
    [k \in DOMAIN s |->
        IF s[k].is = "generic"
        THEN IF s[k].hierarchical THEN WithElements(s[k], HierarchyRels(k, k)) ELSE s[k]
        ELSE IF s[k].parent = None THEN s[k]
        ELSE WithElements(s[k], HierarchyRels(s[k].parent, s[k].children))]

process_relationships(s) ==
    LET F(k, e) == IF e.is = "attribute" \/ e.on_delete # None THEN e
                   ELSE [e EXCEPT !.on_delete = IF e.kind = "Component" THEN "cascade"
                                                ELSE "no-action"]
    IN  MapElements(s, F)

UniqueAttributes(item) == {n \in AttributesOf(item) : item.elements[n].unique}

process_human_friendly_id(s) ==
    [k \in DOMAIN s |->
        LET unique == UniqueAttributes(s[k])
            hfid == s[k].human_friendly_id IN
        IF hfid = {} /\ unique # {}
        THEN [s[k] EXCEPT !.human_friendly_id = {<<CHOOSE n \in unique : TRUE>>}]
        ELSE IF hfid # {} /\ unique = {} /\ s[k].uniqueness_constraints = {}
        THEN [s[k] EXCEPT !.uniqueness_constraints = {<<path[1]>> : path \in hfid}]
        ELSE s[k]]

\* A schema is the kinds and the profiles made for them; `ok' is false when
\* an exception ended the processing.
process(s, profiles) ==
    LET counted   == process_cardinality_counts(process_default_values(generate_identifiers(s)))
        inherited == Once(process_inheritance(counted))
        hierarchy == Once(process_hierarchy(inherited))
        supported == process_branch_support(hierarchy)
        pre       == Once(add_profile_relationships(supported))
        post      == Once(process_human_friendly_id(process_relationships(
                         Once(add_hierarchy(Once(add_groups(pre))))))) IN
    IF /\ CanInherit(counted)
       /\ HierarchyKnown(inherited)
       /\ BranchKnown(hierarchy)
       /\ process_validate(pre)
    THEN [ok |-> TRUE, kinds |-> post, profiles |-> Once(manage_profile_schemas(supported, profiles))]
    ELSE [ok |-> FALSE, kinds |-> s, profiles |-> profiles]

-----------------------------------------------------------------------------
(* SchemaBranch.diff and what of it is not supported. *)

\* An element without an id on both sides counts as new.
_diff_element(old, new) ==
    LET both == DOMAIN old \cap DOMAIN new
        fresh == {n \in both : old[n].id = NoId /\ new[n].id = NoId} IN
    [added   |-> (DOMAIN new \ DOMAIN old) \cup fresh,
     removed |-> DOMAIN old \ DOMAIN new,
     changed |-> {n \in both \ fresh : old[n] # new[n]}]

diff(old, new) ==
    LET both == DOMAIN old \cap DOMAIN new
        removed == {k \in both : new[k].state = "absent" /\ new[k].id # NoId} IN
    [added   |-> DOMAIN new \ DOMAIN old,
     removed |-> removed,
     changed |-> {k \in both \ removed : old[k] # new[k]}]

HasDiff(d) == d.added \cup d.removed \cup d.changed # {}

\* Changes for which the update of the field is not supported, or for which
\* there is no validator.
NotSupported(old, new) ==
    \/ \E f \in {"branch", "inherit_from", "hierarchy", "hierarchical"} \cap DOMAIN old :
          old[f] # new[f]
    \/ \E n \in DOMAIN old.elements \cap DOMAIN new.elements :
          \E f \in {"branch", "direction"} \cap DOMAIN old.elements[n] :
              old.elements[n][f] # new.elements[n][f]

-----------------------------------------------------------------------------
(* The database: SchemaNode and SchemaGeneric objects (`nodes'), the objects *)
(* of their elements (`rows', by id) and the relationships between them.     *)

Empty == [nodes |-> NoElements, links |-> NoElements, rows |-> NoElements]

Bare(item) == [item EXCEPT !.elements = NoElements, !.state = "present"]

\* convert_node_schema_to_schema, convert_generic_schema_to_schema.
ReadKind(db, k) ==
    LET ids == db.links[k] \cap DOMAIN db.rows IN
    [db.nodes[k] EXCEPT !.elements =
        Once([n \in {db.rows[id].name : id \in ids} |->
                LET id == CHOOSE x \in ids : db.rows[x].name = n IN
                [db.rows[id].element EXCEPT !.id = id]])]

ReadAll(db) == Once([k \in DOMAIN db.nodes |-> ReadKind(db, k)])

\* The elements get the ids of the objects that load t creates for them.
Created(t, k, item, names) ==
    [item EXCEPT !.elements = Over(@, [n \in names |-> [@[n] EXCEPT !.id = <<t, k, n>>]])]

\* The rows of some elements of a kind, which have their ids.
RowsOf(item, names) ==
    [id \in {item.elements[n].id : n \in names} |->
        LET n == CHOOSE x \in names : item.elements[x].id = id IN
        [name |-> n, element |-> [item.elements[n] EXCEPT !.id = NoId, !.state = "present"]]]

\* The kind as it is known after load_node_to_db or update_node_in_db_based_on_diff.
SavedKind(t, k, old, new) ==
    IF k \notin DOMAIN old
    THEN [Created(t, k, new[k], DOMAIN new[k].elements) EXCEPT !.id = <<t, k>>]
    ELSE Created(t, k, new[k],
                 _diff_element(old[k].elements, new[k].elements).added \cap LocalOf(new[k]))

\* load_node_to_db: every element gets an object, inherited or not.
load_node_to_db(db, k, node) ==
    [nodes |-> Over(db.nodes, k :> Bare(node)),
     links |-> Over(db.links, k :> {node.elements[n].id : n \in DOMAIN node.elements}),
     rows  |-> Over(db.rows, RowsOf(node, DOMAIN node.elements))]

\* Mutant: the elements that the load did not touch are not linked again.
update_node_in_db_based_on_diff_Touched(db, k, old, node) ==
    LET d == _diff_element(old.elements, node.elements)
        written == (d.added \cup d.changed) \cap LocalOf(node) IN
    [nodes |-> Over(db.nodes, k :> Bare(node)),
     links |-> Over(db.links, k :> {node.elements[n].id : n \in written}),
     rows  |-> Over(db.rows, RowsOf(node, written))]

\* update_node_in_db_based_on_diff: if an attribute differs, the kind is left
\* with its local attributes alone, and so for relationships; the local ones
\* that are new or differ are written under their id.
update_node_in_db_based_on_diff(db, k, old, node) ==
    LET d == _diff_element(old.elements, node.elements)
        touched == {old.elements[n].is : n \in d.removed}
                   \cup {node.elements[n].is : n \in d.added \cup d.changed}
        local == {n \in LocalOf(node) : node.elements[n].is \in touched}
        untouched == {id \in db.links[k] \cap DOMAIN db.rows :
                         db.rows[id].element.is \notin touched}
        written == (d.added \cup d.changed) \cap LocalOf(node) IN
    [nodes |-> Over(db.nodes, k :> Bare(node)),
     links |-> Over(db.links, k :> (untouched \cup {node.elements[n].id : n \in local})),
     rows  |-> Over(db.rows, RowsOf(node, written))]

\* Mutant: the links of the kind stay.
delete_node_in_db_Links(db, k, node) ==
    [db EXCEPT !.nodes = Once([x \in DOMAIN db.nodes \ {k} |-> db.nodes[x]])]

\* delete_node_in_db: the objects of the local elements go with the kind.
delete_node_in_db(db, k, node) ==
    LET ids == {node.elements[n].id : n \in LocalOf(node)} IN
    [nodes |-> Once([x \in DOMAIN db.nodes \ {k} |-> db.nodes[x]]),
     links |-> Once([x \in DOMAIN db.links \ {k} |-> db.links[x]]),
     rows  |-> Once([id \in DOMAIN db.rows \ ids |-> db.rows[id]])]

\* update_schema_to_db, kind after kind: new is what SavedKind gives.
update_schema_to_db(db, d, old, new) ==
    LET Save(base, k) == IF k \in d.added THEN load_node_to_db(base, k, new[k])
                         ELSE IF k \in d.changed
                         THEN update_node_in_db_based_on_diff(base, k, old[k], new[k])
                         ELSE delete_node_in_db(base, k, new[k])
    IN  FoldLeft(Save, db, SetToSeq(d.added) \o SetToSeq(d.changed) \o SetToSeq(d.removed))

\* The objects that update_schema_to_db looks up are there.
Found(db, d, new) ==
    \A k \in d.changed \cup d.removed :
        /\ k \in DOMAIN db.nodes
        /\ \A n \in LocalOf(new[k]) :
              new[k].elements[n].id \in DOMAIN db.rows \cup {NoId}

-----------------------------------------------------------------------------
VARIABLES
    db,         \* the stored schema
    hash,       \* what the Branch object in the database says of every kind
    mem,        \* mem[w]: SchemaBranch of the worker, kinds and profiles
    seen,       \* seen[w]: the hash on the worker's Branch object
    loads,      \* requests to load a file so far
    faults,     \* transactions that failed so far
    wanted,     \* elements that accepted files asked for and none took back
    behind,     \* behind[w]: why its memory may differ from the database, to a restart
    spoiled     \* a worker loaded a file over a schema that was not the stored one

vars == <<db, hash, mem, seen, loads, faults, wanted, behind, spoiled>>

Fresh(d) == process(ReadAll(d), NoElements)
Schema(p) == [kinds |-> p.kinds, profiles |-> p.profiles]

Init ==
    /\ db = Empty
    /\ hash = NoElements
    /\ mem = [w \in Worker |-> Schema(Fresh(Empty))]
    /\ seen = [w \in Worker |-> NoElements]
    /\ loads = 0
    /\ faults = 0
    /\ wanted = {}
    /\ behind = [w \in Worker |-> {}]
    /\ spoiled = FALSE

\* evaluate_candidate_schemas: the candidate, and whether it is valid.
Candidate(s, file) == process(load_schema(s.kinds, file), s.profiles)
Supported(d, old, new) == \A k \in d.changed : ~ NotSupported(old[k], new[k])

\* The candidate once update_schema_to_db wrote it, ids included.
Saved(t, d, old, new) ==
    Over(new, [k \in d.added \cup d.changed |-> SavedKind(t, k, old, new)])

\* Mutant: what is read is not processed.
load_schema_from_db_Raw(stored, s, kinds, profiles) ==
    LET from == IF kinds = {} THEN DOMAIN stored.nodes ELSE kinds \cap DOMAIN stored.nodes IN
    [ok |-> TRUE, kinds |-> Over(s, [k \in from |-> ReadKind(stored, k)]), profiles |-> profiles]

\* load_schema_from_db with a list of kinds: they are read over what is known,
\* all of them if the list is empty.
load_schema_from_db(stored, s, kinds, profiles) ==
    LET from == IF kinds = {} THEN DOMAIN stored.nodes ELSE kinds \cap DOMAIN stored.nodes IN
    process(Over(s, [k \in from |-> ReadKind(stored, k)]), profiles)

\* update_schema_branch for a candidate: what is to be stored, and the schema
\* that is read back.
update_schema_branch(t, old, new, d) ==
    LET saved  == Saved(t, d, old, new.kinds)
        found  == Found(db, d, new.kinds)
        stored == IF found THEN update_schema_to_db(db, d, old, saved) ELSE db
        left   == Once([k \in DOMAIN saved \ d.removed |-> saved[k]]) IN
    [saved |-> saved, found |-> found, db |-> stored,
     schema |-> load_schema_from_db(stored, left, d.added \cup d.changed, new.profiles)]

\* An element that a node took from a generic and has no object of its own.
Borrowed(s, k) ==
    {n \in DOMAIN s[k].elements :
        \E g \in Range(s[k].inherit_from) \cap DOMAIN s :
            /\ s[k].elements[n].id # NoId
            /\ n \in DOMAIN s[g].elements /\ s[k].elements[n].id = s[g].elements[n].id}

\* The load overrides a borrowed element: the node is linked to the generic's object ...
Overrides(old, d, new) ==
    \E k \in Nodes(old) \cap d.changed : Borrowed(old, k) \cap LocalOf(new[k]) # {}

\* ... or changes the element of the generic, which the node goes on with.
Outdates(old, d, new) ==
    \E k \in Nodes(old) : \E n \in Borrowed(old, k) :
        \E g \in Range(old[k].inherit_from) \cap (d.changed \cup d.removed) :
            \/ g \in d.removed \/ n \notin DOMAIN new[g].elements
            \/ new[g].elements[n] # old[g].elements[n]

Named(file, state) ==
    UNION {{<<k, n>> : n \in {x \in DOMAIN file[k].elements : file[k].elements[x].state = state}} :
              k \in DOMAIN file}

\* The transaction commits.
Commit(w, file, d, u) ==
    /\ u.found
    /\ u.schema.ok
    /\ db' = u.db
    /\ mem' = [mem EXCEPT ![w] = Schema(u.schema)]
    /\ hash' = u.schema.kinds
    /\ seen' = [seen EXCEPT ![w] = u.schema.kinds]
    /\ wanted' = {kn \in (wanted \cup Named(file, "present")) \ Named(file, "absent") :
                     kn[1] \notin d.removed}
    /\ spoiled' = (\/ spoiled
                   \/ seen[w] # hash
                   \/ "uncommitted" \in behind[w]
                   \/ Overrides(mem[w].kinds, d, u.saved))
    /\ behind' = [v \in Worker |-> behind[v]
                    \cup (IF v # w /\ d.removed # {} THEN {"removed"} ELSE {})
                    \cup (IF Outdates(mem[w].kinds, d, u.saved) THEN {"borrowed"} ELSE {})]
    /\ UNCHANGED faults

\* The kinds written so far: load_node_to_db and update_node_in_db_based_on_diff
\* put each one in the SchemaBranch of the worker at once.
WrittenSoFar(d) == {part \in SUBSET (d.added \cup d.changed) :
                       part \cap d.changed # {} => d.added \subseteq part}

\* The transaction is rolled back: an object is not there, the schema that is
\* read back is not valid, or the database fails.
Rollback(w, d, u) ==
    LET fault == u.found /\ u.schema.ok IN
    /\ fault => faults < MaxFaults
    /\ faults' = IF fault THEN faults + 1 ELSE faults
    /\ \/ \E part \in WrittenSoFar(d) :
             /\ u.found /\ ~ u.schema.ok => part = d.added \cup d.changed
             /\ mem' = [mem EXCEPT ![w].kinds = Over(@, [k \in part |-> u.saved[k]])]
             /\ UNCHANGED seen
       \/ /\ fault
          /\ mem' = [mem EXCEPT ![w] = Schema(u.schema)]
          /\ seen' = [seen EXCEPT ![w] = u.schema.kinds]
    /\ behind' = [behind EXCEPT ![w] = @ \cup {"uncommitted"}]
    /\ UNCHANGED <<db, hash, wanted, spoiled>>

\* api/schema.py load_schema.  Nothing happens when the file is not valid, when
\* it changes nothing, or when the validators object to the data.
Load(w, f) ==
    LET old == mem[w].kinds
        new == Candidate(mem[w], Files[f])
        d   == diff(old, new.kinds)
        u   == update_schema_branch(loads + 1, old, new, d) IN
    /\ loads < MaxLoads
    /\ Loadable(old, Files[f])
    /\ new.ok
    /\ HasDiff(d)
    /\ Supported(d, old, new.kinds)
    /\ loads' = loads + 1
    /\ Commit(w, Files[f], d, u) \/ Rollback(w, d, u)

\* Mutant: only kinds that are not known are read.
Refresh_New(w) ==
    LET new == load_schema_from_db(db, mem[w].kinds, DOMAIN hash \ DOMAIN mem[w].kinds,
                                   mem[w].profiles) IN
    /\ seen[w] # hash
    /\ DOMAIN hash \ DOMAIN mem[w].kinds # {} => new.ok
    /\ seen' = [seen EXCEPT ![w] = hash]
    /\ mem' = IF DOMAIN hash \subseteq DOMAIN mem[w].kinds THEN mem
              ELSE [mem EXCEPT ![w] = Schema(new)]
    /\ UNCHANGED <<db, hash, loads, faults, wanted, behind, spoiled>>

\* refresh_branches: a hash that is not the one on the worker's Branch object.
Refresh(w) ==
    LET differ == {k \in DOMAIN hash : k \notin DOMAIN mem[w].kinds \/ mem[w].kinds[k] # hash[k]}
        new == load_schema_from_db(db, mem[w].kinds, differ, mem[w].profiles) IN
    /\ seen[w] # hash
    /\ new.ok
    /\ seen' = [seen EXCEPT ![w] = hash]
    /\ mem' = [mem EXCEPT ![w] = Schema(new)]
    /\ UNCHANGED <<db, hash, loads, faults, wanted, behind, spoiled>>

\* initialization: everything from the database; the hash is the worker's own.
Restart(w) ==
    /\ Fresh(db).ok
    /\ mem' = [mem EXCEPT ![w] = Schema(Fresh(db))]
    /\ seen' = [seen EXCEPT ![w] = Fresh(db).kinds]
    /\ behind' = [behind EXCEPT ![w] = {}]
    /\ UNCHANGED <<db, hash, loads, faults, wanted, spoiled>>

Next ==
    \E w \in Worker :
        \/ \E f \in DOMAIN Files : Load(w, f)
        \/ Refresh(w)
        \/ Restart(w)

Spec == Init /\ [][Next]_vars

-----------------------------------------------------------------------------
\* Kinds are nodes or generics, in memory and in the database, and an object
\* is linked to its elements exactly while it is stored.
TypeOK ==
    /\ DOMAIN db.links = DOMAIN db.nodes
    /\ \A k \in DOMAIN db.nodes : db.nodes[k].is \in {"node", "generic"}
    /\ \A w \in Worker : \A k \in DOMAIN mem[w].kinds : mem[w].kinds[k].is \in {"node", "generic"}
    /\ loads \in 0..MaxLoads
    /\ faults \in 0..MaxFaults
    /\ behind \in [Worker -> SUBSET {"uncommitted", "removed", "borrowed"}]
    /\ spoiled \in BOOLEAN

\* The stored schema can be read and processed, so that a worker can start:
\* process raises no error in initialization.
StoredLoads == spoiled \/ Fresh(db).ok

InStep(w) == ~ spoiled /\ seen[w] = hash /\ behind[w] = {}

\* A worker that has the current hash has the schema that a worker which starts
\* now reads: partial writes and partial refreshes lose nothing.
FreshAgrees == \A w \in Worker : InStep(w) => mem[w].kinds = Fresh(db).kinds

\* An element that an accepted file asked for is there until a file marks it
\* absent, whatever is loaded after it ("Without this flag the element will be
\* ignored but it will not be removed", docs/docs/topics/schema.mdx), but for
\* loads over a schema that is not the stored one and for nodes that override
\* what they borrow from a generic.
LoadsKept ==
    spoiled \/ \A kn \in wanted :
        /\ kn[1] \in DOMAIN db.nodes
        /\ kn[2] \in DOMAIN Fresh(db).kinds[kn[1]].elements

\* The stored schema loads, with all that was asked for.
StoredComplete == StoredLoads /\ LoadsKept

\* What process made of a schema it leaves as it is: a worker that processes
\* its schema again, as every refresh does, computes the same hash.
Settled ==
    \A w \in Worker : InStep(w) =>
        LET again == process(mem[w].kinds, mem[w].profiles) IN
        again.ok /\ again.kinds = mem[w].kinds

\* A node has all elements of the generics it inherits from, its attributes
\* have their kinds, and it overrides nothing that a generic protects, also
\* when the generic was changed after the node.
Inherits ==
    \A w \in Worker : ~ spoiled /\ behind[w] = {} => \A k \in Nodes(mem[w].kinds) :
        \A g \in Range(mem[w].kinds[k].inherit_from) :
            /\ g \in Generics(mem[w].kinds)
            /\ DOMAIN mem[w].kinds[g].elements \subseteq DOMAIN mem[w].kinds[k].elements
            /\ validate_inheritance(mem[w].kinds[k], mem[w].kinds[g])

\* What the workers have is what process makes of it: settled and inherited.
Processed == Settled /\ Inherits
=============================================================================
