--------------------------- MODULE MCSchemaBranch ---------------------------
(* Small instances of SchemaBranch and of NodeProfiles, which share no state:  *)
(* a behaviour is about one part of the system.                               *)
EXTENDS SchemaBranch, NodeProfiles

VARIABLE part   \* "schema" or "profiles"

\* No property says anything once a load spoiled the schema; after a fault one
\* more load is enough, before it two.
Explored == ~ spoiled /\ (faults > 0 => loads < 3)

Symmetry == Permutations(Worker) \cup Permutations(Client)

Attr == AttributeSchema
Rel == RelationshipSchema

G0 == [GenericSchema EXCEPT !.elements = [a |-> Attr]]
N0 == [NodeSchema EXCEPT !.inherit_from = <<"G">>,
                         !.elements = [b |-> [Attr EXCEPT !.unique = TRUE]]]

MCFiles == <<
    \* a generic and a node
    [G |-> G0, N |-> N0],
    \* the generic gets an attribute
    [G |-> [G0 EXCEPT !.elements = [c |-> [Attr EXCEPT !.default_value = TRUE]]]],
    \* the node overrides it
    [N |-> [N0 EXCEPT !.elements = [c |-> [Attr EXCEPT !.optional = TRUE]]]],
    \* ... the generic loses it
    [G |-> [G0 EXCEPT !.elements = [c |-> [Attr EXCEPT !.state = "absent"]]]],
    \* a hierarchy
    [H |-> [GenericSchema EXCEPT !.hierarchical = TRUE, !.elements = [h |-> Attr]],
     M |-> [NodeSchema EXCEPT !.hierarchy = "H", !.elements = [m |-> Attr]]],
    \* the node goes
    [N |-> [N0 EXCEPT !.state = "absent"]],
    \* a component of the node
    [M |-> [NodeSchema EXCEPT !.hierarchy = "H", !.generate_profile = FALSE,
               !.elements = [n |-> [Rel EXCEPT !.peer = "N", !.kind = "Parent", !.cardinality = "one",
                                              !.optional = FALSE]]],
     N |-> [NodeExtensionSchema EXCEPT !.elements =
               [ms |-> [Rel EXCEPT !.peer = "M", !.kind = "Component"]]]],
    \* an attribute of another kind than the generic's
    [N |-> [N0 EXCEPT !.elements = [a |-> [Attr EXCEPT !.kind = "Number"]]]]
>>

\* Attributes: a key, one with a default, one without, a password.
MCDefault == [name |-> NoValue, color |-> 1, size |-> NoValue, secret |-> NoValue]

Field(v, reset, flag) == [value |-> v, is_default |-> reset, is_protected |-> flag]
Attrs(attrs, profiles) == [attrs |-> attrs, profiles |-> profiles]

\* The first two can create a node, the third in an upsert.  The others remove a
\* value, reset one to the default, and say of a value that it is the default.
MCPayload == {
    Attrs([name |-> Field(1, Missing, Missing)], {1}),
    Attrs([name |-> Field(2, Missing, Missing), color |-> Field(2, Missing, Missing),
           secret |-> Field(1, Missing, Missing)], {1, 2}),
    Attrs([name |-> Field(2, Missing, Missing), color |-> Field(2, TRUE, Missing)], {1}),
    Attrs([color |-> Field(NoValue, Missing, Missing), size |-> Field(2, TRUE, Missing)], Missing),
    Attrs([color |-> Field(Missing, FALSE, TRUE)], {2})}

MCProfile == [p \in Profile |->
    [live |-> TRUE, priority |-> p,
     values |-> IF p = 1 THEN [color |-> 2, size |-> NoValue, secret |-> NoValue]
                ELSE [color |-> 1, size |-> 2, secret |-> 1]]]

MCInit ==
    /\ part \in {"schema", "profiles"}
    /\ profile = MCProfile
    /\ Init /\ ProfilesInit
    /\ part # "profiles" => state = [n \in Object |-> "absent"]

MCNext ==
    /\ UNCHANGED part
    /\ \/ part = "schema" /\ Next /\ UNCHANGED profileVars
       \/ part = "profiles" /\ ProfilesNext /\ UNCHANGED vars

MCSpec == MCInit /\ [][MCNext]_<<part, vars, profileVars>>
=============================================================================
