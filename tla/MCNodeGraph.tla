---------------------------- MODULE MCNodeGraph -----------------------------
(* Small instances of NodeGraph and of CoreNodes, which share no state: a      *)
(* behaviour is of the one or, if it has a scope, of the other.                *)
EXTENDS NodeGraph, CoreNodes, TLC

ParentSymmetry == Permutations(Parent)
Symmetry == ParentSymmetry \cup Permutations(Request)

\* Kinds of a user: components of components, a relationship that both ends
\* limit to one peer, one that can be set from either end, and the kinds of IPAM.
MCUserModels == [
    InfraDevice |-> node({"CoreArtifactTarget"}, {
        Cascade(Many("interfaces", "InfraInterface", {"device__interface"})),
        One("rack", "InfraRack", {"device__rack"})}),
    InfraInterface |-> node({}, {
        Required(One("device", "InfraDevice", {"device__interface"})),
        Cascade(Many("units", "InfraUnit", {"interface__unit"})),
        One("cable", "InfraCable", {"cable__interface"})}),
    InfraUnit |-> node({}, {Required(One("interface", "InfraInterface", {"interface__unit"}))}),
    InfraCable |-> node({}, {Required(One("interface", "InfraInterface", {"cable__interface"}))}),
    InfraRack |-> node({}, {Many("devices", "InfraDevice", {"device__rack"})}),
    IpamIPPrefix |-> node({"BuiltinIPPrefix"}, {}),
    IpamIPAddress |-> node({"BuiltinIPAddress"}, {})]

MCKindOf == [
    change |-> "CoreProposedChange", account |-> "CoreAccount", token |-> "InternalAccountToken",
    comment |-> "CoreChangeComment", thread |-> "CoreChangeThread", reply |-> "CoreThreadComment",
    validator |-> "CoreUserValidator", check |-> "CoreStandardCheck",
    definition |-> "CoreCheckDefinition", repository |-> "CoreRepository",
    query |-> "CoreGraphQLQuery", transform |-> "CoreTransformPython",
    generator |-> "CoreGeneratorDefinition", group |-> "CoreStandardGroup", tag |-> "BuiltinTag",
    namespace |-> "IpamNamespace", prefix |-> "IpamIPPrefix", pool |-> "CoreIPPrefixPool",
    device |-> "InfraDevice", interface |-> "InfraInterface", unit |-> "InfraUnit",
    cable |-> "InfraCable", rack1 |-> "InfraRack", rack2 |-> "InfraRack"]

MCModels == core_models @@ MCUserModels
MCUserKinds == DOMAIN MCUserModels

MCItem == DOMAIN MCKindOf

MCScopes == {
    {},
    {"change", "account", "comment", "token"},
    {"change", "thread", "reply", "comment"},
    {"change", "repository", "definition", "validator", "check"},
    {"repository", "query", "transform"},
    {"repository", "query", "generator", "group"},
    {"namespace", "prefix", "pool"},
    {"device", "interface", "unit", "cable"},
    {"device", "rack1", "rack2", "tag"}}

\* The hypothesis of the theorem about deletions holds of this schema.
ASSUME SchemaAssumption == Separate

MCInit == Init /\ CoreInit

MCNext ==
    \/ scope = {} /\ Next /\ UNCHANGED coreVars
    \/ CoreNext /\ UNCHANGED vars

MCSpec == MCInit /\ [][MCNext]_<<vars, coreVars>>
=============================================================================
