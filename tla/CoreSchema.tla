----------------------------- MODULE CoreSchema -----------------------------
(***************************************************************************)
(* The kinds that Infrahub is shipped with: the generics and the nodes of   *)
(* core/schema/definitions/core.py, with what they inherit from and their   *)
(* relationships.  Attributes, labels, menus and the support of branches are *)
(* left out.  An identifier is written as a set: that of a relationship      *)
(* without one is made of the two kinds, in no order (generate_identifiers). *)
(***************************************************************************)

One(name, peer, identifier) ==
    [name |-> name, peer |-> peer, identifier |-> identifier, cardinality |-> "one",
     optional |-> TRUE, read_only |-> FALSE, on_delete |-> "no-action"]
Many(name, peer, identifier) == [One(name, peer, identifier) EXCEPT !.cardinality = "many"]
Required(r) == [r EXCEPT !.optional = FALSE]
ReadOnly(r) == [r EXCEPT !.read_only = TRUE]
Cascade(r)  == [r EXCEPT !.on_delete = "cascade"]

generic(relationships) ==
    [generic |-> TRUE, inherit_from |-> {}, relationships |-> relationships]
node(inherit_from, relationships) ==
    [generic |-> FALSE, inherit_from |-> inherit_from, relationships |-> relationships]

-----------------------------------------------------------------------------
(* Generics.                                                                *)

CoreNode == generic({})
LineageOwner == generic({})
CoreProfile == generic({})
LineageSource == generic({})
CoreComment == generic({
    One("created_by", "CoreAccount", {"CoreComment", "CoreAccount"})})
CoreThread == generic({
    Required(One("change", "CoreProposedChange", {"proposedchange__thread"})),
    Cascade(Many("comments", "CoreThreadComment", {"thread__threadcomment"})),
    One("created_by", "CoreAccount", {"CoreThread", "CoreAccount"})})
CoreGroup == generic({
    Many("members", "CoreNode", {"group_member"}),
    Many("subscribers", "CoreNode", {"group_subscriber"})})
CoreValidator == generic({
    Required(One("proposed_change", "CoreProposedChange", {"proposed_change__validator"})),
    Cascade(Many("checks", "CoreCheck", {"validator__check"}))})
CoreCheck == generic({
    Required(One("validator", "CoreValidator", {"validator__check"}))})
CoreTransformation == generic({
    Required(One("query", "CoreGraphQLQuery", {"graphql_query__transformation"})),
    Required(One("repository", "CoreGenericRepository", {"repository__transformation"})),
    Many("tags", "BuiltinTag", {"CoreTransformation", "BuiltinTag"})})
CoreArtifactTarget == generic({
    Many("artifacts", "CoreArtifact", {"artifact__node"})})
CoreTaskTarget == generic({})
CoreWebhook == generic({})
CoreGenericRepository == generic({
    Many("tags", "BuiltinTag", {"CoreGenericRepository", "BuiltinTag"}),
    Many("transformations", "CoreTransformation", {"repository__transformation"}),
    Many("queries", "CoreGraphQLQuery", {"graphql_query__repository"}),
    Many("checks", "CoreCheckDefinition", {"check_definition__repository"}),
    Many("generators", "CoreGeneratorDefinition", {"generator_definition__repository"})})
BuiltinIPNamespace == generic({
    Cascade(Many("ip_prefixes", "BuiltinIPPrefix", {"ip_namespace__ip_prefix"})),
    Cascade(Many("ip_addresses", "BuiltinIPAddress", {"ip_namespace__ip_address"}))})
BuiltinIPPrefix == generic({
    One("ip_namespace", "BuiltinIPNamespace", {"ip_namespace__ip_prefix"}),
    ReadOnly(Many("ip_addresses", "BuiltinIPAddress", {"ip_prefix__ip_address"}))})
BuiltinIPAddress == generic({
    One("ip_namespace", "BuiltinIPNamespace", {"ip_namespace__ip_address"}),
    ReadOnly(One("ip_prefix", "BuiltinIPPrefix", {"ip_prefix__ip_address"}))})
CoreResourcePool == generic({})

-----------------------------------------------------------------------------
(* Nodes.                                                                   *)

CoreStandardGroup == node({"CoreGroup"}, {})
CoreGeneratorGroup == node({"CoreGroup"}, {})
CoreGraphQLQueryGroup == node({"CoreGroup"}, {
    Required(One("query", "CoreGraphQLQuery", {"CoreGraphQLQueryGroup", "CoreGraphQLQuery"}))})
BuiltinTag == node({}, {})
CoreAccount == node({"LineageOwner", "LineageSource"}, {
    Many("tokens", "InternalAccountToken", {"CoreAccount", "InternalAccountToken"})})
InternalAccountToken == node({}, {
    Required(One("account", "CoreAccount", {"InternalAccountToken", "CoreAccount"}))})
InternalRefreshToken == node({}, {
    Required(One("account", "CoreAccount", {"InternalRefreshToken", "CoreAccount"}))})
CoreProposedChange == node({"CoreTaskTarget"}, {
    Many("approved_by", "CoreAccount", {"coreaccount__proposedchange_approved_by"}),
    Many("reviewers", "CoreAccount", {"coreaccount__proposedchange_reviewed_by"}),
    One("created_by", "CoreAccount", {"coreaccount__proposedchange_created_by"}),
    Cascade(Many("comments", "CoreChangeComment", {"CoreProposedChange", "CoreChangeComment"})),
    Cascade(Many("threads", "CoreThread", {"proposedchange__thread"})),
    Cascade(Many("validations", "CoreValidator", {"proposed_change__validator"}))})
CoreChangeThread == node({"CoreThread"}, {})
CoreFileThread == node({"CoreThread"}, {
    Required(One("repository", "CoreRepository", {"CoreFileThread", "CoreRepository"}))})
CoreArtifactThread == node({"CoreThread"}, {})
CoreObjectThread == node({"CoreThread"}, {})
CoreChangeComment == node({"CoreComment"}, {
    Required(One("change", "CoreProposedChange", {"CoreChangeComment", "CoreProposedChange"}))})
CoreThreadComment == node({"CoreComment"}, {
    Required(One("thread", "CoreThread", {"thread__threadcomment"}))})
CoreRepository == node({"LineageOwner", "LineageSource", "CoreGenericRepository", "CoreTaskTarget"},
    {})
CoreReadOnlyRepository == node({"LineageOwner", "LineageSource", "CoreGenericRepository", "CoreTaskTarget"},
    {})
CoreTransformJinja2 == node({"CoreTransformation"}, {})
CoreDataCheck == node({"CoreCheck"}, {})
CoreStandardCheck == node({"CoreCheck"}, {})
CoreSchemaCheck == node({"CoreCheck"}, {})
CoreFileCheck == node({"CoreCheck"}, {})
CoreArtifactCheck == node({"CoreCheck"}, {})
CoreGeneratorCheck == node({"CoreCheck"}, {})
CoreDataValidator == node({"CoreValidator"}, {})
CoreRepositoryValidator == node({"CoreValidator"}, {
    Required(One("repository", "CoreGenericRepository",
        {"CoreRepositoryValidator", "CoreGenericRepository"}))})
CoreUserValidator == node({"CoreValidator"}, {
    Required(One("check_definition", "CoreCheckDefinition",
        {"CoreUserValidator", "CoreCheckDefinition"})),
    Required(One("repository", "CoreGenericRepository",
        {"CoreUserValidator", "CoreGenericRepository"}))})
CoreSchemaValidator == node({"CoreValidator"}, {})
CoreArtifactValidator == node({"CoreValidator"}, {
    Required(One("definition", "CoreArtifactDefinition",
        {"CoreArtifactValidator", "CoreArtifactDefinition"}))})
CoreGeneratorValidator == node({"CoreValidator"}, {
    Required(One("definition", "CoreGeneratorDefinition",
        {"CoreGeneratorValidator", "CoreGeneratorDefinition"}))})
CoreCheckDefinition == node({"CoreTaskTarget"}, {
    Required(One("repository", "CoreGenericRepository", {"check_definition__repository"})),
    One("query", "CoreGraphQLQuery", {"check_definition__graphql_query"}),
    One("targets", "CoreGroup", {"check_definition___group"}),
    Many("tags", "BuiltinTag", {"CoreCheckDefinition", "BuiltinTag"})})
CoreTransformPython == node({"CoreTransformation"}, {})
CoreGraphQLQuery == node({}, {
    One("repository", "CoreGenericRepository", {"graphql_query__repository"}),
    Many("tags", "BuiltinTag", {"CoreGraphQLQuery", "BuiltinTag"})})
CoreArtifact == node({"CoreTaskTarget"}, {
    Required(One("object", "CoreNode", {"artifact__node"})),
    Required(One("definition", "CoreArtifactDefinition", {"artifact__artifact_definition"}))})
CoreArtifactDefinition == node({"CoreTaskTarget"}, {
    Required(One("targets", "CoreGroup", {"artifact_definition___group"})),
    Required(One("transformation", "CoreTransformation",
        {"artifact_definition___transformation"}))})
CoreGeneratorDefinition == node({"CoreTaskTarget"}, {
    Required(One("query", "CoreGraphQLQuery", {"generator_definition__graphql_query"})),
    Required(One("repository", "CoreGenericRepository", {"generator_definition__repository"})),
    Required(One("targets", "CoreGroup", {"generator_definition___group"}))})
CoreGeneratorInstance == node({"CoreTaskTarget"}, {
    Required(One("object", "CoreNode", {"generator__node"})),
    Required(One("definition", "CoreGeneratorDefinition",
        {"generator__generator_definition"}))})
CoreStandardWebhook == node({"CoreWebhook", "CoreTaskTarget"}, {})
CoreCustomWebhook == node({"CoreWebhook", "CoreTaskTarget"}, {
    One("transformation", "CoreTransformPython", {"webhook___transformation"})})
IpamNamespace == node({"BuiltinIPNamespace"}, {})
CoreIPPrefixPool == node({"CoreResourcePool", "LineageSource"}, {
    Required(Many("resources", "BuiltinIPPrefix", {"prefixpool__resource"})),
    Required(One("ip_namespace", "BuiltinIPNamespace", {"prefixpool__ipnamespace"}))})
CoreIPAddressPool == node({"CoreResourcePool", "LineageSource"}, {
    Required(Many("resources", "BuiltinIPPrefix", {"ipaddresspool__resource"})),
    Required(One("ip_namespace", "BuiltinIPNamespace", {"ipaddresspool__ipnamespace"}))})

-----------------------------------------------------------------------------
core_models == [
    CoreNode |-> CoreNode, LineageOwner |-> LineageOwner, CoreProfile |-> CoreProfile,
    LineageSource |-> LineageSource, CoreComment |-> CoreComment,
    CoreThread |-> CoreThread, CoreGroup |-> CoreGroup, CoreValidator |-> CoreValidator,
    CoreCheck |-> CoreCheck, CoreTransformation |-> CoreTransformation,
    CoreArtifactTarget |-> CoreArtifactTarget, CoreTaskTarget |-> CoreTaskTarget,
    CoreWebhook |-> CoreWebhook, CoreGenericRepository |-> CoreGenericRepository,
    BuiltinIPNamespace |-> BuiltinIPNamespace, BuiltinIPPrefix |-> BuiltinIPPrefix,
    BuiltinIPAddress |-> BuiltinIPAddress, CoreResourcePool |-> CoreResourcePool,
    CoreStandardGroup |-> CoreStandardGroup, CoreGeneratorGroup |-> CoreGeneratorGroup,
    CoreGraphQLQueryGroup |-> CoreGraphQLQueryGroup, BuiltinTag |-> BuiltinTag,
    CoreAccount |-> CoreAccount, InternalAccountToken |-> InternalAccountToken,
    InternalRefreshToken |-> InternalRefreshToken,
    CoreProposedChange |-> CoreProposedChange, CoreChangeThread |-> CoreChangeThread,
    CoreFileThread |-> CoreFileThread, CoreArtifactThread |-> CoreArtifactThread,
    CoreObjectThread |-> CoreObjectThread, CoreChangeComment |-> CoreChangeComment,
    CoreThreadComment |-> CoreThreadComment, CoreRepository |-> CoreRepository,
    CoreReadOnlyRepository |-> CoreReadOnlyRepository,
    CoreTransformJinja2 |-> CoreTransformJinja2, CoreDataCheck |-> CoreDataCheck,
    CoreStandardCheck |-> CoreStandardCheck, CoreSchemaCheck |-> CoreSchemaCheck,
    CoreFileCheck |-> CoreFileCheck, CoreArtifactCheck |-> CoreArtifactCheck,
    CoreGeneratorCheck |-> CoreGeneratorCheck, CoreDataValidator |-> CoreDataValidator,
    CoreRepositoryValidator |-> CoreRepositoryValidator,
    CoreUserValidator |-> CoreUserValidator, CoreSchemaValidator |-> CoreSchemaValidator,
    CoreArtifactValidator |-> CoreArtifactValidator,
    CoreGeneratorValidator |-> CoreGeneratorValidator,
    CoreCheckDefinition |-> CoreCheckDefinition,
    CoreTransformPython |-> CoreTransformPython, CoreGraphQLQuery |-> CoreGraphQLQuery,
    CoreArtifact |-> CoreArtifact, CoreArtifactDefinition |-> CoreArtifactDefinition,
    CoreGeneratorDefinition |-> CoreGeneratorDefinition,
    CoreGeneratorInstance |-> CoreGeneratorInstance,
    CoreStandardWebhook |-> CoreStandardWebhook, CoreCustomWebhook |-> CoreCustomWebhook,
    IpamNamespace |-> IpamNamespace, CoreIPPrefixPool |-> CoreIPPrefixPool,
    CoreIPAddressPool |-> CoreIPAddressPool]
=============================================================================
