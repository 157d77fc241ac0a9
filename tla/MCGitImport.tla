---------------------------- MODULE MCGitImport ----------------------------
(* Small instances of GitImport and of Artifacts, which share no state: a      *)
(* behaviour is about one part of the system.                                 *)
EXTENDS GitImport, Artifacts, TLC

VARIABLE part   \* "import" or "artifacts"

\* The refs play the same role.
Symmetry == Permutations(Ref)

\* A definition that exists under the given names, each with the given fields.
Some(names, fields) == [n \in Name |-> IF n \in names THEN fields ELSE Absent]

Tree(config, broken, schemas, queries, checks, transforms, generators, templates, artifacts) ==
    [config |-> config,
     broken |-> broken,
     defs   |-> [schema |-> schemas, query |-> queries, check |-> checks, transform |-> transforms,
                 generator |-> generators, jinja2 |-> templates, artifact |-> artifacts]]

No == Some({}, {})

\* 1: there is no configuration file.  2: one definition of every kind.  3: the
\* transform and a generator go, and so does their query; the other generator
\* and the artifact change; neither the schema nor the module of the check can
\* be imported.
MCFiles == <<
    Tree(FALSE, {}, No, Some({"x"}, {"query"}), No, No, No, No, No),
    Tree(TRUE, {}, Some({"x"}, {"content"}), Some({"x", "y"}, {}), Some({"x"}, {"class_name"}),
         Some({"x"}, {"timeout"}), Some({"x", "y"}, {}), Some({"y"}, {}), Some({"x"}, {"parameters"})),
    Tree(TRUE, {<<"check", "x">>, <<"schema", "x">>}, Some({"x"}, {}), Some({"y"}, {}),
         Some({"x"}, {}), No, Some({"y"}, {"targets"}), No, Some({"x"}, {})) >>

\* The refs are at different commits at first, one of them at the second.  A
\* target with an instance relates to everything, one without it to nothing;
\* Relate does the rest.
MCInit ==
    /\ part \in {"import", "artifacts"}
    /\ Init /\ ArtifactsInit
    /\ \A t \in Target : uses[t] = IF t \in DOMAIN artifact THEN Input ELSE {t}
    /\ IF part = "import" THEN /\ \A q, r \in Ref : remote[q] = remote[r] => q = r
                               /\ remote[ref] # 1 /\ \E r \in Ref : remote[r] = 2
                          ELSE remote = [r \in Ref |-> 1]
    /\ part # "artifacts" => DOMAIN artifact = {} /\ definition = "artifact"

MCNext ==
    /\ UNCHANGED part
    /\ \/ part = "import" /\ Next /\ UNCHANGED artifactVars
       \/ part = "artifacts" /\ ArtifactsNext /\ UNCHANGED vars

MCSpec == MCInit /\ [][MCNext]_<<part, vars, artifactVars>>
=============================================================================
