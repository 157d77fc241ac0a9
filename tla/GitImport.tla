----------------------------- MODULE GitImport -----------------------------
(***************************************************************************)
(* A read-only repository: the Git agent pulls one commit of the remote    *)
(* and brings the objects of the graph in line with its files, kind after  *)
(* kind and object after object (backend/infrahub/git/integrator.py and    *)
(* the read-only part of repository.py and of the message handlers).       *)
(*                                                                         *)
(* Every definition called n uses the query called n, and an artifact      *)
(* definition the transform of its name.  What a definition says is the    *)
(* set of its fields that have their second value instead of their first.  *)
(***************************************************************************)
EXTENDS Integers, Sequences, FiniteSets

CONSTANTS
    Name,          \* names of queries and definitions
    Ref,           \* refs of the remote that can be followed
    Files,         \* Files[c]: what the files of commit c define
    MaxMoves,      \* bound: how often the remote moves a ref
    MaxRequests,   \* bound: how often users change the ref, the commit or a query group
    MaxTries,      \* retries of a message before it is given up
    MaxFailures    \* bound: calls to the API that fail

Commit == DOMAIN Files
None   == 0
Absent == {"absent"}

\* The kinds, in the order in which import_objects_from_files goes through them.
Order == <<"schema", "query", "check", "transform", "generator", "jinja2", "artifact">>
Kind  == {Order[i] : i \in DOMAIN Order}

Field == {"content", "query", "file_path", "timeout", "class_name", "parameters", "targets",
          "description", "template_path", "artifact_name", "content_type",
          "convert_query_response", "transformation",
          "lost_peer"}  \* a relationship of the object leads to a deleted node

Definition == [Name -> (SUBSET Field) \cup {Absent}]

Names(d) == {n \in Name : d[n] # Absent}

ASSUME FilesAssumption ==
    /\ Commit = 1 .. Len(Files)
    /\ \A c \in Commit :
          /\ Files[c].config \in BOOLEAN
          /\ Files[c].broken \subseteq Kind \X Name
          /\ Files[c].defs \in [Kind -> Definition]
          \* The schema files of a commit are loaded by one call: one object.
          /\ Cardinality(Names(Files[c].defs["schema"])) <= 1

ASSUME BoundAssumption == MaxTries \in Nat

VARIABLES
    remote,     \* the commit of every ref of the remote
    published,  \* the commits the remote has had
    cloned,     \* the clone exists on disk
    local,      \* the local branches of the clone
    fetched,    \* the commits whose objects the clone holds
    ref,        \* attribute `ref' of the repository in the graph
    commit,     \* attribute `commit' of the repository in the graph
    objects,    \* the objects of the graph that belong to the repository
    grouped,    \* the queries that a CoreGraphQLQueryGroup refers to
    op,         \* the handler that holds the repository's lock
    messages,   \* messages waiting for a git agent
    requests, moves, failures  \* counters of the bounds

vars == <<remote, published, cloned, local, fetched, ref, commit, objects, grouped, op,
          messages, requests, moves, failures>>

Git == <<remote, published, moves>>

Message == [type : {"add", "pull"}, ref : Ref, commit : Commit \cup {None},
            tries : 0 .. MaxTries]

\* No handler holds the lock.
Idle == [at |-> "idle"]

Nothing == [k \in Kind |-> [n \in Name |-> Absent]]

-----------------------------------------------------------------------------
(* What the importers compare, update, need and delete. *)

\* The fields on which the compare_ functions decide that an object is stale.
schema_load_compare               == {"content"}
compare_graphql_query             == {"query"}
compare_python_check_definition   == {"query", "file_path", "timeout", "class_name", "parameters"}
compare_python_transform          == {"query", "file_path", "timeout"}
generator_requires_update         == {"query", "file_path", "class_name", "parameters",
                                      "convert_query_response", "targets"}
compare_jinja2_transform          == {"description", "template_path", "query"}
compare_artifact_definition       == {"artifact_name", "parameters", "content_type"}

Compared == [schema    |-> schema_load_compare,
             query     |-> compare_graphql_query,
             check     |-> compare_python_check_definition,
             transform |-> compare_python_transform,
             generator |-> generator_requires_update,
             jinja2    |-> compare_jinja2_transform,
             artifact  |-> compare_artifact_definition]

\* The fields that the update_ functions set.
schema_load_update                == {"content"}
update_graphql_query              == {"query"}
update_python_check_definition    == {"query", "file_path", "timeout", "parameters"}
update_python_transform           == {"query", "file_path", "timeout"}
update_generator_definition       == {"query", "file_path", "class_name", "parameters",
                                      "convert_query_response", "targets"}
update_jinja2_transform           == {"description", "template_path", "query"}
update_artifact_definition        == {"artifact_name", "parameters", "content_type"}

Updated == [schema    |-> schema_load_update,
            query     |-> update_graphql_query,
            check     |-> update_python_check_definition,
            transform |-> update_python_transform,
            generator |-> update_generator_definition,
            jinja2    |-> update_jinja2_transform,
            artifact  |-> update_artifact_definition]

\* Mutant: fields that the files no longer have stay set.
AfterUpdate_add(k, n, c) ==
    objects[k][n] \cup (Files[c].defs[k][n] \cap Updated[k])
Stale(k, n, c) ==
    \E f \in Compared[k] : f \in objects[k][n] <=> f \notin Files[c].defs[k][n]
AfterUpdate(k, n, c) ==
    (objects[k][n] \ Updated[k]) \cup (Files[c].defs[k][n] \cap Updated[k])

\* A definition whose module cannot be imported, or that does not fit its
\* schema, is left out as if the files did not mention it.
Local(k, c) == {n \in Names(Files[c].defs[k]) : <<k, n>> \notin Files[c].broken}

\* The kind of the repository's objects whose mandatory relationship to the
\* query keeps it from being deleted; that of the query groups does so too. The
\* one of the transforms comes from a generic, and an identifier is indexed for
\* the last kind that has it, which is the generic: no node is of it and nothing
\* is found (NodeDeleteIndex, see CoreSchema).
UsesQuery == {"generator"}

\* The object that a created definition refers to is looked up in the graph.
create_graphql_query(n)           == TRUE
create_python_check_definition(n) == objects["query"][n] # Absent
create_python_transform(n)        == objects["query"][n] # Absent
create_generator_definition(n)    == objects["query"][n] # Absent
create_jinja2_transform(n)        == objects["query"][n] # Absent
create_artifact_definition(n)     == \E t \in {"transform", "jinja2"} : objects[t][n] # Absent

Resolved(k, n) ==
    CASE k \in {"schema", "query"} -> create_graphql_query(n)
      [] k = "check"     -> create_python_check_definition(n)
      [] k = "transform" -> create_python_transform(n)
      [] k = "generator" -> create_generator_definition(n)
      [] k = "jinja2"    -> create_jinja2_transform(n)
      [] k = "artifact"  -> create_artifact_definition(n)

\* What an importer finds in the files, whether it leaves at once, the names
\* it cannot build a definition for, and what it deletes from the graph.
Importer(k, c, skip, unresolved) ==
    [local |-> Local(k, c), skip |-> skip, unresolved |-> unresolved,
     delete |-> Names(objects[k]) \ Local(k, c)]

\* Names of the files for which the query is not in the graph.
WithoutQuery(k, c) == {n \in Local(k, c) : objects["query"][n] = Absent}

\* The peer of a relationship is resolved whenever an object is read, and a
\* peer that was deleted is not found.
Unreadable(k) == {n \in Names(objects[k]) : "lost_peer" \in objects[k][n]}

\* Without a query in the files the queries of the graph are left alone.
import_all_graphql_query(c) == Importer("query", c, Local("query", c) = {}, {})

\* Every other kind needs the configuration file.
get_repository_config(c) == Files[c].config

\* One schema file that is not valid keeps all of them from being loaded, and
\* nothing more happens; what the files no longer have stays in the graph.
import_schema_files(c) ==
    [Importer("schema", c, \/ ~ get_repository_config(c)
                           \/ \E n \in Name : <<"schema", n>> \in Files[c].broken, {})
       EXCEPT !.delete = {}]

import_python_check_definitions(c) ==
    Importer("check", c, ~ get_repository_config(c), WithoutQuery("check", c) \cup Unreadable("check"))
import_python_transforms(c) ==
    Importer("transform", c, ~ get_repository_config(c), WithoutQuery("transform", c) \cup Unreadable("transform"))
import_generator_definitions(c) ==
    Importer("generator", c, ~ get_repository_config(c), WithoutQuery("generator", c) \cup Unreadable("generator"))
import_jinja2_transforms(c) ==
    Importer("jinja2", c, ~ get_repository_config(c), WithoutQuery("jinja2", c) \cup Unreadable("jinja2"))

\* Artifact definitions are all read, and none is ever deleted.
import_artifact_definitions(c) ==
    [Importer("artifact", c, ~ get_repository_config(c), Unreadable("artifact"))
       EXCEPT !.delete = {}]

ImporterOf(k, c) ==
    CASE k = "schema"    -> import_schema_files(c)
      [] k = "query"     -> import_all_graphql_query(c)
      [] k = "check"     -> import_python_check_definitions(c)
      [] k = "transform" -> import_python_transforms(c)
      [] k = "generator" -> import_generator_definitions(c)
      [] k = "jinja2"    -> import_jinja2_transforms(c)
      [] k = "artifact"  -> import_artifact_definitions(c)

\* A deletion is refused for an object that a mandatory relationship needs.
InUse(k, n) == k = "query" /\ (n \in grouped \/ \E d \in UsesQuery : objects[d][n] # Absent)

\* The kinds that refer to a kind by a relationship which is declared on their
\* side only: to delete the object leaves it as it is.
Referring(k) == {j \in Kind : \/ k = "query" /\ j \in {"check", "transform", "jinja2"}
                              \/ k \in {"transform", "jinja2"} /\ j = "artifact"}
AfterDelete(k, n) ==
    [j \in Kind |->
        IF j = k THEN [objects[k] EXCEPT ![n] = Absent]
        ELSE IF j \in Referring(k) /\ n \in Names(objects[j])
             THEN [objects[j] EXCEPT ![n] = @ \cup {"lost_peer"}] ELSE objects[j]]

-----------------------------------------------------------------------------
Init ==
    /\ \E r \in Ref :
          /\ ref = r
          /\ messages = {[type |-> "add", ref |-> r, commit |-> None, tries |-> 0]}
    /\ remote \in [Ref -> Commit]
    /\ published = {remote[r] : r \in Ref}
    /\ cloned = FALSE
    /\ local = [r \in Ref |-> None]
    /\ fetched = {}
    /\ commit = None
    /\ objects = Nothing
    /\ grouped = {}
    /\ op = Idle
    /\ requests = 0 /\ moves = 0 /\ failures = 0

\* Somebody moves a ref of the remote.
RemoteMoves(r, c) ==
    /\ moves < MaxMoves
    /\ c # remote[r]
    /\ remote' = [remote EXCEPT ![r] = c]
    /\ published' = published \cup {c}
    /\ moves' = moves + 1
    /\ UNCHANGED <<cloned, local, fetched, ref, commit, objects, grouped, op, messages,
                   requests, failures>>

\* mutate_update of a read-only repository: new values are saved, and a pull
\* is requested when the ref or the commit differs from the stored one.
MutateUpdate(new_ref, new_commit) ==
    /\ requests < MaxRequests
    /\ new_ref # None \/ new_commit # None
    /\ requests' = requests + 1
    /\ ref' = IF new_ref = None THEN ref ELSE new_ref
    /\ commit' = IF new_commit = None THEN commit ELSE new_commit
    /\ messages' = IF ref' # ref \/ commit' # commit
                   THEN messages \cup {[type |-> "pull", ref |-> ref',
                                        commit |-> new_commit, tries |-> 0]}
                   ELSE messages
    /\ UNCHANGED <<Git, cloned, local, fetched, objects, grouped, op, failures>>

\* A query that was run with update_group has a group, which a user may delete.
\* (One recorded while its query is being deleted has no query: it is left out.)
UpdateGroup(n) ==
    /\ requests < MaxRequests
    /\ n \in grouped \/ objects["query"][n] # Absent
    /\ requests' = requests + 1
    /\ grouped' = IF n \in grouped THEN grouped \ {n} ELSE grouped \cup {n}
    /\ UNCHANGED <<Git, cloned, local, fetched, ref, commit, objects, op, messages, failures>>

-----------------------------------------------------------------------------
(* The handlers add_read_only and pull_read_only. *)

\* execute_message: a message whose handler raised is sent again, a limited
\* number of times.
Retried(ms) == {[m EXCEPT !.tries = @ + 1] : m \in {x \in ms : x.tries < MaxTries}}

\* The handler raises: the lock is released, the message is sent again.
Raise(m) ==
    /\ op' = Idle
    /\ messages' = (messages \ {m}) \cup Retried({m})

\* An import of commit c begins.
Importing(m, c, pass) ==
    [at |-> "kind", msg |-> m, target |-> c, pass |-> pass, kind |-> 1,
     create |-> {}, update |-> {}, delete |-> {}, refused |-> FALSE]

\* The commit that is imported: the given one, or what the fetched ref says.
Chosen(m) == IF m.commit # None THEN m.commit ELSE remote[m.ref]

\* A given commit is not fetched first.
Available(m) == m.commit = None \/ m.commit \in fetched

\* A clone is made by add_read_only, and by pull_read_only when init does not
\* find one: the ref becomes a local branch beside the default one of the
\* remote, and its commit is recorded.
StartClone ==
    /\ op = Idle
    /\ \E m \in messages :
          /\ m.type = "add" \/ ~ cloned
          /\ cloned' = TRUE
          /\ \E default \in Ref :
                local' = [r \in Ref |-> IF r \in {m.ref, default} THEN remote[r] ELSE None]
          /\ fetched' = published
          /\ commit' = remote[m.ref]
          /\ IF m.commit = None \/ m.commit \in published
             THEN op' = Importing(m, Chosen(m), 1) /\ UNCHANGED messages
             ELSE Raise(m)
    /\ UNCHANGED <<Git, ref, objects, grouped, requests, failures>>

StartPull ==
    /\ op = Idle
    /\ cloned
    /\ \E m \in messages :
          /\ m.type = "pull"
          /\ IF Available(m)
             THEN /\ op' = Importing(m, Chosen(m), 1)
                  /\ fetched' = IF m.commit = None THEN published ELSE fetched
                  /\ UNCHANGED messages
             ELSE /\ Raise(m)
                  /\ UNCHANGED fetched
    /\ UNCHANGED <<Git, cloned, local, ref, commit, objects, grouped, requests, failures>>

\* sync_from_remote: nothing when the local branch of the ref is at the commit.
SyncFromRemote ==
    /\ op.at = "sync"
    /\ LET m == op.msg IN
       /\ fetched' = IF m.commit = None THEN published ELSE fetched
       /\ IF local[m.ref] = Chosen(m)
          THEN op' = Idle /\ messages' = messages \ {m}
          ELSE op' = Importing(m, Chosen(m), 2) /\ UNCHANGED messages
    /\ UNCHANGED <<Git, cloned, local, ref, commit, objects, grouped, requests, failures>>

\* update_commit_value, after the second import.
UpdateCommit ==
    /\ op.at = "commit"
    /\ commit' = op.target
    /\ op' = Idle
    /\ messages' = messages \ {op.msg}
    /\ UNCHANGED <<Git, cloned, local, fetched, ref, objects, grouped, requests, failures>>

-----------------------------------------------------------------------------
(* import_objects_from_files. *)

CurrentKind == Order[op.kind]

\* The importer of one kind compares the files with the graph.
CompareKind ==
    /\ op.at = "kind"
    /\ op.kind <= Len(Order)
    /\ LET k == CurrentKind
           i == ImporterOf(k, op.target)
           known == Names(objects[k]) IN
       \/ /\ i.skip
          /\ op' = [op EXCEPT !.kind = @ + 1]
          /\ UNCHANGED messages
       \/ /\ ~ i.skip /\ i.unresolved # {}
          /\ Raise(op.msg)
       \/ /\ ~ i.skip /\ i.unresolved = {}
          /\ op' = [op EXCEPT !.at = "apply",
                      !.create = i.local \ known,
                      !.update = {n \in i.local \cap known : Stale(k, n, op.target)},
                      !.delete = i.delete]
          /\ UNCHANGED messages
    /\ UNCHANGED <<Git, cloned, local, fetched, ref, commit, objects, grouped, requests, failures>>

\* The server refuses the schema, which its answer says: the error is logged and
\* the import goes on.
SchemaRefused ==
    /\ op.at = "apply" /\ CurrentKind = "schema"
    /\ op.create \cup op.update # {}
    /\ op' = [op EXCEPT !.at = "kind", !.kind = @ + 1, !.create = {}, !.update = {},
                        !.refused = TRUE]
    /\ UNCHANGED <<Git, cloned, local, fetched, ref, commit, objects, grouped, messages, requests,
                   failures>>

\* One object is created, updated or deleted, in this order.
ApplyObject ==
    /\ op.at = "apply"
    /\ LET k == CurrentKind
           c == op.target IN
       \/ \E n \in op.create :
             IF Resolved(k, n)
             THEN /\ objects' = [objects EXCEPT ![k][n] = Files[c].defs[k][n]]
                  /\ op' = [op EXCEPT !.create = @ \ {n}]
                  /\ UNCHANGED messages
             ELSE Raise(op.msg) /\ UNCHANGED objects
       \/ /\ op.create = {}
          /\ \E n \in op.update :
                /\ objects' = [objects EXCEPT ![k][n] = AfterUpdate(k, n, c)]
                /\ op' = [op EXCEPT !.update = @ \ {n}]
                /\ UNCHANGED messages
       \/ /\ op.create = {} /\ op.update = {}
          /\ \E n \in op.delete :
                IF InUse(k, n)
                THEN Raise(op.msg) /\ UNCHANGED objects
                ELSE /\ objects' = AfterDelete(k, n)
                     /\ op' = [op EXCEPT !.delete = @ \ {n}]
                     /\ UNCHANGED messages
       \/ /\ op.create = {} /\ op.update = {} /\ op.delete = {}
          /\ op' = [op EXCEPT !.at = "kind", !.kind = @ + 1]
          /\ UNCHANGED <<objects, messages>>
    /\ UNCHANGED <<Git, cloned, local, fetched, ref, commit, grouped, requests, failures>>

\* All the kinds are done.
EndImport ==
    /\ op.at = "kind"
    /\ op.kind > Len(Order)
    /\ op' = [op EXCEPT !.at = IF op.pass = 1 THEN "sync" ELSE "commit"]
    /\ UNCHANGED <<Git, cloned, local, fetched, ref, commit, objects, grouped, messages,
                   requests, failures>>

\* A call to the API fails; the objects changed so far stay changed.
Fail ==
    /\ op # Idle
    /\ failures < MaxFailures
    /\ failures' = failures + 1
    /\ Raise(op.msg)
    /\ UNCHANGED <<Git, cloned, local, fetched, ref, commit, objects, grouped, requests>>

-----------------------------------------------------------------------------
Handler == \/ StartClone \/ StartPull \/ SyncFromRemote \/ UpdateCommit
           \/ CompareKind \/ SchemaRefused \/ ApplyObject \/ EndImport

Next ==
    \/ \E r \in Ref, c \in Commit : RemoteMoves(r, c)
    \/ \E r \in Ref \cup {None}, c \in published \cup {None} : MutateUpdate(r, c)
    \/ \E n \in Name : UpdateGroup(n)
    \/ Handler
    \/ Fail

Spec == Init /\ [][Next]_vars

-----------------------------------------------------------------------------
\* Types of the state.
TypeOK ==
    /\ remote \in [Ref -> Commit] /\ published \subseteq Commit
    /\ cloned \in BOOLEAN
    /\ local \in [Ref -> Commit \cup {None}]
    /\ fetched \subseteq published
    /\ ref \in Ref /\ commit \in Commit \cup {None}
    /\ objects \in [Kind -> Definition]
    /\ grouped \subseteq Name
    /\ messages \subseteq Message
    /\ op = Idle \/ op \in [at : {"kind", "apply", "sync", "commit"}, msg : Message,
                           target : Commit, pass : {1, 2}, kind : 1 .. Len(Order) + 1,
                           create : SUBSET Name, update : SUBSET Name, delete : SUBSET Name,
                           refused : BOOLEAN]

\* The objects of the graph of the given kinds are what the files of commit c
\* define, as far as the importers look: kinds that are skipped, artifact
\* definitions that only the graph has, and fields that are not both compared and
\* updated are not.
Matches(kinds, c) ==
    \A k \in kinds :
        LET i == ImporterOf(k, c) IN
        i.skip \/
        /\ i.local \subseteq Names(objects[k])
        /\ i.delete = {}
        /\ \A n \in i.local :
              \A f \in Compared[k] \cap Updated[k] :
                 f \in objects[k][n] <=> f \in Files[c].defs[k][n]

\* An import that comes to its end has brought every kind in line with the
\* files, whatever an earlier import that failed half way, or one of another
\* commit, had left in the graph; but for a schema that the server has refused,
\* after which the import goes on all the same.
ImportMatches ==
    op.at \in {"sync", "commit"} =>
        Matches(IF op.refused THEN Kind \ {"schema"} ELSE Kind, op.target)

\* At no moment does a generator definition of the graph lack the query it must
\* have: queries come before the definitions that use them, and one that is
\* still used is not deleted, even if its user is deleted later in the same
\* import. (A transform may lose its query: see UsesQuery. So may a query group
\* that is recorded while the query is being deleted.)
QueryKept ==
    \A k \in UsesQuery, n \in Name :
        objects[k][n] # Absent => objects["query"][n] # Absent
=============================================================================
