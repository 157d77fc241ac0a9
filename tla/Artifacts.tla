------------------------------ MODULE Artifacts ------------------------------
(***************************************************************************)
(* Artifacts, and generator instances, of the targets of a definition on a   *)
(* branch.  The result of an instance is made from the answer to a query,    *)
(* which a message then records: the group of the query has the nodes that   *)
(* were read as members and the instance as subscriber.  The pipeline of a   *)
(* proposed change looks up the subscribers of the nodes that the branch has *)
(* modified, to find the instances that have to be made again.               *)
(***************************************************************************)
EXTENDS Naturals, FiniteSets

CONSTANTS
    Input,       \* nodes that the query may read
    Target,      \* those that may be in the group of targets of the definition
    Profile,     \* those that are profiles
    Definitions,  \* "artifact", "generator", or both: kinds of definition to consider
    NoValue,      \* no id, or no content
    MaxEdits, MaxJobs, MaxSent, MaxErrors   \* bounds

Job == 1..MaxJobs

ASSUME ArtifactsAssumption ==
    /\ Target \subseteq Input /\ Profile \subseteq Input \ Target
    /\ Definitions \subseteq {"artifact", "generator"}
    /\ Target \cap Job = {} /\ NoValue \notin Target \cup Job
    /\ \A S \in SUBSET Input : NoValue \notin [S -> Nat]
    /\ MaxEdits \in Nat /\ MaxJobs \in Nat /\ MaxSent \in Nat /\ MaxErrors \in Nat

VARIABLES
    definition,  \* the kind of the definition
    content,     \* version of each input
    uses,        \* the inputs that the query of each target reads
    listed,      \* history: targets whose query has come to read a node, or no longer reads
                 \* one, without a change of another that it reads
    modified,    \* the inputs that the branch has modified
    members,     \* the group of targets
    artifact,    \* the instances, by id
    group,       \* the query group of each target
    updates,     \* messages that update a query group
    diff,        \* the pipeline that is on its way
    job,         \* the instances to make
    mutex,       \* holder of the lock of each target
    edited, sent, errors

artifactVars == <<definition, content, uses, listed, modified, members, artifact, group, updates, diff,
                  job, mutex, edited, sent, errors>>

NoDiff == [open |-> FALSE, nodes |-> {}, impacted |-> {}, outdated |-> {}, pending |-> {}]

(* What the query of a target answers. *)
Response(t) == [i \in uses[t] |-> content[i]]

(* Ids are those of the targets whose instance was there first and of the     *)
(* jobs that make one.                                                       *)
InstancesOf(t) == {a \in DOMAIN artifact : artifact[a].target = t}

-----------------------------------------------------------------------------
(* Changes of the data on the branch.                                       *)

Edited(nodes) ==
    /\ edited < MaxEdits /\ edited' = edited + 1
    /\ modified' = modified \cup nodes
    /\ content' = [i \in Input |-> IF i \in nodes THEN content[i] + 1 ELSE content[i]]
    /\ UNCHANGED <<definition, artifact, group, updates, diff, job, mutex, sent, errors>>

(* A query that lists nodes may start or stop to read the one that is         *)
(* created, edited or deleted.                                               *)
Edit ==
    \E i \in Input :
        /\ Edited({i})
        /\ \E listing \in SUBSET (Target \ {i}) :
              /\ uses' = [t \in Target |->
                            IF t \notin listing THEN uses[t]
                            ELSE IF i \in uses[t] THEN uses[t] \ {i} ELSE uses[t] \cup {i}]
              /\ listed' = listed \cup listing
        /\ UNCHANGED members

(* A relationship between a node that the query reads and another, through    *)
(* which it comes to read this one and others, or no longer does.            *)
Relate ==
    \E t \in Target : \E i \in uses[t], j \in Input \ {t} :
        /\ i # j /\ Edited({i, j})
        /\ \E reach \in SUBSET (Input \ {t, i}) :
              /\ j \in reach
              /\ uses' = [uses EXCEPT ![t] = IF j \in @ THEN @ \ reach ELSE @ \cup reach]
        /\ UNCHANGED <<listed, members>>

ChangeMembers ==
    \E t \in Target :
        /\ Edited({t})
        /\ members' = IF t \in members THEN members \ {t} ELSE members \cup {t}
        /\ UNCHANGED <<uses, listed>>

-----------------------------------------------------------------------------
(* Requests for instances.                                                  *)

Request ==
    /\ sent < MaxSent /\ sent' = sent + 1
    /\ UNCHANGED <<definition, content, uses, listed, modified, members, artifact, group, updates, mutex,
                   edited, errors>>

_populate_subscribers(nodes) ==
    UNION {group[t].subscribers : t \in {u \in Target : group[u].members \cap nodes # {}}}

(* The content of an instance is not what the query would give now; if nodes  *)
(* have come and gone with a listing, that its target has changed.           *)
Outdated(a) ==
    LET t == artifact[a].target
        c == artifact[a].content
    IN  c # NoValue /\ IF t \in listed THEN c[t] # content[t] ELSE c # Response(t)

(* `outdated` and `pending` are history: the instances that are out of date,  *)
(* and those with a message on its way.                                      *)
Pipeline ==
    /\ Request
    /\ ~ diff.open
    /\ diff' = [open |-> TRUE, nodes |-> modified,
                impacted |-> _populate_subscribers(modified),
                outdated |-> {a \in DOMAIN artifact : Outdated(a)},
                pending |-> {m.subscriber : m \in updates}]
    /\ UNCHANGED job

(* A change of a profile is one of the kind it applies to, for artifacts. *)
Selected(nodes, sync_with_git, has_file_modifications) ==
    \/ sync_with_git /\ has_file_modifications
    \/ \E i \in nodes : definition = "artifact" \/ i \notin Profile

Queued(t, a) == [phase |-> "queued", target |-> t, id |-> a, read |-> NoValue, response |-> NoValue]

(* One message for each of the targets, with the id of the instance it has;   *)
(* the jobs are numbered from one.                                           *)
SendJobs(targets) ==
    \E pick \in [targets -> DOMAIN artifact \cup {NoValue}], order \in [targets -> Job \ DOMAIN job] :
        /\ \A t \in targets : IF InstancesOf(t) = {} THEN pick[t] = NoValue
                                                     ELSE pick[t] \in InstancesOf(t)
        /\ \A t, u \in targets : order[t] = order[u] => t = u
        /\ \A n \in Job \ DOMAIN job : (\E t \in targets : order[t] = n) \/ \A t \in targets : order[t] < n
        /\ job' = [n \in DOMAIN job \cup {order[t] : t \in targets} |->
                     IF n \in DOMAIN job THEN job[n]
                     ELSE LET t == CHOOSE u \in targets : order[u] = n IN Queued(t, pick[t])]

(* Mutant: an instance is made only if it is impacted.                       *)
_render_artifact_impacted(t, sync_with_git, impacted) == InstancesOf(t) \cap impacted # {}

_render_artifact(t, sync_with_git, impacted) ==
    InstancesOf(t) = {} \/ sync_with_git \/ InstancesOf(t) \cap impacted # {}

Check ==
    \E sync_with_git, has_file_modifications \in BOOLEAN :
        /\ diff.open
        /\ SendJobs(IF Selected(diff.nodes, sync_with_git, has_file_modifications)
                    THEN {t \in members : _render_artifact(t, sync_with_git, diff.impacted)} ELSE {})
        /\ diff' = NoDiff
        /\ UNCHANGED <<definition, content, uses, listed, modified, members, artifact, group, updates,
                       mutex, edited, sent, errors>>

(* The REST API, the definition's mutations and the merge of a branch. *)
Generate ==
    /\ Request
    /\ \E limit \in SUBSET members : SendJobs(limit)
    /\ UNCHANGED diff

-----------------------------------------------------------------------------
(* Making an instance.                                                      *)

Step(n, from, to) ==
    /\ job[n].phase = from
    /\ job' = [job EXCEPT ![n] = to]
    /\ UNCHANGED <<definition, content, uses, listed, modified, members, group, diff, edited, sent>>

Released(n) == [t \in Target |-> IF mutex[t] = n THEN NoValue ELSE mutex[t]]

(* An instance that is there is read; that of a generator is pending again.   *)
Found(n, from, a) ==
    /\ Step(n, from, [job[n] EXCEPT !.phase = "defined", !.id = a, !.read = artifact[a]])
    /\ artifact' = IF definition = "artifact" THEN artifact
                   ELSE [artifact EXCEPT ![a] = [@ EXCEPT !.status = "Pending"]]
    /\ mutex' = Released(n)
    /\ UNCHANGED <<updates, errors>>

GetById(n) == job[n].id # NoValue /\ Found(n, "queued", job[n].id)

(* Mutant: the lock is not waited for. *)
Acquire_free(n) ==
    /\ Step(n, "queued", [job[n] EXCEPT !.phase = "locked"])
    /\ job[n].id = NoValue
    /\ UNCHANGED <<artifact, updates, mutex, errors>>

Acquire(n) ==
    /\ Step(n, "queued", [job[n] EXCEPT !.phase = "locked"])
    /\ job[n].id = NoValue
    /\ mutex[job[n].target] = NoValue
    /\ mutex' = [mutex EXCEPT ![job[n].target] = n]
    /\ UNCHANGED <<artifact, updates, errors>>

Search(n) ==
    LET found == InstancesOf(job[n].target) IN
    \/ \E a \in found : Found(n, "locked", a)
    \/ /\ Step(n, "locked", [job[n] EXCEPT !.phase = "creating"])
       /\ found = {}
       /\ UNCHANGED <<artifact, updates, mutex, errors>>

(* What a new object holds is never equal to what it sends. *)
CreateInstance(n) ==
    LET new == [target |-> job[n].target, status |-> "Pending", content |-> NoValue, writes |-> 0] IN
    /\ Step(n, "creating", [job[n] EXCEPT !.phase = "defined", !.id = n,
                                          !.read = [new EXCEPT !.status = "new"]])
    /\ artifact' = [a \in DOMAIN artifact \cup {n} |-> IF a = n THEN new ELSE artifact[a]]
    /\ mutex' = Released(n)
    /\ UNCHANGED <<updates, errors>>

Query(n) ==
    /\ Step(n, "defined", [job[n] EXCEPT !.phase = "queried", !.response = Response(job[n].target)])
    /\ updates' = updates \cup {[target |-> job[n].target, members |-> uses[job[n].target],
                                 subscriber |-> job[n].id, sender |-> n, stored |-> FALSE]}
    /\ UNCHANGED <<artifact, mutex, errors>>

(* An attribute of an artifact that has the value it was read with is not     *)
(* sent; the status of a generator instance always is.                       *)
Saved(n, status, c) ==
    LET a == artifact[job[n].id]
        read == job[n].read
    IN  [artifact EXCEPT ![job[n].id] =
           [target |-> a.target,
            status |-> IF definition = "artifact" /\ read.status = status THEN a.status ELSE status,
            content |-> IF read.content = c THEN a.content ELSE c,
            writes |-> a.writes + 1]]

(* Mutant: the status is left alone.                                         *)
render_artifact_no_status(n) ==
    /\ Step(n, "queried", [job[n] EXCEPT !.phase = "done"])
    /\ artifact' = IF definition = "artifact" /\ job[n].read.content = job[n].response
                   THEN artifact ELSE Saved(n, job[n].read.status, job[n].response)
    /\ UNCHANGED <<updates, mutex, errors>>

(* Content of an artifact that has not changed is not stored again, and       *)
(* nothing else is.                                                          *)
render_artifact(n) ==
    /\ Step(n, "queried", [job[n] EXCEPT !.phase = "done"])
    /\ artifact' = IF definition = "artifact" /\ job[n].read.content = job[n].response
                   THEN artifact ELSE Saved(n, "Ready", job[n].response)
    /\ UNCHANGED <<updates, mutex, errors>>

(* The query, the transformation or the upload raises, or the save does: then *)
(* the object has the new content already, and is saved again.               *)
RenderFails(n) ==
    /\ errors < MaxErrors /\ errors' = errors + 1
    /\ \/ /\ Step(n, "defined", [job[n] EXCEPT !.phase = "failed"])
          /\ artifact' = Saved(n, "Error", job[n].read.content)
       \/ /\ Step(n, "queried", [job[n] EXCEPT !.phase = "failed"])
          /\ \E c \in {job[n].read.content, job[n].response} : artifact' = Saved(n, "Error", c)
    /\ UNCHANGED <<updates, mutex>>

(* Before there is an instance, an exception has the message tried again. *)
Retry(n) ==
    /\ errors < MaxErrors /\ errors' = errors + 1
    /\ \E phase \in {"locked", "creating"} :
          Step(n, phase, Queued(job[n].target, job[n].id))
    /\ mutex' = Released(n)
    /\ UNCHANGED <<artifact, updates>>

-----------------------------------------------------------------------------
(* The query group: its members are replaced, its subscribers added to.     *)

UpdateMembers(m) ==
    /\ m \in updates /\ ~ m.stored
    /\ group' = [group EXCEPT ![m.target] = [@ EXCEPT !.members = m.members]]
    /\ updates' = (updates \ {m}) \cup {[m EXCEPT !.stored = TRUE]}
    /\ UNCHANGED <<definition, content, uses, listed, modified, members, artifact, diff, job, mutex,
                   edited, sent, errors>>

group_add_subscriber(m) ==
    /\ m \in updates /\ m.stored
    /\ group' = [group EXCEPT ![m.target] =
                    [members |-> @.members, subscribers |-> @.subscribers \cup {m.subscriber}]]
    /\ updates' = updates \ {m}
    /\ UNCHANGED <<definition, content, uses, listed, modified, members, artifact, diff, job, mutex,
                   edited, sent, errors>>

-----------------------------------------------------------------------------

(* The branch starts with the instances that the main branch has. *)
ArtifactsInit ==
    /\ definition \in Definitions
    /\ content = [i \in Input |-> 0]
    /\ uses \in [Target -> SUBSET Input] /\ \A t \in Target : t \in uses[t]
    /\ modified = {} /\ listed = {} /\ members = Target
    /\ \E made \in SUBSET Target :
          /\ artifact = [t \in made |-> [target |-> t, status |-> "Ready", writes |-> 0,
                                         content |-> [i \in uses[t] |-> 0]]]
          /\ group = [t \in Target |-> IF t \in made THEN [members |-> uses[t], subscribers |-> {t}]
                                       ELSE [members |-> {}, subscribers |-> {}]]
    /\ updates = {} /\ diff = NoDiff
    /\ job = [n \in {} |-> Queued(n, NoValue)]
    /\ mutex = [t \in Target |-> NoValue]
    /\ edited = 0 /\ sent = 0 /\ errors = 0

ArtifactsNext ==
    \/ Edit \/ Relate \/ ChangeMembers
    \/ Pipeline \/ Check \/ Generate
    \/ \E n \in DOMAIN job :
          \/ GetById(n) \/ Acquire(n) \/ Search(n) \/ CreateInstance(n)
          \/ Query(n) \/ render_artifact(n) \/ RenderFails(n) \/ Retry(n)
    \/ \E m \in updates : UpdateMembers(m) \/ group_add_subscriber(m)

ArtifactsSpec == ArtifactsInit /\ [][ArtifactsNext]_artifactVars

-----------------------------------------------------------------------------

(* A target has one instance, although messages that were sent before it had *)
(* any all mean to create it.                                                *)
OneInstance == \A a, b \in DOMAIN artifact : artifact[a].target = artifact[b].target => a = b

(* A pipeline makes again every instance whose content was out of date when   *)
(* it started, also where a change led the query to other nodes, and makes    *)
(* the one that a target has not got, unless the message that subscribes the  *)
(* instance had not been handled, or a generator depends on nothing but       *)
(* profiles that were modified.  A node that a listing query has come to read *)
(* is in no group, and is overlooked (Outdated).                              *)
OutdatedSelected ==
    [][diff.open /\ ~ diff'.open =>
         \A t \in members :
            \/ \E n \in DOMAIN job' \ DOMAIN job : job'[n].target = t
            \/ IF InstancesOf(t) = {} THEN t \notin diff.nodes
               ELSE InstancesOf(t) \cap diff.outdated \subseteq diff.pending
            \/ definition = "generator" /\ diff.nodes \subseteq Profile]_artifactVars

(* A job that ends without an error leaves an instance that is ready, with    *)
(* what was made from its query, unless another has written the instance      *)
(* since it was read, or it is an artifact that was in error and has the same  *)
(* content again.                                                            *)
RenderedReady ==
    [][\A n \in DOMAIN job :
         LET j == job[n] IN
         j.phase = "queried" /\ job'[n].phase = "done" /\ artifact[j.id].writes = j.read.writes =>
            /\ artifact'[j.id].content = j.response
            /\ \/ artifact'[j.id].status = "Ready"
               \/ definition = "artifact" /\ j.read.status = "Error" /\ j.read.content = j.response]_artifactVars
=============================================================================
