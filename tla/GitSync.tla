------------------------------ MODULE GitSync ------------------------------
(***************************************************************************)
(* A read-write Git repository and its copies: the remote, the clone that  *)
(* the git agents share, and the commit and the imported objects the graph *)
(* holds for every branch (backend/infrahub/git and the handlers of        *)
(* backend/infrahub/message_bus/operations/git).                           *)
(*                                                                         *)
(* A commit is a number; `history' gives its ancestors, itself included.   *)
(* The files of a commit are the changes of its ancestors, and the objects *)
(* imported on a branch of the graph are the set of the changes they       *)
(* reflect.  Every handler runs under the lock repository/<name>, so one   *)
(* operation runs at a time; what may happen between two of its steps is   *)
(* what the lock does not cover: pushes to the remote, the users of the    *)
(* graph, and the failure of the step itself.                              *)
(***************************************************************************)
EXTENDS Integers, Sequences, FiniteSets

CONSTANTS
    Main,          \* the default branch
    Branch,        \* the names of the other branches
    Valid,         \* the names that the graph accepts for a branch
    NoCommit,      \* no branch, or no commit recorded
    MaxCommits,    \* bound: commits ever made
    MaxRequests,   \* bound: branches created, merged or deleted by users
    MaxFailures,   \* bound: steps that raise
    MaxTries       \* retries of a message before it is given up

ASSUME NamesAssumption == Main \notin Branch /\ Valid \subseteq Branch
ASSUME CommitAssumption == NoCommit = 0
ASSUME BoundsAssumption == MaxCommits \in Nat \ {0} /\ MaxRequests \in Nat /\ MaxFailures \in Nat /\ MaxTries \in Nat

VARIABLES
    history,         \* the ancestors of every commit
    merges,          \* the merge commits, which change no file themselves
    remote,          \* the heads of the remote repository
    graph_branches,  \* the branches of the graph
    commit,          \* the attribute `commit' of the repository, per branch
    own,             \* the branches on which a value of it was written
    imported,        \* the changes the imported objects reflect, per branch
    cloned,          \* the directories on disk pass init's validation
    local,           \* the heads of the clone's branches
    known,           \* the remote branches a ref of which was fetched
    op,              \* the operation that holds the repository's lock
    messages,        \* messages waiting for a git agent
    requests,        \* what users of the graph have asked for
    failures,        \* steps that raised
    incidents        \* what has gone wrong so far

vars == <<history, merges, remote, graph_branches, commit, own, imported, cloned,
          local, known, op, messages, requests, failures, incidents>>

Branches == {Main} \cup Branch
Commit   == 1 .. MaxCommits
Message  == [type : {"add"}, branch : {Main}, tries : 0 .. MaxTries]
                \cup [type : {"create", "merge"}, branch : Branch, tries : 0 .. MaxTries]
Stage    == {"clone", "fetch", "next", "graph", "git", "pull", "commit", "import", "push"}

\* What the code does not recover from: a step failed between the change of
\* the clone and the update of the graph; heads diverged; a branch ahead of
\* the remote; a push was refused; a merge left out a recorded commit; the
\* graph had moved when the branch was created or merged in git; a merge was
\* given up; the branch was deleted in the graph only; a merge in the graph let
\* the branch see what main has since, which its files have not.
Incident == {"failed", "diverged", "unchanged", "unpublished", "stale", "late", "abandoned", "deleted",
             "overtaken"}

NoHeads == [b \in Branches |-> NoCommit]

\* No operation holds the lock.
Idle == [at |-> "idle", task |-> "none", branch |-> Main,
         new |-> {}, updated |-> {}, handled |-> {}]

Free == op = Idle

\* The ancestors of a head; a branch that does not exist has none.
Past(c) == IF c = NoCommit THEN {} ELSE history[c]

\* The changes of the files among a set of commits.
Changes(s) == s \ merges

-----------------------------------------------------------------------------
(* Git, as the handlers use it. *)

\* git pull of branch b, whose local head is h: a fast-forward, nothing when
\* the local head is ahead, and an error when the two have diverged.
Pullable(h, b) == h \in Past(remote[b]) \/ remote[b] \in Past(h)
Pulled(h, b)   == IF h \in Past(remote[b]) THEN remote[b] ELSE h

\* git push of head h to branch b.  A rejected or failed push raises nothing
\* (push ignores what origin.push returns): the remote stays as it is.
Accepted(h, b) == remote[b] = NoCommit \/ remote[b] \in Past(h)
\* Mutant: nothing is pushed.
Pushed_not(h, b) == remote
Pushed(h, b)   == IF Accepted(h, b) THEN [remote EXCEPT ![b] = h] ELSE remote

\* create_branch_in_git: the branch starts at the head of main, also when the
\* remote has it already; it is pulled only when a ref of it was fetched.
created_head(b) ==
    IF b \in known THEN Pulled(local[Main], b) ELSE local[Main]
created_diverges(b) ==
    b \in known /\ ~ Pullable(local[Main], b)

get_branches_from_remote == {b \in Branches : remote[b] # NoCommit}
get_branches_from_local  == {b \in Branches : local[b] # NoCommit}

\* The names the graph would refuse are skipped.
validate_remote_branch(b) == b \in Valid \cup {Main}

\* compare_local_remote: branches without a local one, and those whose heads
\* differ.
new_branches ==
    {b \in get_branches_from_remote \ get_branches_from_local : validate_remote_branch(b)}

\* Mutant: only main is compared.
updated_branches_main ==
    {b \in {Main} \cap get_branches_from_local : local[b] # remote[b]}

updated_branches ==
    {b \in get_branches_from_remote \cap get_branches_from_local :
        local[b] # remote[b] /\ validate_remote_branch(b)}

-----------------------------------------------------------------------------
Init ==
    /\ history = <<{1}>>
    /\ merges = {}
    /\ remote = [NoHeads EXCEPT ![Main] = 1]
    /\ graph_branches = {Main}
    /\ commit = NoHeads
    /\ own = {}
    /\ imported = [b \in Branches |-> {}]
    /\ cloned = FALSE
    /\ local = NoHeads
    /\ known = {}
    /\ op = Idle
    /\ messages = {[type |-> "add", branch |-> Main, tries |-> 0]}
    /\ requests = 0
    /\ failures = 0
    /\ incidents = {}

(* The world around the handlers. *)

\* Somebody pushes a commit to a branch of the remote, or starts one there
\* from the head of main or from an older commit of it.
RemoteCommit(b) ==
    /\ Len(history) < MaxCommits
    /\ LET c == Len(history) + 1 IN
       \E parent \in IF remote[b] # NoCommit THEN {remote[b]} ELSE Past(remote[Main]) :
          /\ history' = Append(history, Past(parent) \cup {c})
          /\ remote' = [remote EXCEPT ![b] = c]
    /\ UNCHANGED <<merges, graph_branches, commit, own, imported, cloned, local,
                   known, op, messages, failures, incidents, requests>>

\* What the creation of a branch does in the graph: it sees main's commit and
\* main's objects, and the event ends in a GitBranchCreate message.
InGraph(b) ==
    /\ graph_branches' = graph_branches \cup {b}
    /\ commit' = [commit EXCEPT ![b] = commit[Main]]
    /\ own' = own \ {b}
    /\ imported' = [imported EXCEPT ![b] = imported[Main]]
    /\ messages' = messages \cup {[type |-> "create", branch |-> b, tries |-> 0]}

\* BranchCreate by a user of the graph.
BranchCreate(b) ==
    /\ requests < MaxRequests
    /\ requests' = requests + 1
    /\ b \in Valid \ graph_branches
    /\ InGraph(b)
    /\ UNCHANGED <<history, merges, remote, cloned, local, known, op, failures, incidents>>

\* BranchMerge: the graph merge brings the branch's objects to main, and a
\* GitRepositoryMerge message is sent for the files.  If anything was merged,
\* branched_from moves on: of what it has not changed itself, the branch now
\* sees what main has.  The attribute `commit' is local to its branch and is
\* not merged.
BranchMerge(b) ==
    /\ requests < MaxRequests
    /\ requests' = requests + 1
    /\ b \in graph_branches \ {Main}
    /\ \E moves \in BOOLEAN :
          LET objects == imported[Main] \cup imported[b]
              seen == IF moves THEN objects ELSE imported[b]
              c == IF moves /\ b \notin own THEN commit[Main] ELSE commit[b] IN
          /\ moves \/ objects = imported[Main]
          /\ imported' = [imported EXCEPT ![Main] = objects, ![b] = seen]
          /\ commit' = [commit EXCEPT ![b] = c]
          /\ incidents' = IF c = commit[b] /\ seen = imported[b] THEN incidents
                          ELSE incidents \cup {"overtaken"}
    /\ messages' = messages \cup {[type |-> "merge", branch |-> b, tries |-> 0]}
    /\ UNCHANGED <<history, merges, remote, graph_branches, own, cloned, local, known, op, failures>>

\* BranchDelete removes the branch from the graph and from nowhere else.
BranchDelete(b) ==
    /\ requests < MaxRequests
    /\ requests' = requests + 1
    /\ b \in graph_branches \ {Main}
    /\ graph_branches' = graph_branches \ {b}
    /\ commit' = [commit EXCEPT ![b] = NoCommit]
    /\ own' = own \ {b}
    /\ imported' = [imported EXCEPT ![b] = {}]
    /\ incidents' = incidents \cup {"deleted"}
    /\ UNCHANGED <<history, merges, remote, cloned, local, known, op, messages, failures>>

-----------------------------------------------------------------------------
(* sync_remote_repositories and GitRepositoryAdd. *)

At(s) == op.at = s
Goto(s) == op' = [op EXCEPT !.at = s]

\* execute_message: a message whose handler raised is sent again, a limited
\* number of times.
Retried(ms) == {[m EXCEPT !.tries = @ + 1] : m \in {x \in ms : x.tries < MaxTries}}

\* A merge that is not tried again leaves main's files behind its objects.
GivenUp(ms) == IF \E m \in ms : m.type = "merge" /\ m.tries = MaxTries
               THEN {"abandoned"} ELSE {}

\* The handler raises: the lock is released and the message sent again.
Abort ==
    /\ op' = Idle
    /\ messages' = messages \cup Retried(op.handled)

\* RequestGitSync: a clone that init accepts is only brought up to date.
StartSync ==
    /\ Free
    /\ op' = IF cloned
             THEN [Idle EXCEPT !.at = "fetch", !.task = "sync"]
             ELSE [Idle EXCEPT !.at = "clone", !.task = "new"]
    /\ UNCHANGED <<history, merges, remote, graph_branches, commit, own, imported,
                   cloned, local, known, messages, failures, incidents, requests>>

\* The GitRepositoryAdd handler clones whatever is on disk.
StartAdd ==
    /\ Free
    /\ \E m \in messages :
          /\ m.type = "add"
          /\ messages' = messages \ {m}
          /\ op' = [Idle EXCEPT !.at = "clone", !.task = "new",
                                !.handled = {m}]
    /\ UNCHANGED <<history, merges, remote, graph_branches, commit, own, imported,
                   cloned, local, known, failures, incidents, requests>>

\* create_locally: what was on disk is removed, the clone has the default
\* branch only, and a ref of every branch of the remote.
Clone ==
    /\ At("clone")
    /\ cloned' = TRUE
    /\ local' = [NoHeads EXCEPT ![Main] = remote[Main]]
    /\ known' = get_branches_from_remote
    /\ op' = [op EXCEPT !.at = "commit", !.branch = Main]
    /\ UNCHANGED <<history, merges, remote, graph_branches, commit, own, imported,
                   messages, failures, incidents, requests>>

\* fetch and compare_local_remote.
Fetch ==
    /\ At("fetch")
    /\ known' = known \cup get_branches_from_remote
    /\ op' = [op EXCEPT !.at = "next", !.new = new_branches,
                        !.updated = updated_branches]
    /\ UNCHANGED <<history, merges, remote, graph_branches, commit, own, imported,
                   cloned, local, messages, failures, incidents, requests>>

\* The loops of sync: all the new branches, then all the updated ones.
NextBranch ==
    /\ At("next")
    /\ \/ \E b \in op.new :
             op' = [op EXCEPT !.at = "graph", !.branch = b, !.new = @ \ {b}]
       \/ /\ op.new = {}
          /\ \E b \in op.updated :
                op' = [op EXCEPT !.at = "pull", !.branch = b, !.updated = @ \ {b}]
       \/ /\ op.new = {} /\ op.updated = {}
          /\ op' = Idle
    /\ UNCHANGED <<history, merges, remote, graph_branches, commit, own, imported,
                   cloned, local, known, messages, failures, incidents, requests>>

\* create_branch_in_graph, or the branch that already exists there.
CreateInGraph ==
    /\ At("graph")
    /\ Goto("git")
    /\ IF op.branch \in graph_branches
       THEN UNCHANGED <<graph_branches, commit, own, imported, messages>>
       ELSE InGraph(op.branch)
    /\ UNCHANGED <<history, merges, remote, cloned, local, known, failures, incidents, requests>>

\* create_branch_in_git; a pull that cannot be reconciled leaves the branch
\* at the head of main and ends the whole synchronisation.
CreateInGit ==
    /\ At("git")
    /\ LET b == op.branch IN
       IF created_diverges(b)
       THEN /\ local' = [local EXCEPT ![b] = local[Main]]
            /\ incidents' = incidents \cup {"diverged"}
            /\ Abort
            /\ UNCHANGED remote
       ELSE /\ local' = [local EXCEPT ![b] = created_head(b)]
            /\ remote' = Pushed(created_head(b), b)
            /\ Goto("commit")
            /\ UNCHANGED <<incidents, messages>>
    /\ UNCHANGED <<history, merges, graph_branches, commit, own, imported, cloned,
                   known, failures, requests>>

\* pull.  When the local head is ahead the pull changes nothing and returns
\* True, which the import then takes for a commit: it raises.
Pull ==
    /\ At("pull")
    /\ LET b == op.branch
           h == local[b] IN
       IF Pullable(h, b) /\ Pulled(h, b) # h
       THEN /\ local' = [local EXCEPT ![b] = Pulled(h, b)]
            /\ Goto("commit")
            /\ UNCHANGED <<incidents, messages>>
       ELSE /\ incidents' = incidents \cup
                   {IF Pullable(h, b) THEN "unchanged" ELSE "diverged"}
            /\ Abort
            /\ UNCHANGED local
    /\ UNCHANGED <<history, merges, remote, graph_branches, commit, own, imported,
                   cloned, known, failures, requests>>

\* update_commit_value: the mutation fails on a branch the graph has not, and
\* writes nothing if the branch shows that commit already.
UpdateCommit ==
    /\ At("commit")
    /\ IF op.branch \in graph_branches
       THEN /\ commit' = [commit EXCEPT ![op.branch] = local[op.branch]]
            /\ own' = IF commit[op.branch] = local[op.branch] THEN own ELSE own \cup {op.branch}
            /\ Goto(IF op.task = "merge" THEN "push" ELSE "import")
            /\ UNCHANGED messages
       ELSE /\ Abort
            /\ UNCHANGED <<commit, own>>
    /\ UNCHANGED <<history, merges, remote, graph_branches, imported, cloned,
                   local, known, failures, incidents, requests>>

\* import_objects_from_files, of the commit that was just recorded; after a
\* clone the synchronisation follows.
Import ==
    /\ At("import")
    /\ IF op.branch \in graph_branches
       THEN /\ imported' = [imported EXCEPT ![op.branch] = Past(local[op.branch])]
            /\ op' = IF op.task = "new" THEN [op EXCEPT !.at = "fetch", !.task = "sync"]
                                       ELSE [op EXCEPT !.at = "next"]
            /\ UNCHANGED messages
       ELSE /\ Abort
            /\ UNCHANGED imported
    /\ UNCHANGED <<history, merges, remote, graph_branches, commit, own, cloned,
                   local, known, failures, incidents, requests>>

\* A step raises: the clone is not made, or the API cannot be reached.  What
\* the earlier steps did stays done, and the next comparison of the heads
\* sees only what they have left different.
Fail ==
    /\ failures < MaxFailures
    /\ op.at \in {"clone", "graph", "git", "pull", "commit", "import"}
    /\ failures' = failures + 1
    /\ Abort
    /\ IF At("git")
       THEN local' = [local EXCEPT ![op.branch] = local[Main]]
       ELSE IF At("clone")
       THEN local' = NoHeads
       ELSE UNCHANGED local
    /\ cloned' = (cloned /\ ~ At("clone"))
    /\ incidents' = IF op.at \in {"git", "commit", "import"}
                    THEN incidents \cup {"failed"} ELSE incidents
    /\ UNCHANGED <<history, merges, remote, graph_branches, commit, own, imported, known, requests>>

-----------------------------------------------------------------------------
(* The handlers of GitBranchCreate and GitRepositoryMerge. *)

\* GitBranchCreate: nothing when the branch exists locally.  The graph keeps
\* the commit it had when the branch was created in it.
GitBranchCreate ==
    /\ Free
    /\ cloned
    /\ \E m \in messages :
          /\ m.type = "create"
          /\ LET b == m.branch
                 h == created_head(b) IN
             \/ /\ local[b] # NoCommit
                /\ messages' = messages \ {m}
                /\ UNCHANGED <<local, remote, known, incidents>>
             \/ /\ local[b] = NoCommit
                /\ created_diverges(b)
                /\ local' = [local EXCEPT ![b] = local[Main]]
                /\ messages' = (messages \ {m}) \cup Retried({m})
                /\ incidents' = incidents \cup {"diverged"}
                /\ UNCHANGED <<remote, known>>
             \/ /\ local[b] = NoCommit
                /\ ~ created_diverges(b)
                /\ local' = [local EXCEPT ![b] = h]
                /\ remote' = Pushed(h, b)
                /\ known' = known \cup {b}
                /\ messages' = messages \ {m}
                /\ incidents' = IF commit[b] = h /\ Changes(imported[b]) = Changes(Past(h))
                                THEN incidents ELSE incidents \cup {"late"}
    /\ UNCHANGED <<history, merges, graph_branches, commit, own, imported, cloned, op, failures, requests>>

\* The head of main after git merge of head s, unless it stays where it is:
\* a fast-forward or a merge commit.
\* Mutant: main takes the head of the branch.
FastForward_always(s) == TRUE
FastForward(s) == local[Main] \in Past(s)
UpToDate(s)    == s \in Past(local[Main])

\* GitRepositoryMerge merges the heads of the clone, whatever the remote has
\* received since and whatever the graph merged before.  No object is imported.
GitRepositoryMerge ==
    /\ Free
    /\ cloned
    /\ \E m \in messages :
          /\ m.type = "merge"
          /\ LET s == local[m.branch]
                 h == IF FastForward(s) THEN s ELSE Len(history) + 1
                 past == Past(local[Main]) \cup Past(s) \cup {h} IN
             /\ s # NoCommit
             /\ \/ /\ UpToDate(s)
                   /\ messages' = messages \ {m}
                   /\ UNCHANGED <<history, merges, local, op, incidents>>
                \/ /\ ~ UpToDate(s)
                   /\ h <= MaxCommits
                   /\ history' = IF FastForward(s) THEN history ELSE Append(history, past)
                   /\ merges' = IF FastForward(s) THEN merges ELSE merges \cup {h}
                   /\ local' = [local EXCEPT ![Main] = h]
                   /\ op' = [Idle EXCEPT !.at = "commit", !.task = "merge",
                                         !.handled = {m}]
                   /\ messages' = messages \ {m}
                   /\ incidents' = incidents
                         \cup (IF commit[Main] \in past THEN {} ELSE {"stale"})
                         \cup (IF imported[Main] \ merges = past \ (merges \cup
                                      (IF FastForward(s) THEN {} ELSE {h}))
                               THEN {} ELSE {"late"})
    /\ UNCHANGED <<remote, graph_branches, commit, own, imported, cloned, known, failures, requests>>

\* The handler raises before it changes anything: no clone, no local source
\* branch, or a merge with conflicts, which it aborts.
MessageFails ==
    /\ Free
    /\ \E m \in messages :
          /\ m.type \in {"create", "merge"}
          /\ \/ ~ cloned
             \/ /\ m.type = "merge"
                /\ LET s == local[m.branch] IN
                   \/ s = NoCommit
                   \/ ~ FastForward(s) /\ ~ UpToDate(s)
          /\ messages' = (messages \ {m}) \cup Retried({m})
          /\ incidents' = incidents \cup GivenUp({m})
    /\ UNCHANGED <<history, merges, remote, graph_branches, commit, own, imported,
                   cloned, local, known, op, failures, requests>>

\* The push that ends a merge, after the graph has recorded the commit.
Push ==
    /\ At("push")
    /\ LET h == local[Main] IN
       /\ remote' = Pushed(h, Main)
       /\ incidents' = IF Accepted(h, Main) THEN incidents
                       ELSE incidents \cup {"unpublished"}
    /\ op' = Idle
    /\ UNCHANGED <<history, merges, graph_branches, commit, own, imported, cloned,
                   local, known, messages, failures, requests>>

-----------------------------------------------------------------------------
Step == \/ Clone \/ Fetch \/ NextBranch \/ CreateInGraph \/ CreateInGit
        \/ Pull \/ UpdateCommit \/ Import \/ Push

Next ==
    \/ \E b \in Branches : RemoteCommit(b)
    \/ \E b \in Branch : BranchCreate(b) \/ BranchMerge(b) \/ BranchDelete(b)
    \/ StartSync \/ StartAdd
    \/ GitBranchCreate \/ GitRepositoryMerge \/ MessageFails
    \/ Step
    \/ Fail

Fairness ==
    /\ WF_vars(Step)
    /\ WF_vars(StartSync)

Spec == Init /\ [][Next]_vars /\ Fairness

-----------------------------------------------------------------------------
\* Types of the state.
TypeOK ==
    /\ history \in Seq(SUBSET Commit) /\ Len(history) <= MaxCommits
    /\ merges \subseteq 1 .. Len(history)
    /\ remote \in [Branches -> 0 .. Len(history)] /\ remote[Main] # NoCommit
    /\ Main \in graph_branches /\ graph_branches \subseteq Branches
    /\ commit \in [Branches -> 0 .. Len(history)]
    /\ own \subseteq Branches
    /\ imported \in [Branches -> SUBSET Commit]
    /\ cloned \in BOOLEAN
    /\ local \in [Branches -> 0 .. Len(history)]
    /\ known \subseteq Branches
    /\ op = Idle \/ op \in [at : Stage, task : {"new", "sync", "merge"},
                           branch : Branches, new : SUBSET Branch,
                           updated : SUBSET Branches, handled : SUBSET Message]
    /\ messages \subseteq Message
    /\ requests \in 0 .. MaxRequests
    /\ failures \in 0 .. MaxFailures
    /\ incidents \subseteq Incident

\* Any clone can fetch the commit.
Published(c) == \E b \in Branches : c \in Past(remote[b])

\* The commit that the graph records for a branch can be fetched from the
\* remote, so that another clone can check it out (get_commit_worktree): merge
\* records it before it pushes, and only a push that was refused without an
\* error leaves a commit that exists nowhere else.
GraphCommitPublished ==
    "unpublished" \notin incidents =>
        \A b \in graph_branches :
            \/ commit[b] = NoCommit
            \/ Published(commit[b])
            \/ op.at = "push" /\ commit[b] = local[Main]

\* As long as nothing has gone wrong but that a merge let a branch see main's
\* newer commit, the commit recorded for a branch is only replaced by one that
\* contains it, whichever of clone, pull, branch creation and merge records or
\* shows it; a branch may leave the commit it took over from main.
GraphCommitForward ==
    [][\A b \in graph_branches \cap graph_branches' :
          \/ commit[b] = NoCommit
          \/ b # Main /\ commit[b] \in Past(commit[Main])
          \/ commit[b] \in history'[commit'[b]]
          \/ ~ incidents' \subseteq {"overtaken"}]_vars

\* The graph shows what the remote has: commit and objects of every branch,
\* but for a merge of the files that is still waiting.
InSync ==
    \A b \in graph_branches :
        remote[b] # NoCommit =>
            /\ commit[b] = remote[b]
            /\ \/ b = Main /\ \E m \in messages : m.type = "merge"
               \/ Changes(imported[b]) = Changes(Past(remote[b]))

\* Unless one of the listed incidents happens, every commit pushed to the
\* remote is recorded and imported: the comparison of local and remote heads
\* is enough to find all that is left to do, whatever the interleaving of
\* synchronisations, branch creations and merges.
SyncConverges == <>(incidents # {}) \/ <>[]InSync
=============================================================================
