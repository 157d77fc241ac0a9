---------------------------- MODULE BranchGraph -----------------------------
(***************************************************************************)
(* The versioned graph: the values of attributes on the default branch and *)
(* on the branches made from it.  A value is an edge HAS_VALUE from an     *)
(* attribute to a value, valid on one branch from a time on, until another *)
(* time or still (to is null).  Nothing is overwritten: an update closes   *)
(* an edge and adds one.  A branch reads its own edges and, below them,    *)
(* those of main as they were when it was branched.                        *)
(*                                                                         *)
(* The attributes exist on main before the first branch and are not        *)
(* deleted; nodes, flags and relationships are outside this module.        *)
(* A merge is a transaction of the (read committed) database: what its     *)
(* diff read may be out of date when its writes are committed.             *)
(***************************************************************************)
EXTENDS Naturals, FiniteSets

CONSTANTS
  Branch,      \* names of user branches
  Main,        \* registry.default_branch
  Attr,        \* attributes of nodes
  Value,       \* values of attributes
  FirstValue,  \* the value every attribute has at the start
  MaxTime,     \* bound: clock ticks (one per operation that draws a timestamp)
  MaxCrashes   \* bound: requests lost between two queries

ASSUME MainAssumption == Main \notin Branch
ASSUME ValueAssumption == FirstValue \in Value
ASSUME BoundAssumption == MaxTime \in Nat \ {0} /\ MaxCrashes \in Nat

VARIABLES
  edges,     \* the HAS_VALUE edges
  branch,    \* the Branch nodes of the database
  clock,     \* the last timestamp drawn
  merge,     \* per branch: a merge between its diff and its commit
  deleting,  \* branches whose node is deleted and whose edges are still to be
  crashes,
  clean      \* history: every merge so far replaced the value main then had

vars == <<edges, branch, clock, merge, deleting, crashes, clean>>

-----------------------------------------------------------------------------
Null == 0                        \* an edge's `to` that is not set
Time == 1..MaxTime
AnyBranch == Branch \cup {Main}

Edge == [attr : Attr, val : Value, br : AnyBranch, born : Time, from : Time, to : {Null} \cup Time]

edge(a, v, b, at) ==
  [attr |-> a, val |-> v, br |-> b, born |-> at, from |-> at, to |-> Null]

(* The element id of an edge: it survives changes of from and to. *)
Same(e, f) == e.br = f.br /\ e.attr = f.attr /\ e.born = f.born

NoBranch == [open |-> FALSE, created_at |-> 0, branched_from |-> 0]
NoMerge == [phase |-> "none", via |-> "branch", created_at |-> 0, diff_to |-> 0,
            changes |-> {}, origin |-> {}, resolved |-> {}]

Init ==
  /\ edges = {edge(a, FirstValue, Main, 1) : a \in Attr}
  /\ branch = [b \in Branch |-> NoBranch]
  /\ clock = 1
  /\ merge = [b \in Branch |-> NoMerge]
  /\ deleting = {}
  /\ crashes = 0
  /\ clean = TRUE

-----------------------------------------------------------------------------
(* Reading.                                                                 *)

hierarchy_level(b) == IF b = Main THEN 1 ELSE 2

(* Mutant: the default branch is read as it is now (is_isolated is ignored). *)
time_default_branch_now(b, at) == at

(* get_branches_and_times_to_query_global: the time at which b reads main.  *)
time_default_branch(b, at) ==
  IF b = Main \/ at <= branch[b].branched_from THEN at ELSE branch[b].branched_from

(* get_query_filter_path, one edge at one time. *)
ValidAt(e, t) == e.from <= t /\ (e.to = Null \/ e.to >= t)

Visible(b, a, at) ==
  {e \in edges : e.attr = a
                 /\ \/ e.br = b /\ ValidAt(e, at)
                    \/ e.br = Main /\ ValidAt(e, time_default_branch(b, at))}

(* ORDER BY r.branch_level DESC, r.from DESC *)
Precedes(f, e) ==
  \/ hierarchy_level(f.br) > hierarchy_level(e.br)
  \/ hierarchy_level(f.br) = hierarchy_level(e.br) /\ f.from > e.from

(* NodeListGetAttributeQuery: for each value the first visible edge. *)
NodeListGetAttribute(b, a, at) ==
  LET S == Visible(b, a, at)
  IN {e \in S : \A f \in S : f.val = e.val => ~ Precedes(f, e)}

(* branch_score, then time_score (an open edge counts more than a closed one) *)
ScoresAtLeast(e, f) ==
  \/ hierarchy_level(e.br) > hierarchy_level(f.br)
  \/ hierarchy_level(e.br) = hierarchy_level(f.br) /\ (e.to = Null \/ f.to # Null)

(* get_results_group_by takes one of the results with the highest score; the *)
(* query orders results of equal score in no particular way.                 *)
Current(b, a, at) ==
  LET R == NodeListGetAttribute(b, a, at)
  IN {e \in R : \A f \in R : ScoresAtLeast(e, f)}

Read(b, a, at) == {e.val : e \in Current(b, a, at)}

View(b) == [a \in Attr |-> Read(b, a, clock)]

-----------------------------------------------------------------------------
(* Writing.                                                                 *)

Close(S, at) == {[e EXCEPT !.to = at] : e \in S}

Exists(b) == b # Main => branch[b].open

(* Mutant: the edge of the old value stays open. *)
UpdateValue_no_close(b, a, v) ==
  /\ clock < MaxTime
  /\ Exists(b)
  /\ clock' = clock + 1
  /\ \E cur \in Current(b, a, clock + 1) :
       /\ cur.val # v
       /\ edges' = edges \cup {edge(a, v, b, clock + 1)}
  /\ UNCHANGED <<branch, merge, deleting, crashes, clean>>

(* Mutant: the edge on this branch is pointed at the new value. *)
UpdateValue_in_place(b, a, v) ==
  /\ clock < MaxTime
  /\ Exists(b)
  /\ clock' = clock + 1
  /\ \E cur \in Current(b, a, clock + 1) :
       /\ cur.val # v
       /\ edges' = IF cur.br = b THEN (edges \ {cur}) \cup {[cur EXCEPT !.val = v]}
                                 ELSE edges \cup {edge(a, v, b, clock + 1)}
  /\ UNCHANGED <<branch, merge, deleting, crashes, clean>>

(* BaseAttribute._update: if the value differs from the current one, add an  *)
(* edge on the branch and close the current edge if it is on this branch.    *)
UpdateValue(b, a, v) ==
  /\ clock < MaxTime
  /\ Exists(b)
  /\ clock' = clock + 1
  /\ \E cur \in Current(b, a, clock + 1) :
       LET replaced == {e \in {cur} : e.br = b}
       IN /\ cur.val # v
          /\ edges' = (edges \ replaced) \cup Close(replaced, clock + 1)
                      \cup {edge(a, v, b, clock + 1)}
  /\ UNCHANGED <<branch, merge, deleting, crashes, clean>>

(* BranchCreate: the name must not be in the database. *)
CreateBranch(b) ==
  /\ clock < MaxTime
  /\ ~ branch[b].open
  /\ clock' = clock + 1
  /\ branch' = [branch EXCEPT ![b] = [open |-> TRUE, created_at |-> clock + 1,
                                      branched_from |-> clock + 1]]
  /\ UNCHANGED <<edges, merge, deleting, crashes, clean>>

(* Branch.delete is two queries outside a transaction: first the node goes... *)
DeleteBranch(b) ==
  /\ branch[b].open
  /\ b \notin deleting
  /\ branch' = [branch EXCEPT ![b] = NoBranch]
  /\ deleting' = deleting \cup {b}
  /\ UNCHANGED <<edges, clock, merge, crashes, clean>>

(* Mutant: only the edges that are still open are removed. *)
DeleteBranchRelationships_open(b) ==
  /\ b \in deleting
  /\ edges' = {e \in edges : ~ (e.br = b /\ e.to = Null)}
  /\ deleting' = deleting \ {b}
  /\ UNCHANGED <<branch, clock, merge, crashes, clean>>

(* ...then every edge that has its name. *)
DeleteBranchRelationships(b) ==
  /\ b \in deleting
  /\ edges' = {e \in edges : e.br # b}
  /\ deleting' = deleting \ {b}
  /\ UNCHANGED <<branch, clock, merge, crashes, clean>>

(* The request dies between the two. *)
DeleteInterrupted(b) ==
  /\ b \in deleting
  /\ crashes < MaxCrashes
  /\ crashes' = crashes + 1
  /\ deleting' = deleting \ {b}
  /\ UNCHANGED <<edges, branch, clock, merge, clean>>

-----------------------------------------------------------------------------
(* Rebase (one transaction).                                                *)

(* Mutant: open edges are dropped. *)
RebaseDeletes_open(e, at) == e.to = Null \/ e.to < at

(* rebase_graph, one edge of the branch. *)
RebaseDeletes(e, at) == \/ e.to = Null /\ e.from > at
                        \/ e.to # Null /\ e.to < at

(* Branch.rebase: keep the branch's open edges, all from now on, and read    *)
(* main from now on.                                                         *)
Rebase(b) ==
  /\ clock < MaxTime
  /\ branch[b].open
  /\ clock' = clock + 1
  /\ edges' = {e \in edges : e.br # b}
              \cup {[e EXCEPT !.from = clock + 1] :
                      e \in {f \in edges : f.br = b /\ ~ RebaseDeletes(f, clock + 1)}}
  /\ branch' = [branch EXCEPT ![b].branched_from = clock + 1]
  /\ UNCHANGED <<merge, deleting, crashes, clean>>

-----------------------------------------------------------------------------
(* Diff and merge.                                                          *)

(* get_query_filter_relationships_diff, on the branch (from created_at) and   *)
(* on main (from the later of created_at and branched_from).                *)
InRange(e, start, diff_to) ==
  /\ e.from >= start /\ e.from <= diff_to
  /\ e.to = Null \/ e.to >= diff_to

BranchChanges(b, diff_to) ==
  {e \in edges : e.br = b /\ InRange(e, branch[b].created_at, diff_to)}

MainStart(b) == IF branch[b].created_at <= branch[b].branched_from
                THEN branch[b].branched_from ELSE branch[b].created_at

MainChanges(b, diff_to) ==
  {e \in edges : e.br = Main /\ InRange(e, MainStart(b), diff_to)}

(* get_conflicts_graph: attributes modified on both sides. *)
Conflicts(b, diff_to) ==
  {e.attr : e \in BranchChanges(b, diff_to)} \cap {e.attr : e \in MainChanges(b, diff_to)}

(* sort_results_by_time: the time of the last action on an edge; at the same *)
(* time, closing one comes before opening one.                               *)
LastAction(e) == IF e.to = Null THEN 2 * e.from + 1 ELSE 2 * e.to

(* origin_rel_id: of the edges that b could see when it was created, the one *)
(* with the oldest last action.                                              *)
OriginRel(b, a) ==
  LET S == Visible(b, a, branch[b].created_at)
  IN {e \in S : \A f \in S : LastAction(e) <= LastAction(f)}

(* BranchMerger.merge up to the writes, under the graph lock.  BranchMerge   *)
(* passes no resolution; a proposed change may pass one, which must then     *)
(* cover the conflicts: keep holds the attributes of which the source is     *)
(* kept.  A merge that finds nothing to apply changes nothing.               *)
MergeValidate(b, via, resolved, keep) ==
  LET diff_to == clock + 1
      changes == {e \in BranchChanges(b, diff_to) : e.attr \notin resolved \/ e.attr \in keep}
  IN /\ clock < MaxTime
     /\ branch[b].open
     /\ merge[b].phase = "none"
     /\ \A c \in Branch : merge[c].phase # "locked"
     /\ via = "branch" => resolved = {}
     /\ IF resolved = {} THEN Conflicts(b, diff_to) = {} ELSE Conflicts(b, diff_to) \subseteq resolved
     /\ changes # {}
     /\ clock' = diff_to
     /\ merge' = [merge EXCEPT ![b] =
                    [phase |-> "locked", via |-> via, created_at |-> branch[b].created_at,
                     diff_to |-> diff_to, changes |-> changes,
                     origin |-> UNION {OriginRel(b, e.attr) : e \in changes},
                     resolved |-> resolved]]
     /\ UNCHANGED <<edges, branch, deleting, crashes, clean>>

(* A proposed change leaves the graph lock before its transaction commits. *)
ReleaseGraphLock(b) ==
  /\ merge[b].phase = "locked"
  /\ merge[b].via = "proposed_change"
  /\ merge' = [merge EXCEPT ![b].phase = "unlocked"]
  /\ UNCHANGED <<edges, branch, clock, deleting, crashes, clean>>

CommitPhase(b) == merge[b].phase = IF merge[b].via = "branch" THEN "locked" ELSE "unlocked"

(* What merge_graph replaces is the value main has now. *)
ReplacesCurrent(b) ==
  \A f \in merge[b].changes : \E o \in merge[b].origin, e \in edges :
     o.attr = f.attr /\ Same(e, o) /\ e.br = Main /\ e.to = Null

(* Mutant: update_relationships_to leaves out the origin edges. *)
MergeCommit_keeps_origin(b) ==
  LET at == clock + 1
      applied == {e \in edges : \E f \in merge[b].changes : Same(e, f)}
  IN /\ CommitPhase(b)
     /\ clock + 1 < MaxTime
     /\ branch[b].open /\ branch[b].created_at = merge[b].created_at
     /\ clock' = clock + 2
     /\ edges' = (edges \ applied) \cup Close(applied, at)
                 \cup {edge(f.attr, f.val, Main, at) : f \in merge[b].changes}
     /\ branch' = [branch EXCEPT ![b].branched_from = clock + 2]
     /\ merge' = [merge EXCEPT ![b] = NoMerge]
     /\ clean' = (clean /\ ReplacesCurrent(b))
     /\ UNCHANGED <<deleting, crashes>>

(* merge_graph: every change becomes an edge of main; the edges of the branch *)
(* and the origin edges are closed; the branch reads main from a later time   *)
(* on.  Saving the branch fails if its node is gone.                         *)
MergeCommit(b) ==
  LET at == clock + 1
      applied == {e \in edges : \E f \in merge[b].changes \cup merge[b].origin : Same(e, f)}
  IN /\ CommitPhase(b)
     /\ clock + 1 < MaxTime
     /\ branch[b].open /\ branch[b].created_at = merge[b].created_at
     /\ clock' = clock + 2
     /\ edges' = (edges \ applied) \cup Close(applied, at)
                 \cup {edge(f.attr, f.val, Main, at) : f \in merge[b].changes}
     /\ branch' = [branch EXCEPT ![b].branched_from = clock + 2]
     /\ merge' = [merge EXCEPT ![b] = NoMerge]
     /\ clean' = (clean /\ ReplacesCurrent(b))
     /\ UNCHANGED <<deleting, crashes>>

(* An exception before the commit rolls the transaction back. *)
MergeRollback(b) ==
  /\ merge[b].phase # "none"
  /\ merge' = [merge EXCEPT ![b] = NoMerge]
  /\ UNCHANGED <<edges, branch, clock, deleting, crashes, clean>>

-----------------------------------------------------------------------------
Next ==
  \/ \E b \in AnyBranch, a \in Attr, v \in Value : UpdateValue(b, a, v)
  \/ \E b \in Branch :
       \/ CreateBranch(b)
       \/ DeleteBranch(b)
       \/ DeleteBranchRelationships(b)
       \/ DeleteInterrupted(b)
       \/ Rebase(b)
       \/ \E via \in {"branch", "proposed_change"}, resolved, keep \in SUBSET Attr :
            keep \subseteq resolved /\ MergeValidate(b, via, resolved, keep)
       \/ ReleaseGraphLock(b)
       \/ MergeCommit(b)
       \/ MergeRollback(b)

Spec == Init /\ [][Next]_vars

-----------------------------------------------------------------------------
(* Properties.                                                              *)

(* Types, and what the queries rely on: no edge ends before it begins or     *)
(* begins in the future, and a branch reads main no earlier than it was made. *)
TypeOK ==
  /\ edges \subseteq Edge
  /\ \A e \in edges : e.from <= clock /\ e.born <= e.from /\ e.to <= clock
                       /\ (e.to = Null \/ e.from < e.to)
  /\ \A b \in Branch : branch[b].created_at <= branch[b].branched_from
                        /\ branch[b].branched_from <= clock
  /\ branch \in [Branch -> [open : BOOLEAN, created_at : 0..MaxTime, branched_from : 0..MaxTime]]
  /\ clock \in Time
  /\ merge \in [Branch -> [phase : {"none", "locked", "unlocked"},
                           via : {"branch", "proposed_change"}, created_at : 0..MaxTime,
                           diff_to : 0..MaxTime, changes : SUBSET Edge, origin : SUBSET Edge,
                           resolved : SUBSET Attr]]
  /\ deleting \subseteq Branch
  /\ crashes \in 0..MaxCrashes
  /\ clean \in BOOLEAN

(* An attribute has at most one open value edge on a branch, whatever runs   *)
(* at the same time; on main this holds as long as every merge replaced the  *)
(* value that main had.                                                      *)
SingleOpen ==
  \A e, f \in edges :
    /\ e.to = Null /\ f.to = Null
    /\ e.br = f.br /\ e.attr = f.attr
    /\ e.br # Main \/ clean
    => e = f

OwnEdges(b) == {e \in edges : e.br = b}

(* Branches are isolated: what a branch shows changes only with its own      *)
(* edges or with its branched_from, never with what others write or merge.   *)
IsolationStep ==
  \A b \in Branch :
    branch[b].open /\ branch'[b] = branch[b] /\ OwnEdges(b)' = OwnEdges(b) /\ clean'
      => View(b)' = View(b)
Isolation == [][IsolationStep]_vars

(* A rebase keeps what the branch changed and shows main's current values    *)
(* for the rest.                                                             *)
RebaseStep(b) ==
  /\ branch[b].open /\ merge'[b] = merge[b]
  /\ branch'[b].created_at = branch[b].created_at
  /\ branch'[b].branched_from # branch[b].branched_from

RebaseKeepsChanges ==
  [][\A b \in Branch : RebaseStep(b) =>
       \A a \in Attr :
         View(b)'[a] = IF \E e \in OwnEdges(b) : e.attr = a /\ e.to = Null
                       THEN View(b)[a] ELSE View(Main)'[a]]_vars

CommitStep(b) ==
  /\ merge[b].phase # "none" /\ merge'[b].phase = "none"
  /\ branch'[b].branched_from # branch[b].branched_from

(* Main shows the values of the branch, and no other value of main changes. *)
MergeStep(b) ==
  /\ \A f \in merge[b].changes : View(Main)'[f.attr] = {f.val}
  /\ \A a \in Attr : (\A f \in merge[b].changes : f.attr # a) => View(Main)'[a] = View(Main)[a]

(* After a merge main shows the values of the branch, even if nobody wrote    *)
(* anything between its diff and its commit.                                  *)
MergeVisibleInMain ==
  [][\A b \in Branch : CommitStep(b) /\ clock = merge[b].diff_to => MergeStep(b)]_vars

(* The same for the merges that replaced the value main had. *)
CleanMergeVisibleInMain ==
  [][\A b \in Branch : CommitStep(b) /\ clean' => MergeStep(b)]_vars

(* What main showed at a past time (at which nothing was written) is what it *)
(* shows for that time ever after, as long as every merge replaced the value *)
(* main had.                                                                 *)
Quiet(t) == \A e \in edges : e.br = Main => e.from # t /\ e.to # t

HistoryStep ==
  \A a \in Attr, t \in 1..clock : Quiet(t) => Read(Main, a, t)' = Read(Main, a, t)

CleanMainImmutable == [][clean' => HistoryStep]_vars

(* Deleting a branch leaves none of its edges, and a branch created later    *)
(* under the same name starts without any, unless the deletion was cut off.  *)
NoOrphans ==
  crashes = 0 =>
    \A e \in edges : e.br # Main =>
      \/ e.br \in deleting
      \/ branch[e.br].open /\ e.born >= branch[e.br].created_at
=============================================================================
