--------------------------- MODULE ProposedChange ---------------------------
(***************************************************************************)
(* One proposed change: its state, the validators its pipeline records, the *)
(* decisions users take on data conflicts, and the merge that relies on     *)
(* them.                                                                     *)
(*                                                                          *)
(* The content of the branches is reduced to what the validators find in it: *)
(* which paths conflict (and with which pair of values), whether the checks  *)
(* of the repositories succeed, whether the schema constraints hold.  How a  *)
(* validator runs its checks is in ValidatorExecution, what a merge writes   *)
(* in BranchGraph and NodeGraph.                                             *)
(***************************************************************************)
EXTENDS Naturals, FiniteSets

CONSTANTS
  Path,        \* paths of the graph that may be in conflict
  Pair,        \* pairs of conflicting values
  Requested,   \* types of checks that users run again
  Request,     \* concurrent GraphQL mutations of users
  MaxChanges,  \* bound: changes to the content of the branches
  MaxRuns      \* bound: pipelines started

ASSUME BoundAssumption == MaxChanges \in Nat /\ MaxRuns \in Nat \ {0}

VARIABLES
  state,     \* of the proposed change
  source,    \* the source branch exists
  conflict,  \* per path: the values in conflict now
  passes,    \* the validators whose checks succeed on the branch as it is now
  data,      \* DataValidators with their DataChecks
  schema,    \* conclusion of the SchemaValidator
  checks,    \* conclusion of a validator that runs checks
  messages,  \* messages on the bus
  jobs,      \* handlers at work
  request,   \* mutations between their first read and their transaction
  runs, changes,
  raced,     \* history: a mutation, or the search for what to cancel, relied on a state
             \* that was no longer the one it read
  decisions  \* history: the paths on which a user has decided a conflict

vars == <<state, source, conflict, passes, data, schema, checks, messages, jobs, request,
          runs, changes, raced, decisions>>

-----------------------------------------------------------------------------
None == "none"
ProposedChangeState == {"open", "merged", "closed", "canceled"}

(* What the validators other than data integrity look at: "checks" stands for *)
(* those that run checks (merge conflicts of files, user checks, artifacts,  *)
(* generators), "schema" for the constraints of the schema.                  *)
Validator == {"checks", "schema"}
CheckType == {"all", "data"} \cup Validator

ASSUME RequestedAssumption == Requested \subseteq CheckType

Run == 1..MaxRuns
Worker == "worker"
Slot == Request \cup {Worker}

Conflicts == [Path -> Pair \cup {None}]
InConflict(c) == {p \in Path : c[p] # None}
NoConflict == [p \in Path |-> None]

(* A check holds one conflict, and whether keep_branch is set. *)
DataCheck == [by : Run, path : Path, values : Pair, decided : BOOLEAN]
DataValidator == [by : Run, conclusion : {"success", "failure"}, checks : SUBSET DataCheck]

Message == [op : {"pipeline"}, run : Run, type : CheckType]
           \cup [op : {"data"} \cup Validator, run : Run]
           \cup [op : {"trigger_cancel", "request_cancel"}]
Job == [op : {"data"}, run : Run, found : Conflicts]
       \cup [op : {"record"}, run : Run, found : Conflicts, target : Run]
       \cup [op : {"checks"}, run : Run, outcome : {"success", "failure"}]
       \cup [op : {"cancel"}, opened : BOOLEAN]

Idle == [to |-> None]
Update == [to : ProposedChangeState, read : {"open", "closed"}, accepted : BOOLEAN,
           resolved : SUBSET Path, looked : BOOLEAN, found : Conflicts]
Create == [to |-> "created"]

Init ==
  /\ state = None
  /\ source = TRUE
  /\ conflict = NoConflict
  /\ passes = Validator
  /\ data = {}
  /\ schema = None
  /\ checks = None
  /\ messages = {}
  /\ jobs = {}
  /\ request = [q \in Slot |-> Idle]
  /\ runs = 0 /\ changes = 0 /\ raced = FALSE /\ decisions = {}

-----------------------------------------------------------------------------
(* The branches.                                                            *)

(* Somebody changes the branch or main. *)
Change ==
  /\ changes < MaxChanges
  /\ source /\ state # "merged"
  /\ changes' = changes + 1
  /\ \/ \E p \in Path, x \in Pair \cup {None} :
          /\ x # conflict[p]
          /\ conflict' = [conflict EXCEPT ![p] = x]
          /\ UNCHANGED passes
     \/ \E v \in Validator :
          /\ passes' = IF v \in passes THEN passes \ {v} ELSE passes \cup {v}
          /\ UNCHANGED conflict
  /\ UNCHANGED <<state, source, data, schema, checks, messages, jobs, request, runs, raced, decisions>>

(* BranchDelete, and the event that triggers the cancellation. *)
DeleteBranch ==
  /\ source
  /\ source' = FALSE
  /\ messages' = messages \cup {[op |-> "trigger_cancel"]}
  /\ UNCHANGED <<state, conflict, passes, data, schema, checks, jobs, request, runs, changes, raced, decisions>>

-----------------------------------------------------------------------------
(* The pipeline.                                                            *)

Send(m) == messages' = messages \cup m
Receive(m, s) == m \in messages /\ messages' = (messages \ {m}) \cup s

(* ProposedChangeRequestRunCheck *)
RunCheck(t) ==
  /\ runs < MaxRuns
  /\ state = "open" /\ source
  /\ runs' = runs + 1
  /\ Send({[op |-> "pipeline", run |-> runs + 1, type |-> t]})
  /\ UNCHANGED <<state, source, conflict, passes, data, schema, checks, jobs, request, changes, raced, decisions>>

(* pipeline: merge conflicts of files, which fail the checks, abort it once   *)
(* the check that reports them is requested.                                 *)
Pipeline(m) ==
  LET wanted == IF m.type = "all" THEN {"data"} \cup Validator ELSE {m.type}
  IN /\ m.op = "pipeline"
     /\ source
     /\ \E sent \in {wanted} \cup IF "checks" \in passes THEN {} ELSE {{"checks"}} :
          Receive(m, {[op |-> o, run |-> m.run] : o \in sent})
     /\ UNCHANGED <<state, source, conflict, passes, data, schema, checks, jobs, request, runs, changes, raced, decisions>>

(* A handler that fails for good: the branch it asks for is gone. *)
Fail(m) ==
  /\ m.op \in {"pipeline", "data"} \cup Validator
  /\ ~ source
  /\ Receive(m, {})
  /\ UNCHANGED <<state, source, conflict, passes, data, schema, checks, jobs, request, runs, changes, raced, decisions>>

(* data_integrity: the diff comes first... *)
DataIntegrity(m) ==
  /\ m.op = "data" /\ source
  /\ Receive(m, {})
  /\ jobs' = jobs \cup {[op |-> "data", run |-> m.run, found |-> conflict]}
  /\ UNCHANGED <<state, source, conflict, passes, data, schema, checks, request, runs, changes, raced, decisions>>

(* ...then a transaction: get_or_create_validator takes the one it finds... *)
RecordBegin(j) ==
  /\ j.op = "data"
  /\ \E t \in IF data = {} THEN {j.run} ELSE {d.by : d \in data} :
       jobs' = (jobs \ {j}) \cup {[op |-> "record", run |-> j.run, found |-> j.found, target |-> t]}
  /\ UNCHANGED <<state, source, conflict, passes, data, schema, checks, messages, request, runs, changes, raced, decisions>>

(* Mutant: the checks of the previous run are all replaced. *)
Recorded_anew(previous, found, run) ==
  {[by |-> run, path |-> p, values |-> found[p], decided |-> FALSE] : p \in InConflict(found)}

(* record_conflicts: checks of the same conflict are kept with their         *)
(* decision, others are deleted, and there is a new one for each new conflict. *)
Recorded(previous, found, run) ==
  {c \in previous : found[c.path] = c.values}
  \cup {[by |-> run, path |-> p, values |-> found[p], decided |-> FALSE] :
          p \in {x \in InConflict(found) : \A c \in previous : c.path # x \/ c.values # found[x]}}

(* ...and replaces its checks. *)
RecordCommit(j) ==
  LET old == {d \in data : d.by = j.target}
      found == Recorded(UNION {d.checks : d \in old}, j.found, j.run)
  IN /\ j.op = "record"
     /\ jobs' = jobs \ {j}
     /\ data' = (data \ old) \cup
                {[by |-> j.target, checks |-> found,
                  conclusion |-> IF InConflict(j.found) = {} THEN "success" ELSE "failure"]}
     /\ UNCHANGED <<state, source, conflict, passes, schema, checks, messages, request, runs, changes, raced, decisions>>

(* schema_integrity records conflicts, never their absence. *)
SchemaIntegrity(m) ==
  /\ m.op = "schema" /\ source
  /\ Receive(m, {})
  /\ schema' = IF "schema" \in passes THEN schema ELSE "failure"
  /\ UNCHANGED <<state, source, conflict, passes, data, checks, jobs, request, runs, changes, raced, decisions>>

(* The validator is created or started again... *)
StartChecks(m) ==
  /\ m.op = "checks" /\ source
  /\ Receive(m, {})
  /\ checks' = "unknown"
  /\ jobs' = jobs \cup {[op |-> "checks", run |-> m.run,
                         outcome |-> IF "checks" \in passes THEN "success" ELSE "failure"]}
  /\ UNCHANGED <<state, source, conflict, passes, data, schema, request, runs, changes, raced, decisions>>

(* ...and completes. *)
FinishChecks(j) ==
  /\ j.op = "checks"
  /\ jobs' = jobs \ {j}
  /\ checks' = j.outcome
  /\ UNCHANGED <<state, source, conflict, passes, data, schema, messages, request, runs, changes, raced, decisions>>

-----------------------------------------------------------------------------
(* Mutations.                                                               *)

(* A user decides which branch to keep. *)
Decide(d, c) ==
  /\ ~ c.decided
  /\ data' = (data \ {d}) \cup {[d EXCEPT !.checks = (@ \ {c}) \cup {[c EXCEPT !.decided = TRUE]}]}
  /\ decisions' = decisions \cup {c.path}
  /\ UNCHANGED <<state, source, conflict, passes, schema, checks, messages, jobs, request, runs, changes, raced>>

(* mutate_create looks for the source branch in its transaction... *)
BeginCreate(q) ==
  /\ request[q] = Idle
  /\ state = None /\ source
  /\ \A o \in Slot : request[o] = Idle
  /\ request' = [request EXCEPT ![q] = Create]
  /\ UNCHANGED <<state, source, conflict, passes, data, schema, checks, messages, jobs, runs, changes, raced, decisions>>

(* ...commits it and starts the pipeline. *)
CommitCreate(q) ==
  /\ request[q] = Create
  /\ state' = "open"
  /\ runs' = runs + 1
  /\ Send({[op |-> "pipeline", run |-> runs + 1, type |-> "all"]})
  /\ raced' = (raced \/ ~ source)
  /\ request' = [request EXCEPT ![q] = Idle]
  /\ UNCHANGED <<source, conflict, passes, data, schema, checks, jobs, changes, decisions>>

(* ProposedChangeState.validate_editability and validate_state_transition *)
MayBecome(from, to) ==
  \/ from = "open"
  \/ from = "closed" /\ to \in {"canceled", "open"}

AllChecks == UNION {d.checks : d \in data}

(* What mutate_update asks of the validators there are before it merges.      *)
Accepts == schema = None /\ checks \in {None, "success"} /\ \A c \in AllChecks : c.decided

(* mutate_update reads the proposed change, and its validators, as of the    *)
(* time of the request.                                                      *)
Begun(q, to) ==
  /\ request[q] = Idle
  /\ MayBecome(state, to)
  /\ request' = [request EXCEPT ![q] =
       [to |-> to, read |-> state, accepted |-> to = "merged" /\ Accepts,
        resolved |-> IF to = "merged" THEN {c.path : c \in AllChecks} ELSE {},
        looked |-> FALSE, found |-> NoConflict]]

BeginUpdate(q, to) ==
  /\ Begun(q, to)
  /\ UNCHANGED <<state, source, conflict, passes, data, schema, checks, messages, jobs, runs, changes, raced, decisions>>

(* Mutant: the conflicts are those of the data integrity checks. *)
Mergeable_recorded(m) == TRUE

(* BranchMerger.merge: each conflict it finds needs a decision on its path.  *)
Mergeable(m) == InConflict(conflict) \subseteq m.resolved

(* With the answers of the validators, and under the graph lock, the merge   *)
(* looks for conflicts again...                                              *)
LookForConflicts(q) ==
  /\ request[q].to = "merged" /\ ~ request[q].looked
  /\ source
  /\ request[q].accepted
  /\ Mergeable(request[q])
  /\ request' = [request EXCEPT ![q].looked = TRUE, ![q].found = conflict]
  /\ UNCHANGED <<state, source, conflict, passes, data, schema, checks, messages, jobs, runs, changes, raced, decisions>>

(* ...writes what that diff holds, and is committed together with the state  *)
(* of the proposed change, whatever the branches have become.                *)
CommitMerge(q) ==
  /\ request[q].to = "merged" /\ request[q].looked
  /\ state' = "merged"
  /\ conflict' = NoConflict
  /\ raced' = (raced \/ state # request[q].read)
  /\ request' = [request EXCEPT ![q] = Idle]
  /\ UNCHANGED <<source, passes, data, schema, checks, messages, jobs, runs, changes, decisions>>

CommitState(q) ==
  /\ request[q].to \in {"open", "closed", "canceled"}
  /\ state' = request[q].to
  /\ raced' = (raced \/ state # request[q].read)
  /\ request' = [request EXCEPT ![q] = Idle]
  /\ UNCHANGED <<source, conflict, passes, data, schema, checks, messages, jobs, runs, changes, decisions>>

(* An error rolls the transaction back.  The worker's request has no cause   *)
(* to fail.                                                                  *)
Abort(q) ==
  /\ request[q] # Idle
  /\ request' = [request EXCEPT ![q] = Idle]
  /\ UNCHANGED <<state, source, conflict, passes, data, schema, checks, messages, jobs, runs, changes, raced, decisions>>

(* trigger.proposed_change.cancel lists the proposed changes that are open... *)
ListOpen(m) ==
  /\ m.op = "trigger_cancel"
  /\ Receive(m, {})
  /\ jobs' = jobs \cup {[op |-> "cancel", opened |-> state = "open"]}
  /\ UNCHANGED <<state, source, conflict, passes, data, schema, checks, request, runs, changes, raced, decisions>>

(* Mutant: only proposed changes that are open are canceled. *)
Listed_open(j) == j.opened

(* In one of the two lists. *)
Listed(j) == j.opened \/ state = "closed"

(* ...then those that are closed, and asks for the cancellation of each that *)
(* is in a list (of one that is in both twice, which changes nothing).  One  *)
(* that was reopened between the lists is in none.                           *)
ListClosed(j) ==
  /\ j.op = "cancel"
  /\ jobs' = jobs \ {j}
  /\ Send(IF Listed(j) THEN {[op |-> "request_cancel"]} ELSE {})
  /\ raced' = (raced \/ (~ j.opened /\ state = "open"))
  /\ UNCHANGED <<state, source, conflict, passes, data, schema, checks, request, runs, changes, decisions>>

(* ...and request.proposed_change.cancel updates each one through the API.   *)
(* The update is refused if the proposed change is final by now.             *)
RequestCancel(m) ==
  /\ m.op = "request_cancel"
  /\ Receive(m, {})
  /\ IF MayBecome(state, "canceled") THEN Begun(Worker, "canceled") ELSE UNCHANGED request
  /\ UNCHANGED <<state, source, conflict, passes, data, schema, checks, jobs, runs, changes, raced, decisions>>

-----------------------------------------------------------------------------
Handler ==
  \/ \E m \in messages : \/ Pipeline(m) \/ Fail(m) \/ DataIntegrity(m) \/ SchemaIntegrity(m)
                         \/ StartChecks(m) \/ ListOpen(m) \/ RequestCancel(m)
  \/ \E j \in jobs : RecordBegin(j) \/ RecordCommit(j) \/ FinishChecks(j) \/ ListClosed(j)
  \/ CommitState(Worker)

User ==
  \/ Change \/ DeleteBranch
  \/ \E t \in Requested : RunCheck(t)
  \/ \E d \in data : \E c \in d.checks : Decide(d, c)
  \/ \E q \in Request :
       \/ BeginCreate(q) \/ CommitCreate(q)
       \/ \E to \in ProposedChangeState : BeginUpdate(q, to)
       \/ LookForConflicts(q) \/ CommitMerge(q) \/ CommitState(q) \/ Abort(q)

Next == Handler \/ User

(* Workers consume the bus; requests end. *)
Fairness == WF_vars(Handler) /\ \A q \in Request : WF_vars(CommitState(q) \/ Abort(q))

Spec == Init /\ [][Next]_vars /\ Fairness

-----------------------------------------------------------------------------
(* Types; in particular an update only ever starts from open or closed. *)
TypeOK ==
  /\ state \in ProposedChangeState \cup {None}
  /\ source \in BOOLEAN /\ raced \in BOOLEAN
  /\ conflict \in Conflicts
  /\ passes \subseteq Validator
  /\ data \subseteq DataValidator
  /\ schema \in {None, "failure"}
  /\ checks \in {None, "unknown", "success", "failure"}
  /\ messages \subseteq Message
  /\ jobs \subseteq Job
  /\ request \in [Slot -> Update \cup {Idle, Create}]
  /\ runs \in 0..MaxRuns /\ changes \in 0..MaxChanges
  /\ decisions \subseteq Path

(* A merge leaves no conflict to chance: whatever pipelines record, whoever  *)
(* changes a branch, whenever the request has read its validators, a conflict *)
(* that stands as the merge found it is on a path that a user has decided.   *)
(* One that arises after the merge looked is overwritten unseen.             *)
ConflictsDecided ==
  [][state # "merged" /\ state' = "merged" =>
       \E q \in Request :
         /\ request[q] # request'[q]
         /\ \A p \in InConflict(conflict) :
              conflict[p] = request[q].found[p] => p \in decisions]_vars

(* A decision on a conflict that is still there is not lost: only a data     *)
(* integrity check whose diff is out of date when it is recorded drops it.   *)
DecisionKept ==
  [][\A c \in AllChecks : c.decided /\ conflict[c.path] = c.values =>
       \/ c \in AllChecks'
       \/ \E j \in jobs \ jobs' : j.op = "record" /\ j.found[c.path] # conflict[c.path]]_vars

(* Once its branch is deleted, a proposed change does not stay open or       *)
(* closed, unless an update overlapped another one or reopened the proposed  *)
(* change while the cancellation looked for it.                              *)
DeletedBranchCancels ==
  (~ source /\ state # None) ~> (state \in {"merged", "canceled"} \/ raced)
=============================================================================
